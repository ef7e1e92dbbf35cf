-------------------------------- MODULE Vision --------------------------------
(***************************************************************************)
(* The parts of the server that look at pictures: the networks' engine     *)
(* (NcnnNet), face detection, recognition, and the pure functions they are *)
(* built from.  A handler uses them one after the other on data of its     *)
(* own, so that their steps cannot interfere: a behaviour of this module   *)
(* is one of one part, the others rest.                                    *)
(***************************************************************************)
EXTENDS NcnnNet, Detection, Recognition

K == INSTANCE Kernels

VARIABLES
    part,       \* the part under way
    job,        \* the inputs of a pure function
    result,     \* what it returned
    done        \* has it been called?

callVars == <<job, result, done>>
visionVars == <<part, netVars, detVars, recVars, callVars>>

NoJob == [kind |-> "none"]

CallIdle == job = NoJob /\ result = 0 /\ done = FALSE

CallInit ==
    /\ \E kind \in K!Kinds : job \in K!JobsOf(kind)
    /\ result = 0 /\ done = FALSE

NetIdle == NetStart(CHOOSE f \in Files : TRUE)

Init ==
    \/ part = "net" /\ NetInit /\ DetIdle /\ RecInit /\ CallIdle
    \/ part = "detect" /\ NetIdle /\ DetInit /\ RecInit /\ CallIdle
    \/ part = "recognize" /\ NetIdle /\ DetIdle /\ RecInit /\ CallIdle
    \/ part = "call" /\ NetIdle /\ DetIdle /\ RecInit /\ CallInit

Return ==
    /\ ~done
    /\ result' = K!ResultOf(job)
    /\ done' = TRUE
    /\ UNCHANGED job

NetStep ==
    /\ part = "net" /\ NetNext
    /\ UNCHANGED <<part, detVars, recVars, callVars>>

DetectStep ==
    /\ part = "detect" /\ DetNext
    /\ UNCHANGED <<part, netVars, recVars, callVars>>

RecognizeStep ==
    /\ part = "recognize" /\ RecNext
    /\ UNCHANGED <<part, netVars, detVars, callVars>>

CallStep ==
    /\ part = "call" /\ Return
    /\ UNCHANGED <<part, netVars, detVars, recVars>>

Next == NetStep \/ DetectStep \/ RecognizeStep \/ CallStep

Spec == Init /\ [][Next]_visionVars

-----------------------------------------------------------------------------
\* Every function returns what its definition by places, names and neighbours
\* says: gaps between channels, row pointers of the unrolled kernels, borders,
\* the three forms of parameters and weights, padding characters and defaults
\* of the configuration make no difference (ncnn/mat.h, mat.cpp,
\* mat_pixel.cpp, paramdict.cpp, layer/, codecs.cpp, conf_mgt.cpp).
KernelsAgree == done => K!AsMeant(job, result)
=============================================================================
