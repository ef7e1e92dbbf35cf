--------------------------- MODULE MCFaceService ---------------------------
EXTENDS FaceService, TLC

(* Clients are alike, and so are workers.                                  *)
ServiceSymmetry == Permutations(Client) \cup Permutations(Worker)
=============================================================================
