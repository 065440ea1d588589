-------------------------- MODULE MCResourceManager --------------------------
(* ResourceManager on a small instance: two goroutines, two ids, three     *)
(* registrations, so that one id is taken twice or a resource comes late;  *)
(* the third resource has no cleanup. One unlocked cleanup is enough to    *)
(* undo increments of the holder of the lock.                              *)
EXTENDS ResourceManager

CONSTANTS p1, p2, a, b, none

MCCallers == {p1, p2}
MCIds == {a, b}
MCNone == none
MCMaxResources == 3
MCNoCleanup == {3}
MCMaxUnlocked == 1
=============================================================================
