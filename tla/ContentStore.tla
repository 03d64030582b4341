---------------------------- MODULE ContentStore ----------------------------
(***************************************************************************)
(* What common/file.hpp promises: a store that only grows, in which a name *)
(* (the hash of a content) is there with exactly that content or not at    *)
(* all. Contents stand for their hashes: SHA-1 is taken to be injective.   *)
(***************************************************************************)

CONSTANT Content    \* byte strings

VARIABLE file       \* file[h]: what the file named h holds

StoreInit == file = [h \in {} |-> h]

(* saveStringToFile and the other users of FileSave; storing a content that *)
(* is there already changes nothing.                                        *)
Put(c) == file' = [h \in DOMAIN file \cup {c} |-> IF h = c THEN c ELSE file[h]]

StoreNext == \E c \in Content : Put(c)

StoreSpec == StoreInit /\ [][StoreNext]_file
=============================================================================
