------------------------------- MODULE MCShared -------------------------------
(***************************************************************************)
(* The parts of Lab2 that work on bytes, in one run: whichever is started  *)
(* first runs alone.                                                       *)
(***************************************************************************)
EXTENDS KeyCodec, AuthService, FileTransfer, Idea, MD5
VARIABLE part
Only(p) == part \in {"none", p} /\ part' = p
Init ==
  part = "none" /\ KeyInit /\ AuthInit /\ TransferInit /\ IdeaInit /\ MD5Init
Next ==
  \/ Only("key") /\ KeyNext /\ UNCHANGED <<authVars, transferVars, ideaVars, md5Vars>>
  \/ Only("auth") /\ AuthNext /\ UNCHANGED <<keyVars, transferVars, ideaVars, md5Vars>>
  \/ Only("file") /\ TransferNext /\ UNCHANGED <<keyVars, authVars, ideaVars, md5Vars>>
  \/ Only("chain") /\ IdeaNext /\ UNCHANGED <<keyVars, authVars, transferVars, md5Vars>>
  \/ Only("md5") /\ MD5Next /\ UNCHANGED <<keyVars, authVars, transferVars, ideaVars>>
Spec == Init /\ [][Next]_<<part, keyVars, authVars, transferVars, ideaVars, md5Vars>>
\* Keys of eight words with and without zeros, and chains of two equal blocks.
MCIdeaKeys == {<<a, b, 1, 14, c, 6, a, 9>> : a \in {0, 5, 11}, b \in {3, 8, 15}, c \in 0 .. 15}
MCChains == {<<<<3, 0, 9, 12>>, <<a, 4, b, 0>>, <<a, 4, b, 0>>>> : a \in {0, 1, 13}, b \in {2, 15}}
===============================================================================
