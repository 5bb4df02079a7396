----------------------------- MODULE MCProducer -----------------------------
(***************************************************************************)
(* Producer with a few workers, picking from all texts of up to two        *)
(* characters, and of three out of a letter of each table, a symbol and a  *)
(* space.                                                                  *)
(***************************************************************************)
EXTENDS Producer, SequencesExt

MCText == SeqOf(Char, 2) \cup SeqOf({"a", "YO", "-", " "}, 3)
NoText == {<<>>}
MCStopText == SeqOf({"a", "-", " "}, 3) \cup SeqOf({"a", "1", " "}, 2)
=============================================================================
