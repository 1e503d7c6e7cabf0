---------------------------- MODULE MCMailQueue ----------------------------
(* Instances of MailQueue for model checking. *)
EXTENDS MailQueue

OneUser == {"alice"}
News == {"news"}
NewsOrNone == {"", "news"}
ToBoth == {{"alice", "mail"}}
=============================================================================
