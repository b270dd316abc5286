----------------------------- MODULE OneVerdict -----------------------------
(***************************************************************************)
(* What a worker promises about each record it is given, with no stages,   *)
(* no retries, no breakers and no clock in it.  While it works it says so; *)
(* it comes to one ending; what it turns down it has asked nobody about,   *)
(* and what it answers it has.  It falls silent before it tells the asker, *)
(* tells at most once, what it came to, and may be lost at any moment.     *)
(***************************************************************************)

CONSTANTS Endings, TurnedDown

VARIABLES
  phase,    \* idle, working or concluded
  ending,   \* what the work came to
  asked,    \* something of the record was sent out
  beating,  \* "still working" may yet be said
  verdict   \* what the asker was told

promise == <<phase, ending, asked, beating, verdict>>

Init ==
  /\ phase = "idle"
  /\ ending = "none"
  /\ asked = FALSE
  /\ beating = FALSE
  /\ verdict = "none"

Begin ==
  /\ phase = "idle"
  /\ phase' = "working"
  /\ beating' = TRUE
  /\ asked' = FALSE
  /\ verdict' = "none"
  /\ UNCHANGED ending

Ask ==
  /\ phase = "working"
  /\ asked' = TRUE
  /\ UNCHANGED <<phase, ending, beating, verdict>>

Conclude(e) ==
  /\ phase = "working"
  /\ e \in TurnedDown => ~ asked
  /\ e = "answer" => asked
  /\ phase' = "concluded"
  /\ ending' = e
  /\ UNCHANGED <<asked, beating, verdict>>

FallSilent ==
  /\ phase = "concluded"
  /\ beating' = FALSE
  /\ UNCHANGED <<phase, ending, asked, verdict>>

Tell ==
  /\ phase = "concluded"
  /\ ending # "raised"
  /\ ~ beating
  /\ verdict' = IF ending = "answer" THEN "answer" ELSE "failure"
  /\ phase' = "idle"
  /\ ending' = "none"
  /\ UNCHANGED <<asked, beating>>

GiveUp ==
  /\ phase # "idle"
  /\ phase' = "idle"
  /\ ending' = "none"
  /\ beating' = FALSE
  /\ UNCHANGED <<asked, verdict>>

Next ==
  \/ Begin \/ Ask \/ (\E e \in Endings : Conclude(e)) \/ FallSilent \/ Tell \/ GiveUp

Spec == Init /\ [][Next]_promise
=============================================================================
