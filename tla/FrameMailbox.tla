---------------------------- MODULE FrameMailbox ----------------------------
(***************************************************************************)
(* What a consumer of a capture generation may rely on: it sees newer and  *)
(* newer frames, never an older one, may miss some, and as long as the     *)
(* generation lives it is not left behind for ever.  FrameRing implements  *)
(* this specification.                                                     *)
(***************************************************************************)
EXTENDS Naturals

VARIABLES
  latest,   \* number of the newest published frame
  shown,    \* number of the frame the consumer holds, 0 = none yet
  ended     \* the generation or its consumer has ended

mailVars == <<latest, shown, ended>>

MailInit == latest = 0 /\ shown = 0 /\ ended = FALSE

Post == latest' = latest + 1 /\ UNCHANGED <<shown, ended>>

Show ==
  /\ ~ended
  /\ shown' \in shown + 1 .. latest
  /\ UNCHANGED <<latest, ended>>

\* The consumer may show one more frame on its way out.
LateShow ==
  /\ ended
  /\ shown' \in shown + 1 .. latest
  /\ UNCHANGED <<latest, ended>>

End == ended' = TRUE /\ UNCHANGED <<latest, shown>>

MailNext == Post \/ Show \/ LateShow \/ End

\* What may happen, and that something does.
MailSafety == MailInit /\ [][MailNext]_mailVars

MailSpec == MailSafety /\ WF_mailVars(Show)
=============================================================================
