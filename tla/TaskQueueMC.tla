----------------------------- MODULE TaskQueueMC -----------------------------
(* TaskQueue instantiated for TLC. *)
EXTENDS TaskQueue, TLC

CONSTANTS a, b, mail, news, r1, r2

MailAndNews == (r1 :> mail) @@ (r2 :> news)
(* A rolling deploy: b has no handler for the topic news yet. *)
HandleRolling == (a :> Topic) @@ (b :> Topic \ {news})
=============================================================================
