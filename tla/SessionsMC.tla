----------------------------- MODULE SessionsMC -----------------------------
(* An admin, root, and a user, alice.  A behaviour takes the mailed links, the passkeys and OAuth,
   within one tick, or the disguises and their renewals, over MaxTime: each mixes with sign-ins,
   second factors and lost answers, and neither reads what the other writes.  It is left once an
   answer was applied late. *)
EXTENDS Sessions

CONSTANTS alice, root, b1

Linked == \/ mail # {} \/ \E u \in Users : accounts[u].passkey
          \/ \E b \in Browsers : jar[b].verifier
          \/ \E s \in DOMAIN sessions : sessions[s].via \notin {"password", "disguise"}

Masked == \E s \in DOMAIN sessions : sessions[s].via = "disguise"

InScope ==
  /\ crossed = {}
  /\ Cardinality(mail) <= 1
  /\ \A m \in mail : m.to = alice
  /\ ~ accounts[root].passkey
  /\ Linked => /\ now = 0 /\ ~ Masked /\ Cardinality(wire) <= 1
               /\ \A s \in DOMAIN sessions : sessions[s].sub = alice
               /\ accounts[root].factor = "none"
  /\ now > 0 => Masked \/ Len(sessions) < 2
  /\ Masked => missed = {}
=============================================================================
