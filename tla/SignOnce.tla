------------------------------ MODULE SignOnce ------------------------------
(***************************************************************************)
(* What sign() promises the other services, without callers, locks,        *)
(* timeouts or crashes: a nonce is bound to one job and plan before        *)
(* anything else and for ever; the record of the job is opened for a plan  *)
(* it holds the nonce of; only while it is SIGNING is the signer asked,    *)
(* once; it is SIGNED with a signature that was made while the plan was    *)
(* valid, never anew, and UNKNOWN and QUARANTINED are for ever.            *)
(***************************************************************************)
EXTENDS Naturals

CONSTANTS Jobs, Plans

VARIABLES
    jobs,       \* job -> [plan, state]
    bound,      \* nonce -> [job, plan]
    asked,      \* plan -> how often the signer was asked for it
    issued,     \* plans the signer has signed
    stale,      \* of those, the ones no longer valid when signed
    valid

promiseVars == <<jobs, bound, asked, issued, stale, valid>>

Init ==
    /\ jobs = << >> /\ bound = << >>
    /\ asked = [p \in Plans |-> 0] /\ issued = {} /\ stale = {}
    /\ valid = Plans

With(f, key, value) == [k \in DOMAIN f \cup {key} |-> IF k = key THEN value ELSE f[k]]

Is(j, states) == j \in DOMAIN jobs /\ jobs[j].state \in states
Becomes(j, state) ==
    /\ jobs' = [jobs EXCEPT ![j].state = state]
    /\ UNCHANGED <<bound, asked, issued, stale, valid>>

Bind(j, p) ==
    /\ p.nonce \notin DOMAIN bound /\ j \notin DOMAIN jobs
    /\ bound' = With(bound, p.nonce, [job |-> j, plan |-> p])
    /\ UNCHANGED <<jobs, asked, issued, stale, valid>>

Open(n) ==
    /\ n \in DOMAIN bound /\ bound[n].job \notin DOMAIN jobs
    /\ jobs' = With(jobs, bound[n].job, [plan |-> bound[n].plan, state |-> "SIGNING"])
    /\ UNCHANGED <<bound, asked, issued, stale, valid>>

Request(j) ==
    /\ Is(j, {"SIGNING"}) /\ asked[jobs[j].plan] = 0
    /\ asked' = [asked EXCEPT ![jobs[j].plan] = 1]
    /\ UNCHANGED <<jobs, bound, issued, stale, valid>>

Keep(j)       == Is(j, {"SIGNING"}) /\ jobs[j].plan \in issued \ stale /\ Becomes(j, "SIGNED")
Abandon(j)    == Is(j, {"SIGNING", "SIGNED"}) /\ Becomes(j, "UNKNOWN")
Quarantine(j) == Is(j, {"SIGNING", "SIGNED"}) /\ Becomes(j, "QUARANTINED")

Issue(p) ==
    /\ asked[p] > 0 /\ p \notin issued
    /\ issued' = issued \cup {p}
    /\ stale' = IF p \in valid THEN stale ELSE stale \cup {p}
    /\ UNCHANGED <<jobs, bound, asked, valid>>

Invalidate(p) ==
    /\ valid' = valid \ {p}
    /\ UNCHANGED <<jobs, bound, asked, issued, stale>>

Next ==
    \/ \E j \in Jobs : \/ \E p \in Plans : Bind(j, p)
                       \/ Request(j) \/ Keep(j) \/ Abandon(j) \/ Quarantine(j)
    \/ \E n \in DOMAIN bound : Open(n)
    \/ \E p \in Plans : Issue(p) \/ Invalidate(p)

Spec == Init /\ [][Next]_promiseVars
=============================================================================
