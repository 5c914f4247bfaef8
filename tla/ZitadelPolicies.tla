-------------------------- MODULE ZitadelPolicies ---------------------------
(***************************************************************************)
(* The policies of a running Zitadel (scripts/zitadel-apply-policies.py):  *)
(* what the Helm values want is compared with what the Admin API returns,  *)
(* and sent, policy by policy.                                             *)
(*                                                                         *)
(* A policy has a flag, a number, a duration in seconds and a field the    *)
(* script does not manage.  The API leaves a flag that is FALSE and a      *)
(* number that is 0 out of its answer, and replaces a policy by what it is *)
(* sent, the rest going back to its default.                               *)
(***************************************************************************)
EXTENDS Integers, Sequences, FiniteSets, Functions, FiniteSetsExt

Managed == {"flag", "number", "lifetime"}
Fields == Managed \cup {"other"}        \* the fields PUT accepts
Default == [f \in Fields |-> IF f = "flag" THEN FALSE ELSE 0]
Unit == [s |-> 1, m |-> 60, h |-> 3600]

\* seconds: the form of a duration in the API; a unit it does not know stops the script.
Seconds(v) == v.n * Unit[v.unit]
Readable(want) == /\ DOMAIN want \subseteq Managed
                  /\ "lifetime" \in DOMAIN want => want["lifetime"].unit \in DOMAIN Unit
\* desired: only keys the script maps to the API, or it stops before any call.
Desired(want) == [f \in DOMAIN want |-> IF f = "lifetime" THEN Seconds(want[f]) ELSE want[f]]

\* GET: what the answer holds; a field left out of it is not known.
Answer(policy) == Restrict(policy, {f \in Fields : f \in {"flag", "number"} => policy[f] # Default[f]})

\* plan: a flag that is not in the answer is FALSE, another field differs from anything.
Plan(current, want) ==
    {f \in DOMAIN want : IF f \in DOMAIN current THEN current[f] # want[f] ELSE f # "flag" \/ want[f]}

\* Mutant: only what the values want is sent.
BodyWanted(current, want) == want
\* The body of PUT: the current policy, our fields on top of it.
Body(current, want) == [f \in DOMAIN current \cup DOMAIN want |-> IF f \in DOMAIN want THEN want[f] ELSE current[f]]
\* PUT, as Zitadel does it.
Put(body) == [f \in Fields |-> IF f \in DOMAIN body THEN body[f] ELSE Default[f]]

\* Mutant: the call gives up on the first pod that is still starting.
CallOnce(replies) == replies[1]
\* call: a pod that is still starting answers 503, and is asked again, four times.
Call(replies) == replies[Min({k \in 1..5 : replies[k] # "503"} \cup {5})]

\* One policy in the loop of main; a has the replies to its two calls: an error goes on
\* to the next policy, a connection that breaks ends the script, and a PUT whose answer
\* was lost may have been done.
Apply(st, want, apply, a) ==
    LET current == Answer(st.policy)
        wanted == Desired(want)
        changed == Plan(current, wanted) # {}
        get == Call(a.get)
        put == Call(a.put)
    IN CASE get \in {"503", "error"} -> [st EXCEPT !.failed = TRUE]
         [] get = "cut" -> [st EXCEPT !.stopped = TRUE]
         [] get = "ok" /\ ~changed -> st
         [] get = "ok" /\ changed /\ ~apply -> [st EXCEPT !.changed = TRUE]
         [] get = "ok" /\ changed /\ apply ->
              [st EXCEPT !.changed = TRUE, !.failed = @ \/ put \in {"503", "error"}, !.stopped = put \in {"cut", "late"},
                         !.policy = IF put \in {"ok", "late"} THEN Put(Body(current, wanted)) ELSE @]

\* The turn of policy k in the loop: nothing, once the script has stopped.
Turn(was, k, policy, want, apply, a) ==
    IF was.stopped THEN was
    ELSE LET st == Apply([policy |-> policy, changed |-> was.changed, failed |-> was.failed, stopped |-> FALSE], want, apply, a)
         IN [policies |-> [was.policies EXCEPT ![k] = st.policy], changed |-> st.changed, failed |-> st.failed, stopped |-> st.stopped]

\* A run over the policies 1..n: the policies after it, and whether it said failure.
Start(policies, wants) ==
    [policies |-> policies, changed |-> FALSE, failed |-> FALSE, stopped |-> \E i \in 1..Len(policies) : ~Readable(wants[i])]
Run(policies, wants, apply, answers) ==
    LET n == Len(policies)
        after[k \in 0..n] == IF k = 0 THEN Start(policies, wants) ELSE Turn(after[k-1], k, policies[k], wants[k], apply, answers[k])
    IN after[n]

-----------------------------------------------------------------------------
Busy(n, last) == [k \in 1..5 |-> IF k <= n THEN "503" ELSE last]
Clean(n) == [k \in 1..n |-> [get |-> Busy(0, "ok"), put |-> Busy(0, "ok")]]
Patient(replies) == \E n \in 0..4 : replies = Busy(n, "ok")
AsWanted(policy, want) == \A f \in DOMAIN want : policy[f] = Desired(want)[f]

\* A dry run changes nothing; a run that applies changes what is wanted and nothing
\* else, a whole policy or none of it.
TouchesOnlyOurs(c) ==
    LET r == Run(c.policies, c.wants, c.apply, c.answers)
    IN \A k \in 1..Len(c.policies) :
         \/ r.policies[k] = c.policies[k]
         \/ /\ c.apply /\ AsWanted(r.policies[k], c.wants[k])
            /\ \A f \in Fields \ DOMAIN c.wants[k] : r.policies[k][f] = c.policies[k][f]

\* Exit 0 of --apply: every policy is as wanted.  Whatever a run left, one without a
\* failure puts it right, and the next finds nothing to do - but for a number whose
\* wanted value is 0, which the API never shows.  A Zitadel whose pods are up within four
\* attempts is no failure.
Converges(c) ==
    LET n == Len(c.policies)
        r == Run(c.policies, c.wants, c.apply, c.answers)
        again == Run(r.policies, c.wants, TRUE, Clean(n))
        check == Run(again.policies, c.wants, FALSE, Clean(n))
    IN (\A k \in 1..n : Readable(c.wants[k])) =>
         /\ (\A k \in 1..n : Patient(c.answers[k].get) /\ Patient(c.answers[k].put)) => ~r.failed
         /\ c.apply /\ ~r.failed /\ ~r.stopped => \A k \in 1..n : AsWanted(r.policies[k], c.wants[k])
         /\ \A k \in 1..n : AsWanted(again.policies[k], c.wants[k])
         /\ check.changed => \E k \in 1..n : "number" \in DOMAIN c.wants[k] /\ c.wants[k]["number"] = 0

Values == [flag : BOOLEAN, number : {0, 1}, lifetime : {0, 60}, other : {0, 1}]
Wants == [flag : BOOLEAN, number : {0, 1}] \cup [flag : {TRUE}, lifetime : [n : {0, 1}, unit : {"s", "m", "d"}]]
         \cup [number : {1}, unmapped : {1}]
Replies == {Busy(n, last) : n \in {0, 2, 4}, last \in {"ok", "error", "cut"}} \cup {Busy(5, "ok")}
Answers == {[get |-> g, put |-> Busy(0, "ok")] : g \in Replies}
           \cup {[get |-> Busy(0, "ok"), put |-> p] : p \in Replies \cup {Busy(0, "late")}}
Others == {[get |-> g, put |-> Busy(0, p)] : g \in {Busy(0, "ok"), Busy(4, "ok"), Busy(5, "ok")}, p \in {"ok", "late"}}
Cases == [policies : Values \X {[Default EXCEPT !["other"] = 1]}, wants : Wants \X [flag : {TRUE}, number : {1}],
          apply : BOOLEAN, answers : Answers \X Others]
=============================================================================
