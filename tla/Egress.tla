------------------------------- MODULE Egress -------------------------------
(***************************************************************************)
(* The test of the provider-S3 egress rules                                *)
(* (src/scripts/dev/test-s3-egress-fqdns.py): it finds the toFQDNs blocks  *)
(* of the network policies by their indentation, and matches their entries *)
(* with the hosts a provider has and with look-alikes.                     *)
(*                                                                         *)
(* A host is a sequence of labels and dots; a line of a policy is its      *)
(* indentation and what it holds.  One provider stands for the three.      *)
(***************************************************************************)
EXTENDS Integers, Sequences, SequencesExt, FiniteSetsExt, Functions, TLC

CONSTANTS
  MustMatch,     \* hosts every rule admits
  MustNotMatch   \* hosts no rule admits

Dot == "."
NoBreak(host, i, j) == \A k \in (i + 1)..j : host[k] # Dot

\* Mutant: a star matches dots as well.
StepAcross(host, at, c) ==
  IF c = "*" THEN {j \in 0..Len(host) : \E i \in at : i <= j}
  ELSE {i + 1 : i \in {j \in at : j < Len(host) /\ host[j + 1] = c}}

\* One character of the expression of to_regex, from the places reached so far.
Step(host, at, c) ==
  IF c = "*" THEN {j \in 0..Len(host) : \E i \in at : i <= j /\ NoBreak(host, i, j)}
  ELSE {i + 1 : i \in {j \in at : j < Len(host) /\ host[j + 1] = c}}

\* matches: to_regex(kind, value), anchored at both ends
Matches(entries, host) ==
  \E n \in DOMAIN entries :
    IF entries[n].kind = "Name" THEN entries[n].value = host
    ELSE Len(host) \in FoldLeft(LAMBDA at, c : Step(host, at, c), {0}, entries[n].value)

Provider(entry) == "scw" \in Range(entry.value) /\ "s3" \in Range(entry.value)

\* The lines of the block: until one that is no entry, no comment and not deeper than the key of the rule.
Ends(line, indent) == line.is \notin {"match", "comment"} /\ line.at <= indent + 2
First(S, otherwise) == IF S = {} THEN otherwise ELSE Min(S)
BlockEnd(lines, i) == First({j \in (i + 1)..Len(lines) : Ends(lines[j], lines[i].at)}, Len(lines) + 1)
Block(lines, i) == SelectSeq(SubSeq(lines, i + 1, BlockEnd(lines, i) - 1), LAMBDA l : l.is = "match")

\* Mutant: a line at the column of the key is taken for the rule's own.
PortsEndPast(lines, i) == First({j \in BlockEnd(lines, i)..Len(lines) : lines[j].at < lines[i].at}, Len(lines) + 1)
\* The ports behind it: as long as the lines, comments too, are deeper than the key.
PortsEnd(lines, i) == First({j \in BlockEnd(lines, i)..Len(lines) : lines[j].at <= lines[i].at}, Len(lines) + 1)
Ports(lines, i) == {lines[j].port : j \in {k \in BlockEnd(lines, i)..(PortsEnd(lines, i) - 1) : lines[k].is = "port"}}

\* s3_rules
Rules(lines) ==
  LET starts == SelectSeq([i \in DOMAIN lines |-> i], LAMBDA i : lines[i].is = "toFQDNs"
                            /\ \E n \in DOMAIN Block(lines, i) : Provider(Block(lines, i)[n].entry))
  IN  [n \in DOMAIN starts |-> [entries |-> [k \in DOMAIN Block(lines, starts[n]) |-> Block(lines, starts[n])[k].entry],
                                ports |-> Ports(lines, starts[n])]]

\* The failures of the test over its files.
RuleFailures(rule) ==
  (IF rule.ports # {443} THEN {"ports"} ELSE {})
  \cup (IF \E h \in MustMatch : ~Matches(rule.entries, h) THEN {"does not admit"} ELSE {})
  \cup (IF \E h \in MustNotMatch : Matches(rule.entries, h) THEN {"admits"} ELSE {})
Failures(files) ==
  LET found == UNION {Range(Rules(files[f])) : f \in DOMAIN files}
      \* sorted(rules): the entries of a rule, in no order
      sets == {[e \in Range(r.entries) |-> Cardinality({n \in DOMAIN r.entries : r.entries[n] = e})] : r \in found}
  IN  (IF \E f \in DOMAIN files : Rules(files[f]) = <<>> THEN {"no block"} ELSE {})
      \cup UNION {RuleFailures(r) : r \in found}
      \cup (IF Cardinality(sets) > 1 THEN {"different"} ELSE {})
-----------------------------------------------------------------------------
\* A policy: rules to names or to anything else, each with its ports before or behind its names.
Line(at, is) == [at |-> at, is |-> is]
Names(rule, at) == [n \in DOMAIN rule.entries |-> Line(at, "match") @@ [entry |-> rule.entries[n]]]
PortLines(rule) == <<Line(6, "other")>> \o [n \in DOMAIN rule.ports |-> Line(8, "port") @@ [port |-> rule.ports[n]]]
\* A comment behind the first port, if there is one, at a column of its own.
Remarked(rule, at) ==
  <<Line(2, "toFQDNs")>> \o Names(rule, 6) \o <<Line(4, "other")>>
    \o InsertAt(PortLines(rule), Min({3, Len(PortLines(rule)) + 1}), Line(at, "comment"))
Written(rule) ==
  CASE rule.layout = "names first" -> <<Line(2, "toFQDNs")>> \o Names(rule, 6) \o <<Line(6, "comment"), Line(4, "other")>> \o PortLines(rule)
    [] rule.layout = "flush" -> <<Line(2, "toFQDNs")>> \o Names(rule, 4) \o <<Line(0, "comment"), Line(4, "other")>> \o PortLines(rule)
    [] rule.layout = "remarked" -> Remarked(rule, 6)
    [] rule.layout = "interrupted" -> Remarked(rule, 0)
    [] rule.layout = "cut off" -> <<Line(2, "toFQDNs")>> \o Names(rule, 6) \o <<Line(4, "other"), Line(0, "comment")>> \o PortLines(rule)
    [] rule.layout = "ports first" -> <<Line(2, "other")>> \o PortLines(rule) \o <<Line(4, "toFQDNs")>> \o Names(rule, 6)
    [] rule.layout = "no names" -> <<Line(2, "other"), Line(4, "other")>> \o PortLines(rule) \o <<Line(8, "other")>> \o Names(rule, 10)
WrittenAll(policy) == FlattenSeq([n \in DOMAIN policy |-> Written(policy[n])])

\* What Cilium admits of a name: the same number of labels, each equal or under the star.
Labels(name) ==
  LET dots == {0} \cup {i \in DOMAIN name : name[i] = Dot} \cup {Len(name) + 1}
      from(n) == CHOOSE i \in dots : Cardinality({j \in dots : j < i}) = n - 1
  IN  [n \in 1..(Cardinality(dots) - 1) |-> SubSeq(name, from(n) + 1, from(n + 1) - 1)]
Admits(rule, host) ==
  \E n \in DOMAIN rule.entries :
    LET p == Labels(rule.entries[n].value) h == Labels(host) IN
    /\ Len(p) = Len(h)
    /\ \A i \in DOMAIN p : p[i] = h[i] \/ (rule.entries[n].kind = "Pattern" /\ p[i] = <<"*">>)

Opened(rule) == Range(rule.ports)
Concerned(files) ==
  {r \in UNION {Range(files[f]) : f \in DOMAIN files} : r.layout # "no names" /\ \E e \in Range(r.entries) : Provider(e)}
Reaches(rule) == (\A h \in MustMatch : Admits(rule, h)) /\ ~\E h \in MustNotMatch : Admits(rule, h)
Right(rule) == Opened(rule) = {443} /\ Reaches(rule)
Accepted(files) == Failures([f \in DOMAIN files |-> WrittenAll(files[f])]) = {}

\* Policies the test accepts let every workload of them reach every region of the provider, nothing that
\* only looks like it, on 443 alone, and all alike: as Cilium reads the rules, not as their lines lie - but
\* for the ports behind a comment at the column of the key, or left of it.
AcceptedReaches(files) ==
  Accepted(files) =>
    /\ \A r \in Concerned(files) : Reaches(r) /\ (Opened(r) = {443} \/ (r.layout = "interrupted" /\ Head(r.ports) = 443))
    /\ \A f \in DOMAIN files : \E n \in DOMAIN files[f] : files[f][n] \in Concerned(files)
    /\ \A r, s \in Concerned(files) : Range(r.entries) = Range(s.entries)

\* And policies that are right are accepted, if their names come before their ports and no such comment
\* before all of these.
RightIsAccepted(files) ==
  /\ \A r \in Concerned(files) : Right(r) /\ r.layout \notin {"ports first", "cut off"}
  /\ \A f \in DOMAIN files : \E n \in DOMAIN files[f] : files[f][n] \in Concerned(files)
  /\ \A r, s \in Concerned(files) : Range(r.entries) = Range(s.entries)
  => Accepted(files)
-----------------------------------------------------------------------------
Entry(kind, value) == [kind |-> kind, value |-> value]
Host(region) == <<"s3", Dot, region, Dot, "scw">>
Entries == {Entry("Pattern", Host("*")), Entry("Name", Host("par")), Entry("Name", Host("gra")), Entry("Pattern", <<"*", Dot, "scw">>),
            Entry("Pattern", <<"s3", Dot, "*">>), Entry("Pattern", <<"s3", Dot, "*", Dot, "*">>), Entry("Name", <<"x">>)}
Lists == {<<e>> : e \in Entries} \cup {p \in Entries \X Entries : p[1] # p[2]}
Rule(layout, entries, ports) == [layout |-> layout, entries |-> entries, ports |-> ports]
Good == Rule("names first", <<Entry("Pattern", Host("*"))>>, <<443>>)
Dns == Rule("no names", <<Entry("Pattern", <<"*">>)>>, <<53>>)
EgressCases ==
  {f \o g : f \in {<<p>> : p \in {<<Rule(l, e, ports)>> \o after : l \in {"names first", "flush", "ports first", "remarked", "interrupted", "cut off"}, e \in Lists,
                                  ports \in {<<443>>, <<443, 443>>, <<443, 80>>, <<80, 443>>, <<>>}, after \in {<<>>, <<Dns>>, <<Good>>}}},
            g \in {<<>>, <<<<Dns, Good>>>>}}
=============================================================================
