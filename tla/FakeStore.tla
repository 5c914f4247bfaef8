----------------------------- MODULE FakeStore -----------------------------
(***************************************************************************)
(* The S3 store the offline tests of the backup scripts talk to            *)
(* (src/scripts/dev/testdata/fake_s3_server.py): what each request does to *)
(* the store and what it answers.  A test is right about a script only if  *)
(* this store behaves as S3 does on the calls the script makes.            *)
(*                                                                         *)
(* A key is a sequence of characters, an object the sequence of its bytes. *)
(* Requests are served one after the other.  Left out: the chunked bodies, *)
(* the times, and a key that is also the directory of another.             *)
(***************************************************************************)
EXTENDS Integers, Sequences, FiniteSetsExt, SequencesExt, Functions, TLC

Delim == "/"
Code(c) == CASE c = "/" -> 1 [] c = "a" -> 2 [] c = "b" -> 3 [] c = "c" -> 4

\* k < l, as Python compares strings
Less(k, l) ==
  \/ IsStrictPrefix(k, l)
  \/ \E i \in DOMAIN k \cap DOMAIN l : Code(k[i]) < Code(l[i]) /\ SubSeq(k, 1, i - 1) = SubSeq(l, 1, i - 1)

EmptyStore == [objects |-> <<>>, uploads |-> <<>>, log |-> <<>>]
Reply(code) == [code |-> code]
Said(store, reply) == [store |-> store, reply |-> reply]

\* h.root/.acl: the keys a bucket named there accepts
Denied(acl, r) == acl # <<>> /\ r.ak \notin acl[1]

\* Mutant: the token is the key the next page starts with.
KeysFrom(objects, r) == {k \in DOMAIN objects : IsPrefix(r.prefix, k) /\ (r.after = <<>> \/ k = r.after \/ Less(r.after, k))}

\* k.startswith(prefix) and k > after
KeysAfter(objects, r) == {k \in DOMAIN objects : IsPrefix(r.prefix, k) /\ (r.after = <<>> \/ Less(r.after, k))}

\* rest.split(delim, 1)[0] + delim
Rest(r, k) == SubSeq(k, Len(r.prefix) + 1, Len(k))
Folder(r, k) == SubSeq(k, 1, Len(r.prefix) + Min({i \in DOMAIN Rest(r, k) : Rest(r, k)[i] = Delim}))
Rolled(r, k) == r.delim /\ Delim \in Range(Rest(r, k))

Sorted(keys) == [i \in 1..Cardinality(keys) |-> CHOOSE k \in keys : Cardinality({l \in keys : Less(l, k)}) = i - 1]

List(objects, r) ==
  LET found == KeysAfter(objects, r)
      keys == Sorted({k \in found : ~Rolled(r, k)})
      page == SubSeq(keys, 1, Min({Len(keys), r.max}))
  IN  [code |-> 200, page |-> page, common |-> {Folder(r, k) : k \in {l \in found : Rolled(r, l)}},
       next |-> IF Len(keys) > r.max THEN <<Last(page)>> ELSE <<>>]

\* data[a:b + 1], with the end missing or past the last byte
Slice(data, from, to) == SubSeq(data, from + 1, Min({to + 1, Len(data)}))
Get(objects, r) ==
  IF r.key \notin DOMAIN objects THEN Reply(404)
  ELSE IF r.range = <<>> THEN [code |-> 200, body |-> objects[r.key]]
       ELSE [code |-> 206, body |-> Slice(objects[r.key], r.range[1], r.range[2])]

Without(f, keys) == Restrict(f, DOMAIN f \ keys)

\* Mutant: the parts are put together in the order they came in.
AsSent(parts) == FlattenSeq([i \in DOMAIN parts |-> parts[i].data])

\* sorted(os.listdir(d)); a part sent twice is one file
InOrder(parts) ==
  LET numbers == {parts[i].number : i \in DOMAIN parts}
      data(n) == parts[Max({i \in DOMAIN parts : parts[i].number = n})].data
  IN  FlattenSeq([i \in 1..Cardinality(numbers) |-> data(CHOOSE n \in numbers : Cardinality({m \in numbers : m < n}) = i - 1)])

\* One request of _route, after the log and the access list.
Routed(s, r) ==
  CASE r.is = "put"      -> Said([s EXCEPT !.objects = (r.key :> r.data) @@ @], Reply(200))
    [] r.is = "get"      -> Said(s, Get(s.objects, r))
    [] r.is = "list"     -> Said(s, List(s.objects, r))
    [] r.is = "delete"   -> Said([s EXCEPT !.objects = Without(@, {r.key})], Reply(204))
    [] r.is = "deletes"  -> Said([s EXCEPT !.objects = Without(@, r.keys)], Reply(200))
    [] r.is = "create"   -> Said([s EXCEPT !.uploads = Append(@, <<>>)], [code |-> 200, id |-> Len(s.uploads) + 1])
    [] r.is = "part"     -> Said([s EXCEPT !.uploads[r.id] = Append(@, [number |-> r.number, data |-> r.data])], Reply(200))
    [] r.is = "complete" -> Said([s EXCEPT !.objects = (r.key :> InOrder(s.uploads[r.id])) @@ @], Reply(200))
    [] r.is = "abort"    -> Said(s, Reply(204))
    [] r.is = "copy"     -> Said(s, Reply(501))

Serve(s, r, acl) ==
  LET logged == [s EXCEPT !.log = Append(@, <<r.is, r.ak>>)]
  IN  IF Denied(acl, r) THEN Said(logged, Reply(403)) ELSE Routed(logged, r)

\* What a client saw: the requests in their order, from a store.
Session(s, requests, acl) ==
  FoldLeft(LAMBDA seen, r : Append(seen, Serve(IF seen = <<>> THEN s ELSE Last(seen).store, r, acl)), <<>>, requests)
-----------------------------------------------------------------------------
\* A listing asked for page by page: the first from one store, the others from the next.
Pages(first, others, r) ==
  FoldLeft(LAMBDA pages, objects :
            IF pages # <<>> /\ Last(pages).next = <<>> THEN pages
            ELSE Append(pages, List(objects, [r EXCEPT !.after = IF pages = <<>> THEN <<>> ELSE Last(pages).next[1]])),
          <<>>, <<first, others, others, others, others>>)

\* A listing whose pages are asked for one by one returns, in their order and once, the keys of
\* the prefix that were there all along, none that never was, and with a delimiter the folder of
\* every key below it, whatever is written or removed after the first page (_list).
ListingIsWhole(c) ==
  LET store == [EmptyStore EXCEPT !.objects = [k \in c.keys |-> <<>>]]
      later == Serve(store, c.other, <<>>).store.objects
      pages == Pages(store.objects, later, c.list)
      names == FlattenSeq([i \in DOMAIN pages |-> pages[i].page])
      folders == UNION {pages[i].common : i \in DOMAIN pages}
      always == {k \in c.keys \cap DOMAIN later : IsPrefix(c.list.prefix, k)}
      ever == {k \in c.keys \cup DOMAIN later : IsPrefix(c.list.prefix, k)}
  IN  /\ Last(pages).next = <<>>
      /\ \A i, j \in DOMAIN names : i < j => Less(names[i], names[j])
      /\ Range(names) \subseteq ever
      /\ \A k \in always : k \in Range(names) \/ (c.list.delim /\ \E f \in folders : IsStrictPrefix(f, k))
      /\ \A f \in folders : Last(f) = Delim /\ f # c.list.prefix /\ \E k \in ever : IsStrictPrefix(f, k)

\* What a key holds after requests as S3 says: the last of what was put and, for an upload
\* that was completed, its parts by number, each as it was sent last.
Parts(requests, id) == SelectSeq(requests, LAMBDA r : r.is = "part" /\ r.id = id)
Held(requests, key) ==
  LET part(parts, n) == LET i == {j \in DOMAIN parts : parts[j].number = n}
                        IN  IF i = {} THEN <<>> ELSE parts[Max(i)].data
      after(held, i) ==
        LET r == requests[i] IN
        CASE r.is = "put" /\ r.key = key -> <<r.data>>
          [] r.is \in {"delete", "deletes"} -> IF key \in (IF r.is = "delete" THEN {r.key} ELSE r.keys) THEN <<>> ELSE held
          [] r.is = "complete" /\ r.key = key ->
               LET parts == Parts(SubSeq(requests, 1, i), r.id) IN <<part(parts, 1) \o part(parts, 2)>>
          [] OTHER -> held
  IN  FoldLeft(after, <<>>, [i \in DOMAIN requests |-> i])

\* After any requests, of one upload or of two at once, a read answers what the key holds, a range
\* of it those bytes, and a key the access list does not name changes and reads nothing.
ReadsTheLastWrite(c) ==
  LET seen == Session(EmptyStore, c.requests, c.acl)
      let == SelectSeq(c.requests, LAMBDA r : ~Denied(c.acl, r))
      held == Held(let, c.get.key)
      answer == Serve(Last(seen).store, c.get, c.acl).reply
  IN  /\ \A i \in DOMAIN seen : (seen[i].reply.code = 403) = (c.acl # <<>> /\ c.requests[i].ak \notin c.acl[1])
      /\ c.acl # <<>> /\ c.get.ak \notin c.acl[1] => answer = Reply(403)
      /\ answer.code # 403 =>
           IF held = <<>> THEN answer = Reply(404)
           ELSE answer.body = IF c.get.range = <<>> THEN held[1]
                              ELSE [i \in 1..(Min({c.get.range[2] + 1, Len(held[1])}) - c.get.range[1]) |-> held[1][c.get.range[1] + i]]
      /\ Len(Last(seen).store.log) = Len(c.requests)
-----------------------------------------------------------------------------
StoreKeys == {<<"a", Delim, "a">>, <<"a", Delim, "b">>, <<"b">>, <<"c", Delim, "a">>}
ListCases ==
  [keys : SUBSET StoreKeys,
   other : [is : {"put"}, key : StoreKeys, data : {<<>>}, ak : {"p"}] \cup [is : {"delete"}, key : StoreKeys, ak : {"p"}],
   list : [is : {"list"}, prefix : {<<>>, <<"a", Delim>>}, delim : BOOLEAN, after : {<<>>}, max : {1, 2}, ak : {"p"}]]

Sends == [is : {"part"}, id : {1, 2}, number : {1, 2}, data : {<<1>>, <<2, 3>>}, ak : {"p"}]
Writes == [is : {"put"}, key : {<<"b">>}, data : {<<4>>, <<>>}, ak : {"p", "r"}] \cup [is : {"delete"}, key : {<<"b">>}, ak : {"p", "r"}]
          \cup [is : {"deletes"}, keys : {{<<"b">>, <<"c">>}}, ak : {"r"}] \cup [is : {"abort"}, id : {2}, ak : {"p"}]
          \cup [is : {"complete"}, id : {1, 2}, key : {<<"b">>}, ak : {"p"}]
Opens == [is |-> "create", ak |-> "p"]
SessionCases ==
  [requests : {<<Opens, Opens>> \o s \o t : s \in SeqOf(Sends, 2), t \in SeqOf(Writes, 2)}, acl : {<<>>, <<{"p"}>>},
   get : [is : {"get"}, key : {<<"b">>}, range : {<<>>, <<0, 1>>}, ak : {"p"}]]
  \cup [requests : {<<Opens, [is |-> "put", key |-> <<"b">>, data |-> <<4, 5, 6>>, ak |-> "p"]>>}, acl : {<<>>, <<{"p"}>>},
        get : [is : {"get"}, key : {<<"b">>, <<"c">>}, range : {<<>>, <<1, 1>>, <<1, 2>>, <<2, 5>>}, ak : {"p", "r"}]]
=============================================================================
