------------------------------ MODULE IoProofs ------------------------------
(***************************************************************************)
(* Disk and console requests keep what RequestsKept says, for any callers  *)
(* and any number of command slots.  The list of requests is followed      *)
(* through the single statements of list_add_tail and list_del: while one  *)
(* of them is under way, the list it will leave is whole.                  *)
(***************************************************************************)
EXTENDS Ahci, FiniteSetTheorems, WellFoundedInduction, TLAPS

Node == User \cup {Root}

Mem == [next : [Node -> Node], prev : [Node -> Node]]

(* A set that a walk along next from the head does not leave. *)
Closed(n, S) == Root \in S /\ \A x \in S : n[x] \in S

(* next and prev undo each other, a node off the list L is linked to       *)
(* itself, and a walk from the head meets all of L.                        *)
Whole(n, p, L) ==
  /\ n \in [Node -> Node] /\ p \in [Node -> Node]
  /\ \A x \in Node : p[n[x]] = x /\ n[p[x]] = x
  /\ \A x \in Node \ (L \cup {Root}) : n[x] = x
  /\ \A S \in SUBSET Node : Closed(n, S) => L \subseteq S

Queued == {"sent", "post2", "post3", "post4", "wake", "wait", "posted"}
Making == {"send", "queue", "post1"}
Posting == {"post2", "post3", "post4"}
Deleting == {"del2", "del3"}
Served == {"del2", "del3", "serve", "mark", "issue", "reset", "issued"}

(* Whose request is on the list, or will be when the operation under way   *)
(* has ended.                                                              *)
OnList == {u \in User : /\ pc[u] \in Queued /\ io_state[u] = "PENDING"
                        /\ req = u => iopc = "del1"}

(* Whatever else happens, the fields keep their types. *)
Typed ==
  /\ AhciTypeOK
  /\ iopc = "top" => req = Root
  /\ iopc # "top" => req \in User
  /\ iopc \in {"mark", "issue", "reset", "issued"} => slot \in Slot
  /\ \A s \in CI : cmd[s] \in User

(* The list, whole or as the statements still to come will leave it. *)
ListInv ==
  /\ \A u, v \in User : pc[u] \in Posting /\ pc[v] \in Posting => u = v
  /\ iopc \in Deleting => \A u \in User : pc[u] \notin Posting
  /\ iopc \notin Deleting /\ (\A u \in User : pc[u] \notin Posting) =>
       Whole(m.next, m.prev, OnList)
  /\ \A u \in User :
       /\ pc[u] = "post2" =>
            Whole([m.next EXCEPT ![u] = Root],
                  [m.prev EXCEPT ![u] = m.prev[Root], ![Root] = u], OnList)
       /\ pc[u] = "post3" =>
            Whole(m.next, [m.prev EXCEPT ![u] = m.prev[Root], ![Root] = u], OnList)
       /\ pc[u] = "post4" => Whole(m.next, [m.prev EXCEPT ![Root] = u], OnList)
  /\ iopc = "del2" =>
       /\ m.next[req] = m.next[Root]
       /\ Whole([m.next EXCEPT ![req] = req],
                [m.prev EXCEPT ![m.next[req]] = m.prev[req], ![req] = req], OnList)
  /\ iopc = "del3" => Whole([m.next EXCEPT ![req] = req], [m.prev EXCEPT ![req] = req], OnList)

(* Callers and io_scheduler agree on the state of a request. *)
CtlInv ==
  /\ iopc = "del1" => req = m.next[Root] /\ io_state[req] = "PENDING"
  /\ iopc \in Served => io_state[req] = "PENDING"
  /\ iopc = "wake" => io_state[req] \in {"COMPLETED", "ERROR"}
  /\ iopc # "top" => pc[req] \in Queued
  /\ \A u \in User :
       /\ pc[u] \in Making => io_state[u] = "PENDING"
       /\ pc[u] \in Queued => io_state[u] # "freed"
       /\ asleep[u] # "no" => pc[u] \in {"sent", "posted"}
       /\ pc[u] \in {"sent", "posted"} /\ asleep[u] = "no" => io_state[u] # "PENDING" /\ req # u

(* One command at a time: what the port and sactive hold, by the place of  *)
(* io_scheduler.                                                           *)
AtDrive(c, s, w, i) == CI = c /\ sactive = s /\ asleep[Io] = w /\ irq = i

DiskInv ==
  /\ ~wild /\ iopc # "reset"
  /\ iopc \notin {"issue", "issued"} => AtDrive({}, {}, "no", "no")
  /\ iopc = "mark" => old = {}
  /\ iopc = "issue" => AtDrive({}, {slot}, "no", "no")
  /\ iopc = "issued" =>
       \/ \E i \in {"no", "error"} : AtDrive({slot}, {slot}, "wq", i) /\ cmd[slot] = req
       \/ \E i \in {"done", "error"} : AtDrive({}, {slot}, "wq", i)
       \/ \E w \in {"wq", "no"} : AtDrive({}, {}, w, "no")

(* The drive has carried out what is, or is about to be, reported done. *)
DoneInv ==
  /\ \A u \in Disk : io_state[u] = "COMPLETED" => u \in done
  /\ iopc = "issued" /\ (AtDrive({}, {}, "no", "no") \/ (CI = {} /\ sactive # {})) => req \in done

AhciInv ==
  /\ Typed
  /\ ~torn => ListInv /\ CtlInv
  /\ ~early => DiskInv
  /\ ~torn /\ ~early => DoneInv
-----------------------------------------------------------------------------
(* The lists. *)

(* What a store into a pointer leaves. *)
LEMMA Stores ==
  ASSUME NEW mem \in Mem,
         NEW x \in Node, NEW v \in Node
  PROVE  /\ SetNext(mem, x, v) \in Mem
         /\ SetPrev(mem, x, v) \in Mem
         /\ SetNext(mem, x, v).next = [mem.next EXCEPT ![x] = v]
         /\ SetNext(mem, x, v).prev = mem.prev
         /\ SetPrev(mem, x, v).prev = [mem.prev EXCEPT ![x] = v]
         /\ SetPrev(mem, x, v).next = mem.next
  BY Zenon DEF SetNext, SetPrev, Mem

(* The first and the last node of a whole list. *)
LEMMA WholeEnds ==
  ASSUME NEW n, NEW p, NEW L \in SUBSET User, Whole(n, p, L)
  PROVE  /\ n[Root] # Root => n[Root] \in L /\ p[n[Root]] = Root /\ p[Root] # Root
         /\ p[Root] \in L \cup {Root}
         /\ \A u \in User \ L : n[u] = u /\ p[u] = u
<1>1. Root \in Node /\ n[Root] \in Node /\ p[Root] \in Node
  BY Zenon DEF Whole, Node
<1>2. \A x \in Node : p[n[x]] = x /\ n[p[x]] = x
  BY Zenon DEF Whole
<1>3. \A x \in Node \ (L \cup {Root}) : n[x] = x
  BY Zenon DEF Whole
<1>4. \A u \in User \ L : n[u] = u /\ p[u] = u
  BY <1>2, <1>3, IoAssumption, Zenon DEF Node
<1>5. QED
  BY <1>1, <1>2, <1>3, <1>4, Zenon

(* list_add_tail leaves a whole list with one more entry. *)
LEMMA AddWhole ==
  ASSUME NEW n, NEW p, NEW L \in SUBSET User, Whole(n, p, L), NEW u \in User \ L
  PROVE  Whole([n EXCEPT ![p[Root]] = u, ![u] = Root],
               [p EXCEPT ![u] = p[Root], ![Root] = u], L \cup {u})
<1> DEFINE last == p[Root]
           a == [n EXCEPT ![p[Root]] = u, ![u] = Root]
           b == [p EXCEPT ![u] = p[Root], ![Root] = u]
<1>1. /\ n \in [Node -> Node] /\ p \in [Node -> Node]
      /\ \A x \in Node : p[n[x]] = x /\ n[p[x]] = x
      /\ \A x \in Node \ (L \cup {Root}) : n[x] = x
      /\ \A S \in SUBSET Node : Closed(n, S) => L \subseteq S
  BY Zenon DEF Whole
<1>2. u \in Node /\ Root \in Node /\ u # Root /\ last \in Node /\ n[last] = Root
  BY <1>1, IoAssumption, Zenon DEF Node
<1>3. n[u] = u /\ p[u] = u /\ last # u /\ last \in L \cup {Root}
  BY <1>1, <1>2, Zenon
<1>4. \A x \in Node : a[x] = IF x = u THEN Root ELSE IF x = last THEN u ELSE n[x]
  BY <1>1, <1>2, <1>3, Zenon
<1>5. \A x \in Node : b[x] = IF x = Root THEN u ELSE IF x = u THEN last ELSE p[x]
  BY <1>1, <1>2, <1>3, Zenon
<1>6. a \in [Node -> Node] /\ b \in [Node -> Node]
  BY <1>1, <1>2, Zenon
<1> HIDE DEF a, b, last
<1>7. \A x \in Node : b[a[x]] = x /\ a[b[x]] = x
  <2>1. TAKE x \in Node
  <2>2. n[x] \in Node /\ p[x] \in Node /\ p[n[x]] = x /\ n[p[x]] = x
    BY <1>1, Zenon
  <2>3. p[Root] = last
    BY Zenon DEF last
  <2>4. b[a[x]] = x
    BY <1>2, <1>3, <1>4, <1>5, <2>2, <2>3, ZenonT(60)
  <2>5. a[b[x]] = x
    BY <1>2, <1>3, <1>4, <1>5, <2>2, <2>3, Zenon
  <2>6. QED
    BY <2>4, <2>5, Zenon
<1>8. \A x \in Node \ ((L \cup {u}) \cup {Root}) : a[x] = x
  BY <1>1, <1>3, <1>4, Zenon
<1>9. ASSUME NEW S \in SUBSET Node, Closed(a, S)
      PROVE  L \cup {u} \subseteq S
  <2>1. Root \in S /\ \A x \in S : a[x] \in S
    BY <1>9, Zenon DEF Closed
  <2>2. Closed(n, S)
    BY <1>2, <1>3, <1>4, <2>1, Zenon DEF Closed
  <2>3. L \subseteq S
    BY <1>1, <2>2, Zenon
  <2>4. last \in S /\ a[last] = u
    BY <1>2, <1>3, <1>4, <2>1, <2>3, Zenon
  <2>5. QED
    BY <2>1, <2>3, <2>4, Zenon
<1>10. Whole(a, b, L \cup {u})
  BY <1>6, <1>7, <1>8, <1>9, Zenon DEF Whole
<1>11. QED
  BY <1>10, Zenon DEF a, b

(* list_del of the first entry leaves a whole list without it. *)
LEMMA DelWhole ==
  ASSUME NEW n, NEW p, NEW L \in SUBSET User, Whole(n, p, L),
         NEW f \in User, f = n[Root]
  PROVE  Whole([n EXCEPT ![Root] = n[f], ![f] = f],
               [p EXCEPT ![n[f]] = Root, ![f] = f], L \ {f})
<1> DEFINE second == n[f]
           a == [n EXCEPT ![Root] = n[f], ![f] = f]
           b == [p EXCEPT ![n[f]] = Root, ![f] = f]
<1>1. /\ n \in [Node -> Node] /\ p \in [Node -> Node]
      /\ \A x \in Node : p[n[x]] = x /\ n[p[x]] = x
      /\ \A x \in Node \ (L \cup {Root}) : n[x] = x
      /\ \A S \in SUBSET Node : Closed(n, S) => L \subseteq S
  BY Zenon DEF Whole
<1>2. f \in Node /\ Root \in Node /\ f # Root /\ second \in Node /\ p[f] = Root /\ p[second] = f
  BY <1>1, IoAssumption, Zenon DEF Node
<1>3. second # f
  BY <1>2, Zenon
<1>4. \A x \in Node : a[x] = IF x = f THEN f ELSE IF x = Root THEN second ELSE n[x]
  BY <1>1, <1>2, <1>3, Zenon
<1>5. \A x \in Node : b[x] = IF x = f THEN f ELSE IF x = second THEN Root ELSE p[x]
  BY <1>1, <1>2, <1>3, Zenon
<1>6. a \in [Node -> Node] /\ b \in [Node -> Node]
  BY <1>1, <1>2, Zenon
<1>7. n[f] = second /\ n[Root] = f
  BY Zenon
<1> HIDE DEF a, b, second
<1>8. \A x \in Node : b[a[x]] = x /\ a[b[x]] = x
  <2>1. TAKE x \in Node
  <2>2. n[x] \in Node /\ p[x] \in Node /\ p[n[x]] = x /\ n[p[x]] = x
    BY <1>1, Zenon
  <2>3. b[a[x]] = x
    BY <1>2, <1>3, <1>4, <1>5, <1>7, <2>2
  <2>4. a[b[x]] = x
    BY <1>2, <1>3, <1>4, <1>5, <1>7, <2>2, Zenon
  <2>5. QED
    BY <2>3, <2>4, Zenon
<1>9. \A x \in Node \ ((L \ {f}) \cup {Root}) : a[x] = x
  BY <1>1, <1>3, <1>4, Zenon
<1>10. ASSUME NEW S \in SUBSET Node, Closed(a, S)
       PROVE  L \ {f} \subseteq S
  <2>1. Root \in S /\ \A x \in S : a[x] \in S
    BY <1>10, Zenon DEF Closed
  <2>2. second \in S
    BY <1>2, <1>4, <2>1, Zenon
  <2>3. Closed(n, S \cup {f})
    BY <1>2, <1>3, <1>4, <1>7, <2>1, <2>2, Zenon DEF Closed
  <2>4. S \cup {f} \in SUBSET Node
    BY <1>2, Zenon
  <2>5. L \subseteq S \cup {f}
    BY <1>1, <2>3, <2>4, Zenon
  <2>6. QED
    BY <2>5, Zenon
<1>11. Whole(a, b, L \ {f})
  BY <1>6, <1>8, <1>9, <1>10, Zenon DEF Whole
<1>12. QED
  BY <1>11, Zenon DEF a, b
(* A step that leaves the list and the operation under way alone. *)
LEMMA SameList ==
  ASSUME ListInv, m' = m, OnList' = OnList,
         \A u \in User : pc[u] \in Posting \/ pc'[u] \in Posting => pc'[u] = pc[u],
         iopc \in Deleting \/ iopc' \in Deleting => iopc' = iopc /\ req' = req
  PROVE  ListInv'
<1>1. \A u \in User : /\ pc'[u] \in Posting <=> pc[u] \in Posting
                      /\ pc'[u] = "post2" => pc[u] = "post2"
                      /\ pc'[u] = "post3" => pc[u] = "post3"
                      /\ pc'[u] = "post4" => pc[u] = "post4"
  BY Zenon DEF Posting
<1>2. iopc' \in Deleting <=> iopc \in Deleting
  BY Zenon
<1>3. iopc' = "del2" => iopc = "del2" /\ req' = req
  BY Zenon DEF Deleting
<1>4. iopc' = "del3" => iopc = "del3" /\ req' = req
  BY Zenon DEF Deleting
<1>5. \A u, v \in User : pc'[u] \in Posting /\ pc'[v] \in Posting => u = v
  BY <1>1, Zenon DEF ListInv
<1>6. iopc' \in Deleting => \A u \in User : pc'[u] \notin Posting
  BY <1>1, <1>2, Zenon DEF ListInv
<1>7. iopc' \notin Deleting /\ (\A u \in User : pc'[u] \notin Posting) =>
        Whole(m.next, m.prev, OnList)
  BY <1>1, <1>2, Zenon DEF ListInv
<1>8. \A u \in User :
        /\ pc'[u] = "post2" =>
             Whole([m.next EXCEPT ![u] = Root],
                   [m.prev EXCEPT ![u] = m.prev[Root], ![Root] = u], OnList)
        /\ pc'[u] = "post3" =>
             Whole(m.next, [m.prev EXCEPT ![u] = m.prev[Root], ![Root] = u], OnList)
        /\ pc'[u] = "post4" => Whole(m.next, [m.prev EXCEPT ![Root] = u], OnList)
  BY <1>1, Zenon DEF ListInv
<1>9. iopc' = "del2" =>
        /\ m.next[req] = m.next[Root]
        /\ Whole([m.next EXCEPT ![req] = req],
                 [m.prev EXCEPT ![m.next[req]] = m.prev[req], ![req] = req], OnList)
  BY <1>3, Zenon DEF ListInv
<1>10. iopc' = "del3" =>
         Whole([m.next EXCEPT ![req] = req], [m.prev EXCEPT ![req] = req], OnList)
  BY <1>4, Zenon DEF ListInv
<1>11. iopc' \notin Deleting /\ (\A u \in User : pc'[u] \notin Posting) =>
         Whole(m'.next, m'.prev, OnList')
  BY <1>7, Zenon
<1>12. \A u \in User :
         /\ pc'[u] = "post2" =>
              Whole([m'.next EXCEPT ![u] = Root],
                    [m'.prev EXCEPT ![u] = m'.prev[Root], ![Root] = u], OnList')
         /\ pc'[u] = "post3" =>
              Whole(m'.next, [m'.prev EXCEPT ![u] = m'.prev[Root], ![Root] = u], OnList')
         /\ pc'[u] = "post4" => Whole(m'.next, [m'.prev EXCEPT ![Root] = u], OnList')
  BY <1>8, Zenon
<1>13. iopc' = "del2" =>
         /\ m'.next[req'] = m'.next[Root]
         /\ Whole([m'.next EXCEPT ![req'] = req'],
                  [m'.prev EXCEPT ![m'.next[req']] = m'.prev[req'], ![req'] = req'], OnList')
  BY <1>3, <1>9, Zenon
<1>14. iopc' = "del3" =>
         Whole([m'.next EXCEPT ![req'] = req'], [m'.prev EXCEPT ![req'] = req'], OnList')
  BY <1>4, <1>10, Zenon
<1>15. QED
  BY <1>5, <1>6, <1>11, <1>12, <1>13, <1>14, Zenon DEF ListInv, Whole, Closed

(* Outside list operations the list is whole. *)
LEMMA ListOpens ==
  ASSUME ListInv, iopc \notin Deleting, \A u \in User : pc[u] \notin Posting
  PROVE  Whole(m.next, m.prev, OnList)
  BY Zenon DEF ListInv

(* ... and a list operation has to end with a whole list. *)
LEMMA ListCloses ==
  ASSUME Whole(m'.next, m'.prev, OnList'),
         iopc' \notin Deleting, \A u \in User : pc'[u] \notin Posting
  PROVE  ListInv'
<1>1. iopc' # "del2" /\ iopc' # "del3"
  BY Zenon DEF Deleting
<1>2. \A u \in User : pc'[u] # "post2" /\ pc'[u] # "post3" /\ pc'[u] # "post4"
  BY Zenon DEF Posting
<1>3. QED
  BY <1>1, <1>2, Zenon DEF ListInv, Whole, Closed

(* A caller that has no request on the list finds its entry unlinked, also *)
(* while another thread is in a list operation.                            *)
LEMMA OffList ==
  ASSUME Typed, ListInv, NEW u \in User, u \notin OnList, pc[u] \notin Posting,
         iopc \in Deleting => req # u
  PROVE  m.next[u] = u /\ m.prev[u] = u
<1> DEFINE n == m.next
           p == m.prev
<1>1. /\ n \in [Node -> Node] /\ p \in [Node -> Node]
      /\ u \in Node /\ Root \in Node /\ u # Root /\ OnList \in SUBSET User
  BY IoAssumption, Zenon DEF Typed, AhciTypeOK, IoTypeOK, Node, OnList
<1>2. CASE iopc \notin Deleting /\ \A v \in User : pc[v] \notin Posting
  BY <1>1, <1>2, ListOpens, WholeEnds
<1>3. ASSUME NEW v \in User, pc[v] \in Posting
      PROVE  n[u] = u /\ p[u] = u
  <2>1. v # u
    BY <1>3, Zenon
  <2>2. CASE pc[v] = "post2"
    <3>1. Whole([n EXCEPT ![v] = Root], [p EXCEPT ![v] = p[Root], ![Root] = v], OnList)
      BY <2>2, Zenon DEF ListInv
    <3>2. [n EXCEPT ![v] = Root][u] = u /\ [p EXCEPT ![v] = p[Root], ![Root] = v][u] = u
      BY <1>1, <3>1, WholeEnds
    <3>3. QED
      BY <1>1, <2>1, <3>2, Zenon
  <2>3. CASE pc[v] = "post3"
    <3>1. Whole(n, [p EXCEPT ![v] = p[Root], ![Root] = v], OnList)
      BY <2>3, Zenon DEF ListInv
    <3>2. n[u] = u /\ [p EXCEPT ![v] = p[Root], ![Root] = v][u] = u
      BY <1>1, <3>1, WholeEnds
    <3>3. QED
      BY <1>1, <2>1, <3>2, Zenon
  <2>4. CASE pc[v] = "post4"
    <3>1. Whole(n, [p EXCEPT ![Root] = v], OnList)
      BY <2>4, Zenon DEF ListInv
    <3>2. n[u] = u /\ [p EXCEPT ![Root] = v][u] = u
      BY <1>1, <3>1, WholeEnds
    <3>3. QED
      BY <1>1, <2>1, <3>2, Zenon
  <2>5. QED
    BY <1>3, <2>2, <2>3, <2>4, Zenon DEF Posting
<1>4. CASE iopc = "del2"
  <2>1. req \in User /\ req # u
    BY <1>4, Zenon DEF Typed, Deleting
  <2>2. n[req] = n[Root] /\ n[req] \in Node /\ req \in Node /\ req # Root
    BY <1>1, <1>4, <2>1, IoAssumption, Zenon DEF ListInv, Node
  <2>3. Whole([n EXCEPT ![req] = req], [p EXCEPT ![n[req]] = p[req], ![req] = req], OnList)
    BY <1>4, Zenon DEF ListInv
  <2>4. /\ [n EXCEPT ![req] = req][u] = u
        /\ [p EXCEPT ![n[req]] = p[req], ![req] = req][u] = u
    BY <1>1, <2>3, WholeEnds
  <2>5. n[u] = u
    BY <1>1, <2>1, <2>4, Zenon
  <2>6. [n EXCEPT ![req] = req][Root] = n[Root]
    BY <1>1, <2>2, Zenon
  <2>7. n[Root] # u
    <3>1. [p EXCEPT ![n[req]] = p[req], ![req] = req][[n EXCEPT ![req] = req][Root]] = Root
      BY <1>1, <2>3, Zenon DEF Whole
    <3>2. QED
      BY <1>1, <2>4, <2>6, <3>1, Zenon
  <2>8. QED
    BY <1>1, <2>1, <2>2, <2>4, <2>5, <2>7, Zenon
<1>5. CASE iopc = "del3"
  <2>1. req \in User /\ req # u
    BY <1>5, Zenon DEF Typed, Deleting
  <2>2. Whole([n EXCEPT ![req] = req], [p EXCEPT ![req] = req], OnList)
    BY <1>5, Zenon DEF ListInv
  <2>3. [n EXCEPT ![req] = req][u] = u /\ [p EXCEPT ![req] = req][u] = u
    BY <1>1, <2>2, WholeEnds
  <2>4. QED
    BY <1>1, <2>1, <2>3, Zenon
<1>6. QED
  BY <1>2, <1>3, <1>4, <1>5, Zenon DEF Deleting

(* The first entry of the list is a queued request, also while another is  *)
(* being appended.                                                         *)
LEMMA FirstQueued ==
  ASSUME Typed, ListInv, iopc \notin Deleting, m.next[Root] # Root
  PROVE  m.next[Root] \in OnList
<1> DEFINE n == m.next
           p == m.prev
<1>1. /\ n \in [Node -> Node] /\ p \in [Node -> Node]
      /\ Root \in Node /\ OnList \in SUBSET User
  BY Zenon DEF Typed, AhciTypeOK, IoTypeOK, Node, OnList
<1>2. CASE \A v \in User : pc[v] \notin Posting
  BY <1>1, <1>2, ListOpens, WholeEnds
<1>3. ASSUME NEW v \in User, pc[v] \in Posting
      PROVE  n[Root] \in OnList
  <2>1. v # Root
    BY IoAssumption, Zenon
  <2>2. CASE pc[v] = "post2"
    <3>1. Whole([n EXCEPT ![v] = Root], [p EXCEPT ![v] = p[Root], ![Root] = v], OnList)
      BY <2>2, Zenon DEF ListInv
    <3>2. [n EXCEPT ![v] = Root][Root] = n[Root]
      BY <1>1, <2>1, Zenon
    <3>3. QED
      BY <1>1, <3>1, <3>2, WholeEnds
  <2>3. CASE pc[v] = "post3"
    <3>1. Whole(n, [p EXCEPT ![v] = p[Root], ![Root] = v], OnList)
      BY <2>3, Zenon DEF ListInv
    <3>2. QED
      BY <1>1, <3>1, WholeEnds
  <2>4. CASE pc[v] = "post4"
    <3>1. Whole(n, [p EXCEPT ![Root] = v], OnList)
      BY <2>4, Zenon DEF ListInv
    <3>2. QED
      BY <1>1, <3>1, WholeEnds
  <2>5. QED
    BY <1>3, <2>2, <2>3, <2>4, Zenon DEF Posting
<1>4. QED
  BY <1>2, <1>3, Zenon
-----------------------------------------------------------------------------
(* The steps of IoReq, one by one: the list and the requests. *)

(* A write that does not tear the list has it to itself. *)
LEMMA Alone ==
  ASSUME NEW t \in Thread, NEW mem, Write(t, mem), ~torn'
  PROVE  /\ m' = mem
         /\ t # Io => iopc \notin Deleting
         /\ \A u \in User \ {t} : pc[u] \notin Posting
  BY Zenon DEF Write, MidOp, Deleting, Posting

LEMMA TornStays ==
  ASSUME NEW t, NEW mem, Write(t, mem), torn
  PROVE  torn'
  BY Zenon DEF Write

(* The types the steps below rely on. *)
LEMMA Types ==
  ASSUME Typed
  PROVE  /\ m \in Mem
         /\ m.next \in [Node -> Node] /\ m.prev \in [Node -> Node]
         /\ io_state \in [User -> {"freed", "PENDING", "COMPLETED", "ERROR"}]
         /\ asleep \in [Thread -> {"no", "req", "wq"}]
         /\ pc \in [User -> {"idle"} \cup Making \cup Queued]
         /\ iopc \in {"top", "del1", "wake"} \cup Served
         /\ iopc = "top" => req = Root
         /\ iopc # "top" => req \in User
         /\ Root \in Node /\ Root \notin User /\ User \subseteq Node
         /\ OnList \in SUBSET User
  BY IoAssumption, Zenon DEF Typed, AhciTypeOK, IoTypeOK, Node, Mem, Making, Queued, Served, OnList

(* Both kinds of caller start from an unlinked entry. *)
LEMMA CreateReqStep ==
  ASSUME Typed, ListInv, CtlInv, NEW u \in User, CreateReq(u)
  PROVE  ListInv' /\ CtlInv'
<1>1. /\ pc[u] = "idle" /\ pc' = [pc EXCEPT ![u] = IF u \in Async THEN "post1" ELSE "send"]
      /\ io_state' = [io_state EXCEPT ![u] = "PENDING"]
      /\ m' = SetPrev(SetNext(m, u, u), u, u)
      /\ asleep' = asleep /\ iopc' = iopc /\ req' = req
  BY Zenon DEF CreateReq, Goto
<1>2. u \notin OnList /\ pc[u] \notin Posting /\ req # u
  BY <1>1, Types, Zenon DEF OnList, Queued, Posting, CtlInv
<1>3. m.next[u] = u /\ m.prev[u] = u
  BY <1>2, OffList, Zenon
<1>4. m' = m
  <2>1. m \in Mem /\ m.next \in [Node -> Node] /\ m.prev \in [Node -> Node] /\ u \in Node
    BY Types, Zenon
  <2>2. [m.next EXCEPT ![u] = u] = m.next /\ [m.prev EXCEPT ![u] = u] = m.prev
    BY <1>3, <2>1, Zenon
  <2>3. QED
    BY <1>1, <2>1, <2>2, ZenonT(60) DEF SetNext, SetPrev, Mem
<1>5. pc'[u] \in {"post1", "send"} /\ \A v \in User \ {u} : pc'[v] = pc[v]
  BY <1>1, Types, Zenon
<1>6. io_state'[u] = "PENDING" /\ \A v \in User \ {u} : io_state'[v] = io_state[v]
  BY <1>1, Types, Zenon
<1>7. OnList' = OnList
  BY <1>1, <1>2, <1>5, <1>6, Zenon DEF OnList, Queued
<1>8. ListInv'
  BY <1>1, <1>2, <1>4, <1>5, <1>7, SameList, Zenon DEF Posting
<1>9. asleep[u] = "no"
  BY <1>1, Zenon DEF CtlInv
<1>10. CtlInv'
  BY <1>1, <1>2, <1>4, <1>5, <1>6, <1>9, Types DEF CtlInv, Making, Queued, Served
<1>11. QED
  BY <1>8, <1>10, Zenon

(* pt_wakeup of io_scheduler touches no list. *)
LEMMA WakeStep ==
  ASSUME Typed, ListInv, CtlInv, NEW u \in User, SendWake(u) \/ PostWake(u)
  PROVE  ListInv' /\ CtlInv'
<1>1. /\ m' = m /\ io_state' = io_state /\ iopc' = iopc /\ req' = req
      /\ asleep' = [asleep EXCEPT ![Io] = "no"]
      /\ \/ pc[u] = "send" /\ pc' = [pc EXCEPT ![u] = "queue"]
         \/ pc[u] = "wake" /\ pc' = [pc EXCEPT ![u] = "wait"]
  BY Zenon DEF SendWake, PostWake, Goto, pt_wakeup
<1>2. \A v \in User : asleep'[v] = asleep[v]
  BY <1>1, Types, IoAssumption, Zenon DEF Thread
<1>3. /\ \A v \in User \ {u} : pc'[v] = pc[v]
      /\ \/ pc[u] = "send" /\ pc'[u] = "queue"
         \/ pc[u] = "wake" /\ pc'[u] = "wait"
  BY <1>1, Types, Zenon
<1>4. OnList' = OnList
  BY <1>1, <1>3, Zenon DEF OnList, Queued
<1>5. ListInv'
  BY <1>1, <1>3, <1>4, SameList, Zenon DEF Posting
<1>6. CtlInv'
  BY <1>1, <1>2, <1>3, Types DEF CtlInv, Making, Queued, Served
<1>7. QED
  BY <1>5, <1>6, Zenon

(* What list_add_tail stores. *)
LEMMA AddTailStores ==
  ASSUME NEW mem \in Mem, NEW u \in User
  PROVE  /\ list_add_tail(mem, Root, u).next = [mem.next EXCEPT ![mem.prev[Root]] = u, ![u] = Root]
         /\ list_add_tail(mem, Root, u).prev = [mem.prev EXCEPT ![u] = mem.prev[Root], ![Root] = u]
<1> DEFINE m1 == SetNext(mem, mem.prev[Root], u)
           m2 == SetNext(m1, u, Root)
           m3 == SetPrev(m2, u, m2.prev[Root])
<1>1. u \in Node /\ Root \in Node /\ mem.prev[Root] \in Node
  BY Zenon DEF Node, Mem
<1>2. m1 \in Mem /\ m1.next = [mem.next EXCEPT ![mem.prev[Root]] = u] /\ m1.prev = mem.prev
  BY <1>1, Zenon DEF SetNext, Mem
<1> HIDE DEF m1
<1>3. m2 \in Mem /\ m2.next = [m1.next EXCEPT ![u] = Root] /\ m2.prev = mem.prev
  BY <1>1, <1>2, Zenon DEF SetNext, Mem
<1> HIDE DEF m2
<1>4. m3 \in Mem /\ m3.next = m2.next /\ m3.prev = [mem.prev EXCEPT ![u] = mem.prev[Root]]
  BY <1>1, <1>3, Zenon DEF SetPrev, Mem
<1> HIDE DEF m3
<1>5. /\ SetPrev(m3, Root, u).next = m3.next
      /\ SetPrev(m3, Root, u).prev = [m3.prev EXCEPT ![Root] = u]
  BY <1>1, <1>4, Zenon DEF SetPrev, Mem
<1>6. list_add_tail(mem, Root, u) = SetPrev(m3, Root, u)
  BY Zenon DEF list_add_tail, m1, m2, m3
<1>7. QED
  BY <1>2, <1>3, <1>4, <1>5, <1>6, Zenon

(* A request that has just been given its place. *)
LEMMA Joins ==
  ASSUME Typed, CtlInv, NEW u \in User, pc[u] \in Making, NEW l \in Queued,
         pc' = [pc EXCEPT ![u] = l], io_state' = io_state, iopc' = iopc, req' = req
  PROVE  OnList' = OnList \cup {u} /\ u \notin OnList /\ req # u
<1>1. pc'[u] = l /\ \A v \in User \ {u} : pc'[v] = pc[v]
  BY Types, Zenon
<1>2. io_state[u] = "PENDING"
  BY Zenon DEF CtlInv
<1>3. pc[u] \notin Queued
  BY Zenon DEF Making, Queued
<1>4. req # u
  BY <1>3, Types, Zenon DEF CtlInv
<1>5. QED
  BY <1>1, <1>2, <1>3, <1>4 DEF OnList

(* io_send_request queues the request and sleeps on it. *)
LEMMA SendQueueStep ==
  ASSUME Typed, ListInv, CtlInv, NEW u \in User, SendQueue(u), ~torn'
  PROVE  ListInv' /\ CtlInv'
<1>1. /\ pc[u] = "queue" /\ pc' = [pc EXCEPT ![u] = "sent"]
      /\ asleep' = [asleep EXCEPT ![u] = "req"]
      /\ Write(u, list_add_tail(m, Root, u))
      /\ io_state' = io_state /\ iopc' = iopc /\ req' = req
  BY Zenon DEF SendQueue, Goto
<1>2. u \in Thread /\ u # Io
  BY IoAssumption, Zenon DEF Thread
<1>3. m' = list_add_tail(m, Root, u) /\ iopc \notin Deleting
      /\ \A v \in User : pc[v] \notin Posting
  BY <1>1, <1>2, Alone, Zenon DEF Posting
<1>4. Whole(m.next, m.prev, OnList)
  BY <1>3, ListOpens, Zenon
<1>5. OnList' = OnList \cup {u} /\ u \notin OnList /\ req # u
  BY <1>1, Joins, Zenon DEF Making, Queued
<1>6. /\ m'.next = [m.next EXCEPT ![m.prev[Root]] = u, ![u] = Root]
      /\ m'.prev = [m.prev EXCEPT ![u] = m.prev[Root], ![Root] = u]
  BY <1>3, Types, AddTailStores, Zenon
<1>7. Whole(m'.next, m'.prev, OnList')
  BY <1>4, <1>5, <1>6, Types, AddWhole
<1>8. pc'[u] = "sent" /\ \A v \in User \ {u} : pc'[v] = pc[v]
  BY <1>1, Types, Zenon
<1>9. asleep'[u] = "req" /\ \A v \in User \ {u} : asleep'[v] = asleep[v]
  BY <1>1, <1>2, Types, Zenon DEF Thread
<1>10. ListInv'
  BY <1>1, <1>3, <1>7, <1>8, ListCloses, Zenon DEF Posting
<1>11. iopc = "del1" => m'.next[Root] = m.next[Root]
  <2>1. SUFFICES ASSUME iopc = "del1" PROVE m'.next[Root] = m.next[Root]
    BY Zenon
  <2>2. m.next[Root] # Root
    BY <2>1, Types, Zenon DEF CtlInv
  <2>3. m.prev[Root] # Root
    BY <1>4, <2>2, Types, WholeEnds
  <2>4. QED
    BY <1>6, <2>3, Types, Zenon
<1>12. CtlInv'
  BY <1>1, <1>5, <1>8, <1>9, <1>11, Types DEF CtlInv, Making, Queued, Served
<1>13. QED
  BY <1>10, <1>12, Zenon

(* Back from io_wait the request is answered, and nobody works on it. *)
LEMMA ReturnStep ==
  ASSUME Typed, ListInv, CtlInv, NEW u \in User, SendCheck(u) \/ PostReturn(u)
  PROVE  ListInv' /\ CtlInv'
<1>1. pc[u] \in {"sent", "posted"} /\ asleep[u] = "no"
  BY Zenon DEF SendCheck, PostReturn
<1>2. io_state[u] # "PENDING" /\ req # u
  BY <1>1, Zenon DEF CtlInv
<1>3. /\ m' = m /\ asleep' = asleep /\ iopc' = iopc /\ req' = req
      /\ pc' = [pc EXCEPT ![u] = "idle"] /\ io_state' = [io_state EXCEPT ![u] = "freed"]
  BY <1>2, Zenon DEF SendCheck, PostReturn, Goto
<1>4. pc'[u] = "idle" /\ \A v \in User \ {u} : pc'[v] = pc[v]
  BY <1>3, Types, Zenon
<1>5. io_state'[u] = "freed" /\ \A v \in User \ {u} : io_state'[v] = io_state[v]
  BY <1>3, Types, Zenon
<1>6. OnList' = OnList
  BY <1>2, <1>3, <1>4, <1>5, Zenon DEF OnList, Queued
<1>7. ListInv'
  BY <1>1, <1>3, <1>4, <1>6, SameList, Zenon DEF Posting
<1>8. CtlInv'
  BY <1>1, <1>2, <1>3, <1>4, <1>5, Types DEF CtlInv, Making, Queued, Served
<1>9. QED
  BY <1>7, <1>8

(* io_wait of a posted request. *)
LEMMA PostWaitStep ==
  ASSUME Typed, ListInv, CtlInv, NEW u \in User, PostWait(u)
  PROVE  ListInv' /\ CtlInv'
<1>1. /\ m' = m /\ io_state' = io_state /\ iopc' = iopc /\ req' = req
      /\ pc[u] = "wait" /\ pc' = [pc EXCEPT ![u] = "posted"]
      /\ asleep' = [asleep EXCEPT ![u] = "req"]
  BY Zenon DEF PostWait, Goto
<1>2. pc'[u] = "posted" /\ \A v \in User \ {u} : pc'[v] = pc[v]
  BY <1>1, Types, Zenon
<1>3. asleep'[u] = "req" /\ \A v \in User \ {u} : asleep'[v] = asleep[v]
  BY <1>1, Types, Zenon DEF Thread
<1>4. OnList' = OnList
  BY <1>1, <1>2, Zenon DEF OnList, Queued
<1>5. ListInv'
  BY <1>1, <1>2, <1>4, SameList, Zenon DEF Posting
<1>6. CtlInv'
  BY <1>1, <1>2, <1>3, Types DEF CtlInv, Making, Queued, Served
<1>7. QED
  BY <1>5, <1>6

(* While one caller is between the statements of its list_add_tail. *)
LEMMA PostingMeans ==
  ASSUME NEW u \in User, pc'[u] \in Posting,
         \A v \in User \ {u} : pc'[v] \notin Posting, iopc' \notin Deleting,
         pc'[u] = "post2" =>
           Whole([m'.next EXCEPT ![u] = Root],
                 [m'.prev EXCEPT ![u] = m'.prev[Root], ![Root] = u], OnList'),
         pc'[u] = "post3" =>
           Whole(m'.next, [m'.prev EXCEPT ![u] = m'.prev[Root], ![Root] = u], OnList'),
         pc'[u] = "post4" => Whole(m'.next, [m'.prev EXCEPT ![Root] = u], OnList')
  PROVE  ListInv'
<1>1. iopc' # "del2" /\ iopc' # "del3"
  BY Zenon DEF Deleting
<1>2. \A v \in User : v # u => pc'[v] # "post2" /\ pc'[v] # "post3" /\ pc'[v] # "post4"
  BY Zenon DEF Posting
<1>3. \A v \in User :
        /\ pc'[v] = "post2" =>
             Whole([m'.next EXCEPT ![v] = Root],
                   [m'.prev EXCEPT ![v] = m'.prev[Root], ![Root] = v], OnList')
        /\ pc'[v] = "post3" =>
             Whole(m'.next, [m'.prev EXCEPT ![v] = m'.prev[Root], ![Root] = v], OnList')
        /\ pc'[v] = "post4" => Whole(m'.next, [m'.prev EXCEPT ![Root] = v], OnList')
  BY <1>2, Zenon
<1>4. QED
  BY <1>1, <1>3, Zenon DEF ListInv, Whole, Closed

(* Each statement of list_add_tail in io_post_request. *)
LEMMA PostLinkStep ==
  ASSUME Typed, ListInv, CtlInv, NEW u \in User, PostLink(u), ~torn'
  PROVE  ListInv' /\ CtlInv'
<1>1. /\ asleep' = asleep /\ io_state' = io_state /\ iopc' = iopc /\ req' = req
      /\ pc[u] \in {"post1", "post2", "post3", "post4"}
      /\ \E mem : Write(u, mem)
  BY Zenon DEF PostLink
<1>2. u \in Thread /\ u # Io
  BY IoAssumption DEF Thread
<1>3. iopc \notin Deleting /\ \A v \in User \ {u} : pc[v] \notin Posting
  BY <1>1, <1>2, Alone, Zenon
<1>4. /\ m \in Mem
      /\ u \in Node /\ Root \in Node /\ u # Root /\ m.prev[Root] \in Node
  BY Types, Zenon
<1>5. \A l : Goto(u, l) => pc'[u] = l /\ \A v \in User \ {u} : pc'[v] = pc[v]
  BY Types, Zenon DEF Goto
<1>6. ASSUME NEW l \in Queued, Goto(u, l), m'.next[Root] = m.next[Root] \/ iopc # "del1",
             l \notin {"sent", "posted"}
      PROVE  CtlInv'
    BY <1>1, <1>5, <1>6, Types DEF CtlInv, Making, Queued, Served
<1>7. CASE pc[u] = "post1"
  <2>1. Write(u, SetNext(m, m.prev[Root], u)) /\ Goto(u, "post2")
    BY <1>7, Zenon DEF PostLink
  <2>2. m' = SetNext(m, m.prev[Root], u)
    BY <1>2, <2>1, Alone, Zenon
  <2>3. m'.next = [m.next EXCEPT ![m.prev[Root]] = u] /\ m'.prev = m.prev
    BY <1>4, <2>2, Zenon DEF SetNext, SetPrev, Mem
  <2>4. \A v \in User : pc[v] \notin Posting
    BY <1>3, <1>7, Zenon DEF Posting
  <2>5. Whole(m.next, m.prev, OnList)
    BY <1>3, <2>4, ListOpens, Zenon
  <2>6. OnList' = OnList \cup {u} /\ u \notin OnList /\ req # u
    BY <1>1, <1>7, <2>1, Joins, Zenon DEF Making, Queued, Goto
  <2>7. Whole([m'.next EXCEPT ![u] = Root],
              [m'.prev EXCEPT ![u] = m'.prev[Root], ![Root] = u], OnList')
    BY <2>3, <2>5, <2>6, Types, AddWhole, Zenon
  <2>8. ListInv'
    <3>1. pc'[u] = "post2" /\ \A v \in User \ {u} : pc'[v] = pc[v]
      BY <1>5, <2>1, Zenon
    <3>2. /\ pc'[u] \in Posting /\ iopc' \notin Deleting
          /\ \A v \in User \ {u} : pc'[v] \notin Posting
      BY <1>1, <1>3, <3>1, Zenon DEF Posting
    <3>3. QED
      BY <2>7, <3>1, <3>2, PostingMeans, Zenon
  <2>9. iopc = "del1" => m'.next[Root] = m.next[Root]
    <3>1. SUFFICES ASSUME iopc = "del1" PROVE m'.next[Root] = m.next[Root]
      OBVIOUS
    <3>2. m.next[Root] # Root
      BY <3>1, Types DEF CtlInv
    <3>3. m.prev[Root] # Root
      BY <2>5, <3>2, Types, WholeEnds
    <3>4. QED
      BY <2>3, <3>3, Types, Zenon
  <2>10. QED
    BY <1>6, <2>1, <2>8, <2>9, Zenon DEF Queued
<1>8. CASE pc[u] = "post2"
  <2>1. Write(u, SetNext(m, u, Root)) /\ Goto(u, "post3")
    BY <1>8, Zenon DEF PostLink
  <2>2. m' = SetNext(m, u, Root)
    BY <1>2, <2>1, Alone, Zenon
  <2>3. m'.next = [m.next EXCEPT ![u] = Root] /\ m'.prev = m.prev
    BY <1>4, <2>2, Zenon DEF SetNext, SetPrev, Mem
  <2>4. OnList' = OnList
    BY <1>1, <1>5, <1>8, <2>1, Zenon DEF OnList, Queued
  <2>5. Whole(m'.next, [m'.prev EXCEPT ![u] = m'.prev[Root], ![Root] = u], OnList')
    BY <1>8, <2>3, <2>4, Zenon DEF ListInv
  <2>6. ListInv'
    <3>1. pc'[u] = "post3" /\ \A v \in User \ {u} : pc'[v] = pc[v]
      BY <1>5, <2>1, Zenon
    <3>2. /\ pc'[u] \in Posting /\ iopc' \notin Deleting
          /\ \A v \in User \ {u} : pc'[v] \notin Posting
      BY <1>1, <1>3, <3>1, Zenon DEF Posting
    <3>3. QED
      BY <2>5, <3>1, <3>2, PostingMeans, Zenon
  <2>7. m'.next[Root] = m.next[Root]
    BY <1>4, <2>3, Types, Zenon
  <2>8. QED
    BY <1>6, <2>1, <2>6, <2>7, Zenon DEF Queued
<1>9. CASE pc[u] = "post3"
  <2>1. Write(u, SetPrev(m, u, m.prev[Root])) /\ Goto(u, "post4")
    BY <1>9, Zenon DEF PostLink
  <2>2. m' = SetPrev(m, u, m.prev[Root])
    BY <1>2, <2>1, Alone, Zenon
  <2>3. m'.prev = [m.prev EXCEPT ![u] = m.prev[Root]] /\ m'.next = m.next
    BY <1>4, <2>2, Zenon DEF SetNext, SetPrev, Mem
  <2>4. OnList' = OnList
    BY <1>1, <1>5, <1>9, <2>1, Zenon DEF OnList, Queued
  <2>5. Whole(m'.next, [m'.prev EXCEPT ![Root] = u], OnList')
    BY <1>9, <2>3, <2>4, Zenon DEF ListInv
  <2>6. ListInv'
    BY <1>1, <1>3, <1>5, <2>1, <2>5, PostingMeans, ZenonT(60) DEF Posting
  <2>7. QED
    BY <1>6, <2>1, <2>3, <2>6, Zenon DEF Queued
<1>10. CASE pc[u] = "post4"
  <2>1. Write(u, SetPrev(m, Root, u)) /\ Goto(u, "wake")
    BY <1>10, Zenon DEF PostLink
  <2>2. m' = SetPrev(m, Root, u)
    BY <1>2, <2>1, Alone, Zenon
  <2>3. m'.prev = [m.prev EXCEPT ![Root] = u] /\ m'.next = m.next
    BY <1>4, <2>2, Zenon DEF SetNext, SetPrev, Mem
  <2>4. OnList' = OnList
    BY <1>1, <1>5, <1>10, <2>1, Zenon DEF OnList, Queued
  <2>5. Whole(m'.next, m'.prev, OnList')
    BY <1>10, <2>3, <2>4, Zenon DEF ListInv
  <2>6. ListInv'
    BY <1>1, <1>3, <1>5, <2>1, <2>5, ListCloses DEF Posting
  <2>7. QED
    BY <1>6, <2>1, <2>3, <2>6, Zenon DEF Queued
<1>11. QED
  BY <1>1, <1>7, <1>8, <1>9, <1>10, Zenon

(* io_schedule takes the first request. *)
LEMMA IoTopStep ==
  ASSUME Typed, ListInv, CtlInv, IoTop
  PROVE  ListInv' /\ CtlInv'
<1>1. /\ m' = m /\ io_state' = io_state /\ pc' = pc /\ asleep' = asleep
      /\ iopc = "top" /\ iopc' = "del1" /\ m.next[Root] # Root /\ req' = m.next[Root]
  BY Zenon DEF IoTop
<1>2. m.next[Root] \in OnList
  BY <1>1, FirstQueued, Zenon DEF Deleting
<1>3. OnList' = OnList
  BY <1>1, Types, Zenon DEF OnList
<1>4. ListInv'
  BY <1>1, <1>3, SameList, Zenon DEF Deleting
<1>5. CtlInv'
  BY <1>1, <1>2, Types, Zenon DEF CtlInv, OnList, Served
<1>6. QED
  BY <1>4, <1>5, Zenon

(* Each statement of list_del in io_schedule. *)
LEMMA IoDelStep ==
  ASSUME Typed, ListInv, CtlInv, IoDel, ~torn'
  PROVE  ListInv' /\ CtlInv'
<1>1. /\ io_state' = io_state /\ pc' = pc /\ asleep' = asleep /\ req' = req
      /\ iopc \in {"del1", "del2", "del3"}
      /\ \E mem : Write(Io, mem)
  BY Zenon DEF IoDel
<1>2. Io \in Thread /\ \A v \in User : v # Io
  BY IoAssumption, Zenon DEF Thread
<1>3. \A v \in User : pc[v] \notin Posting
  BY <1>1, <1>2, Alone, Zenon
<1>4. /\ m \in Mem
      /\ req \in User /\ req \in Node /\ Root \in Node /\ req # Root
      /\ m.prev[req] \in Node /\ m.next[req] \in Node
  BY <1>1, Types, Zenon
<1>5. ASSUME iopc' \in Served
      PROVE  CtlInv'
  BY <1>1, <1>5, Types, Zenon DEF CtlInv, Served
<1>6. CASE iopc = "del1"
  <2>1. m' = SetNext(m, m.prev[req], m.next[req]) /\ iopc' = "del2"
    BY <1>2, <1>6, Alone, Zenon DEF IoDel
  <2>2. m'.next = [m.next EXCEPT ![m.prev[req]] = m.next[req]] /\ m'.prev = m.prev
    BY <1>4, <2>1, Zenon DEF SetNext, SetPrev, Mem
  <2>3. Whole(m.next, m.prev, OnList)
    BY <1>3, <1>6, ListOpens, Zenon DEF Deleting
  <2>4. req = m.next[Root] /\ m.prev[req] = Root
    BY <1>4, <1>6, <2>3, Types, WholeEnds DEF CtlInv
  <2>5. OnList' = OnList \ {req}
    BY <1>1, <1>6, <2>1, Zenon DEF OnList
  <2>6. m'.next[req] = m.next[req] /\ m'.next[Root] = m.next[req] /\ m'.prev[req] = Root
    BY <1>4, <2>2, <2>4, Types, Zenon
  <2>7. Whole([m.next EXCEPT ![Root] = m.next[req], ![req] = req],
              [m.prev EXCEPT ![m.next[req]] = Root, ![req] = req], OnList')
    BY <1>4, <2>3, <2>4, <2>5, Types, DelWhole, Zenon
  <2>8. /\ m'.next[req'] = m'.next[Root]
        /\ Whole([m'.next EXCEPT ![req'] = req'],
                 [m'.prev EXCEPT ![m'.next[req']] = m'.prev[req'], ![req'] = req'], OnList')
    BY <1>1, <2>2, <2>4, <2>6, <2>7, Zenon
  <2>9. /\ iopc' \in Deleting /\ iopc' # "del3"
        /\ \A v \in User : pc'[v] \notin Posting /\ pc'[v] # "post2" /\ pc'[v] # "post3"
                           /\ pc'[v] # "post4"
    BY <1>1, <1>3, <2>1, Zenon DEF Deleting, Posting
  <2>10. ListInv'
    BY <2>8, <2>9, Zenon DEF ListInv, Whole, Closed
  <2>11. QED
    BY <1>5, <2>1, <2>10, Zenon DEF Served
<1>7. CASE iopc = "del2"
  <2>1. m' = SetPrev(m, m.next[req], m.prev[req]) /\ iopc' = "del3"
    BY <1>2, <1>7, Alone, Zenon DEF IoDel
  <2>2. m'.prev = [m.prev EXCEPT ![m.next[req]] = m.prev[req]] /\ m'.next = m.next
    BY <1>4, <2>1, Zenon DEF SetNext, SetPrev, Mem
  <2>3. OnList' = OnList
    BY <1>1, <1>7, <2>1, Zenon DEF OnList
  <2>4. Whole([m'.next EXCEPT ![req'] = req'], [m'.prev EXCEPT ![req'] = req'], OnList')
    BY <1>1, <1>7, <2>2, <2>3, Zenon DEF ListInv
  <2>5. /\ iopc' \in Deleting /\ iopc' # "del2"
        /\ \A v \in User : pc'[v] \notin Posting /\ pc'[v] # "post2" /\ pc'[v] # "post3"
                           /\ pc'[v] # "post4"
    BY <1>1, <1>3, <2>1, Zenon DEF Deleting, Posting
  <2>6. ListInv'
    BY <2>4, <2>5, Zenon DEF ListInv, Whole, Closed
  <2>7. QED
    BY <1>5, <2>1, <2>6, Zenon DEF Served
<1>8. CASE iopc = "del3"
  <2>1. m' = SetPrev(SetNext(m, req, req), req, req) /\ iopc' = "serve"
    BY <1>2, <1>8, Alone, Zenon DEF IoDel
  <2>2. m'.next = [m.next EXCEPT ![req] = req] /\ m'.prev = [m.prev EXCEPT ![req] = req]
    <3> DEFINE m1 == SetNext(m, req, req)
    <3>1. /\ m1 \in Mem
          /\ m1.next = [m.next EXCEPT ![req] = req] /\ m1.prev = m.prev
      BY <1>4, Zenon DEF SetNext, Mem
    <3>2. m' = SetPrev(m1, req, req)
      BY <2>1, Zenon
    <3> HIDE DEF m1
    <3>3. QED
      BY <1>4, <3>1, <3>2, Zenon DEF SetPrev, Mem
  <2>3. OnList' = OnList
    BY <1>1, <1>8, <2>1, Zenon DEF OnList
  <2>4. Whole(m'.next, m'.prev, OnList')
    BY <1>8, <2>2, <2>3, Zenon DEF ListInv
  <2>5. ListInv'
    BY <1>1, <1>3, <2>1, <2>4, ListCloses, Zenon DEF Deleting
  <2>6. QED
    BY <1>5, <2>1, <2>5, Zenon DEF Served
<1>9. QED
  BY <1>1, <1>6, <1>7, <1>8, Zenon

(* Steps of the device's part of io_schedule: the request stays in service *)
(* or gets its result.                                                     *)
Serves ==
  /\ m' = m /\ pc' = pc /\ req' = req
  /\ iopc \in Served \ Deleting
  /\ \A u \in User : asleep'[u] = asleep[u]
  /\ \/ iopc' \in Served \ Deleting /\ io_state' = io_state
     \/ iopc' = "wake" /\ \E r \in {"COMPLETED", "ERROR"} : io_state' = [io_state EXCEPT ![req] = r]

LEMMA ServeStep ==
  ASSUME Typed, ListInv, CtlInv, Serves
  PROVE  ListInv' /\ CtlInv'
<1>1. /\ m' = m /\ pc' = pc /\ req' = req /\ iopc \in Served \ Deleting
      /\ \A u \in User : asleep'[u] = asleep[u]
  BY Zenon DEF Serves
<1>2. req \in User /\ iopc # "del1" /\ iopc # "top" /\ iopc' # "del1" /\ iopc' # "top"
      /\ iopc' \notin Deleting
  BY <1>1, Types, Zenon DEF Serves, Served, Deleting
<1>3. CASE iopc' \in Served /\ io_state' = io_state
  <2>1. OnList' = OnList
    BY <1>1, <1>2, <1>3, Zenon DEF OnList
  <2>2. ListInv'
    BY <1>1, <1>2, <2>1, SameList, Zenon
  <2>3. CtlInv'
    BY <1>1, <1>2, <1>3, Types, Zenon DEF CtlInv, Served, Deleting
  <2>4. QED
    BY <2>2, <2>3, Zenon
<1>4. ASSUME iopc' = "wake", NEW r \in {"COMPLETED", "ERROR"},
             io_state' = [io_state EXCEPT ![req] = r]
      PROVE  ListInv' /\ CtlInv'
  <2>1. io_state'[req] = r /\ \A u \in User \ {req} : io_state'[u] = io_state[u]
    BY <1>2, <1>4, Types, Zenon
  <2>2. OnList' = OnList
    BY <1>1, <1>2, <1>4, <2>1, Zenon DEF OnList
  <2>3. ListInv'
    BY <1>1, <1>2, <2>2, SameList, Zenon
  <2>4. io_state[req] = "PENDING"
    BY <1>1, Zenon DEF CtlInv
  <2>5. CtlInv'
    BY <1>1, <1>2, <1>4, <2>1, <2>4, Types, Zenon DEF CtlInv, Making, Queued, Served
  <2>6. QED
    BY <2>3, <2>5, Zenon
<1>5. QED
  BY <1>3, <1>4, Zenon DEF Serves

(* io_schedule is done with the request and wakes its caller. *)
LEMMA IoWakeStep ==
  ASSUME Typed, ListInv, CtlInv, IoWake
  PROVE  ListInv' /\ CtlInv'
<1>1. /\ m' = m /\ io_state' = io_state /\ pc' = pc /\ req' = Root
      /\ iopc = "wake" /\ iopc' = "top"
      /\ asleep' = [asleep EXCEPT ![req] = "no"] \/ asleep' = asleep
  BY Zenon DEF IoWake, pt_wakeup
<1>2. req \in User /\ io_state[req] \in {"COMPLETED", "ERROR"} /\ pc[req] \in Queued
  BY <1>1, Types, Zenon DEF CtlInv
<1>3. OnList' = OnList
  BY <1>1, <1>2, Types, Zenon DEF OnList
<1>4. ListInv'
  BY <1>1, <1>3, SameList, Zenon DEF Deleting
<1>5. \A u \in User : asleep'[u] = asleep[u] \/ (u = req /\ asleep'[u] = "no")
  BY <1>1, <1>2, Types, Zenon DEF Thread
<1>6. CtlInv'
  BY <1>1, <1>2, <1>5, Types, Zenon DEF CtlInv, Served
<1>7. QED
  BY <1>4, <1>6

(* Steps that change neither the list nor a request: the drive and its     *)
(* interrupt.                                                              *)
LEMMA DriveSteps ==
  ASSUME Typed, ListInv, CtlInv,
         m' = m, io_state' = io_state, pc' = pc, iopc' = iopc, req' = req,
         \A u \in User : asleep'[u] = asleep[u]
  PROVE  ListInv' /\ CtlInv'
<1>1. OnList' = OnList
  BY Zenon DEF OnList
<1>2. ListInv'
  BY <1>1, SameList, Zenon
<1>3. CtlInv'
  BY Zenon DEF CtlInv
<1>4. QED
  BY <1>2, <1>3, Zenon
-----------------------------------------------------------------------------
(* Types, over all steps. *)

IoTyped ==
  /\ IoTypeOK
  /\ iopc \in {"top", "del1", "del2", "del3", "serve", "mark", "issue", "reset", "issued", "wake"}
  /\ iopc = "top" => req = Root
  /\ iopc # "top" => req \in User

DriveTyped ==
  /\ CI \subseteq Slot /\ sactive \subseteq Slot /\ old \subseteq Slot
  /\ cmd \in [Slot -> User \cup {Root}]
  /\ slot \in Slot \cup {-1}
  /\ irq \in {"no", "done", "error"}
  /\ done \subseteq User
  /\ early \in BOOLEAN /\ failed \in BOOLEAN /\ wild \in BOOLEAN
  /\ iopc \in {"mark", "issue", "reset", "issued"} => slot \in Slot
  /\ \A s \in CI : cmd[s] \in User

LEMMA TypedParts == Typed <=> IoTyped /\ DriveTyped
  BY Zenon DEF Typed, AhciTypeOK, IoTyped, DriveTyped

LEMMA TypedPartsNext == Typed' <=> IoTyped' /\ DriveTyped'
  BY Zenon DEF Typed, AhciTypeOK, IoTyped, DriveTyped

(* The least of some slots: find_cmdslot finds one that is free. *)
LEMMA SlotFound == find_cmdslot \in Slot \cup {-1}
<1> DEFINE free == Slot \ (sactive \cup CI)
           Less == {ss \in Nat \X Nat : ss[1] < ss[2]}
<1>1. SUFFICES ASSUME free # {}
               PROVE  (CHOOSE s \in free : \A t \in free : s <= t) \in Slot
  BY Zenon DEF find_cmdslot
<1>2. free \subseteq Nat
  BY SlotsAssumption DEF Slot
<1>3. IsWellFoundedOn(Less, Nat)
  BY NatLessThanWellFounded, Zenon DEF OpToRel
<1> HIDE DEF Less, free
<1>4. PICK s \in free : \A t \in free : ~(<<t, s>> \in Less)
  BY <1>1, <1>2, <1>3, WFMin, Zenon
<1>5. \A t \in free : s <= t
  <2>1. TAKE t \in free
  <2>2. s \in Nat /\ t \in Nat
    BY <1>2, Zenon
  <2>3. t < s => <<t, s>> \in Less
    BY <2>2, Zenon DEF Less
  <2>4. QED
    BY <1>4, <2>2, <2>3
<1>6. (CHOOSE x \in free : \A t \in free : x <= t) \in free
  BY <1>5, Zenon
<1>7. QED
  BY <1>6, Zenon DEF free

(* The fields of IoReq: a step of a caller. *)
LEMMA CallerTyped ==
  ASSUME IoTyped, NEW u \in User, Caller(u) \/ SendWake(u) \/ PostWake(u)
  PROVE  IoTyped' /\ iopc' = iopc
<1>1. /\ m \in Mem /\ u \in Node /\ Root \in Node /\ m.prev[Root] \in Node
      /\ u \in Thread /\ Io \in Thread /\ torn \in BOOLEAN /\ req \in Node
      /\ m.prev[Root] \in Node
  BY Zenon DEF IoTyped, IoTypeOK, Node, Mem, Thread
<1>2. \A t, mem : Write(t, mem) => m' = mem /\ torn' \in BOOLEAN
  BY <1>1, Zenon DEF Write, MidOp
<1> DEFINE Places == {"idle", "send", "queue", "sent", "post1", "post2", "post3", "post4", "wake",
                      "wait", "posted"}
           States == {"freed", "PENDING", "COMPLETED", "ERROR"}
<1>3. \A l \in Places : Goto(u, l) => pc' \in [User -> Places]
  BY ZenonT(60) DEF Goto, IoTyped, IoTypeOK
<1>4. \A l \in States : [io_state EXCEPT ![u] = l] \in [User -> States]
  BY Zenon DEF IoTyped, IoTypeOK
<1>5. \A t \in Thread, w \in {"no", "req"} :
        [asleep EXCEPT ![t] = w] \in [Thread -> {"no", "req", "wq"}]
  BY Zenon DEF IoTyped, IoTypeOK
<1>6. /\ io_state \in [User -> States] /\ asleep \in [Thread -> {"no", "req", "wq"}]
      /\ missed \subseteq User
  BY Zenon DEF IoTyped, IoTypeOK
<1>7. ASSUME m' \in Mem, torn' \in BOOLEAN, pc' \in [User -> Places], missed' \subseteq User,
             io_state' \in [User -> States], asleep' \in [Thread -> {"no", "req", "wq"}],
             iopc' = iopc, req' = req
      PROVE  IoTyped'
  BY <1>7, Zenon DEF IoTyped, IoTypeOK, Node, Mem
<1>8. CASE CreateReq(u)
  <2>1. m' \in Mem
    BY <1>1, <1>8, Stores, Zenon DEF CreateReq
  <2>2. pc' \in [User -> Places] /\ torn' = torn /\ missed' \subseteq User
    BY <1>3, <1>6, <1>8, Zenon DEF CreateReq
  <2>3. io_state' \in [User -> States] /\ asleep' = asleep /\ iopc' = iopc /\ req' = req
    BY <1>4, <1>8, Zenon DEF CreateReq
  <2>4. QED
    BY <1>1, <1>6, <1>7, <2>1, <2>2, <2>3, Zenon
<1>9. CASE SendQueue(u)
  <2> DEFINE m1 == SetNext(m, m.prev[Root], u)
             m2 == SetNext(m1, u, Root)
             m3 == SetPrev(m2, u, m2.prev[Root])
  <2>1. m1 \in Mem
    BY <1>1, Stores, Zenon
  <2> HIDE DEF m1
  <2>2. m2 \in Mem
    BY <1>1, <2>1, Stores, Zenon
  <2>8. m2.prev[Root] \in Node
    BY <1>1, <2>2, Zenon DEF Mem
  <2> HIDE DEF m2
  <2>3. m3 \in Mem
    BY <1>1, <2>2, <2>8, Stores, Zenon
  <2> HIDE DEF m3
  <2>4. list_add_tail(m, Root, u) = SetPrev(m3, Root, u)
    BY Zenon DEF list_add_tail, m1, m2, m3
  <2>5. m' \in Mem /\ torn' \in BOOLEAN
    <3>1. m' = SetPrev(m3, Root, u) /\ torn' \in BOOLEAN
      BY <1>2, <1>9, <2>4, Zenon DEF SendQueue
    <3>2. QED
      BY <1>1, <2>3, <3>1, Stores, Zenon
  <2>6. /\ pc' \in [User -> Places] /\ asleep' \in [Thread -> {"no", "req", "wq"}]
        /\ io_state' = io_state /\ iopc' = iopc /\ req' = req /\ missed' = missed
    BY <1>1, <1>3, <1>5, <1>9, Zenon DEF SendQueue
  <2>7. QED
    BY <1>6, <1>7, <2>5, <2>6, Zenon
<1>10. CASE SendCheck(u)
  <2>1. pc' \in [User -> Places] /\ io_state' \in [User -> States]
    BY <1>3, <1>4, <1>6, <1>10, Zenon DEF SendCheck
  <2>2. /\ m' = m /\ asleep' = asleep /\ iopc' = iopc /\ req' = req /\ torn' = torn
        /\ missed' = missed
    BY <1>10, Zenon DEF SendCheck
  <2>3. QED
    BY <1>1, <1>6, <1>7, <2>1, <2>2, Zenon
<1>11. CASE PostLink(u)
  <2>1. m' \in Mem /\ torn' \in BOOLEAN /\ pc' \in [User -> Places]
    <3>1. /\ SetNext(m, m.prev[Root], u) \in Mem /\ SetNext(m, u, Root) \in Mem
          /\ SetPrev(m, u, m.prev[Root]) \in Mem /\ SetPrev(m, Root, u) \in Mem
      BY <1>1, Stores, Zenon
    <3>2. {"post2", "post3", "post4", "wake"} \subseteq Places
      BY Zenon
    <3>3. PICK mem \in Mem, l \in Places : Write(u, mem) /\ Goto(u, l)
      BY <1>11, <3>1, <3>2, Zenon DEF PostLink
    <3>4. QED
      BY <1>2, <1>3, <3>3, Zenon
  <2>2. /\ io_state' = io_state /\ asleep' = asleep /\ iopc' = iopc /\ req' = req
        /\ missed' = missed
    BY <1>11, Zenon DEF PostLink
  <2>3. QED
    BY <1>6, <1>7, <2>1, <2>2, Zenon
<1>12. CASE PostWait(u) \/ PostReturn(u) \/ SendWake(u) \/ PostWake(u)
  <2>1. pc' \in [User -> Places] /\ io_state' \in [User -> States]
    BY <1>3, <1>4, <1>6, <1>12, Zenon DEF PostWait, PostReturn, SendWake, PostWake
  <2>2. asleep' \in [Thread -> {"no", "req", "wq"}]
    BY <1>1, <1>5, <1>6, <1>12, Zenon DEF PostWait, PostReturn, SendWake, PostWake, pt_wakeup
  <2>3. m' = m /\ iopc' = iopc /\ req' = req /\ torn' = torn /\ missed' = missed
    BY <1>12, Zenon DEF PostWait, PostReturn, SendWake, PostWake
  <2>4. QED
    BY <1>1, <1>6, <1>7, <2>1, <2>2, <2>3, Zenon
<1>13. QED
  BY <1>8, <1>9, <1>10, <1>11, <1>12, Zenon DEF Caller

(* ... and one of io_schedule outside the disk driver. *)
LEMMA SchedulerTyped ==
  ASSUME IoTyped, IoTop \/ IoDel \/ ConIoRequest \/ IoWake
  PROVE  IoTyped' /\ iopc' \in {"top", "del1", "del2", "del3", "serve", "wake"}
<1> DEFINE States == {"freed", "PENDING", "COMPLETED", "ERROR"}
<1>1. /\ m \in Mem /\ Root \in Node /\ torn \in BOOLEAN /\ req \in Node /\ missed \subseteq User
      /\ io_state \in [User -> States] /\ asleep \in [Thread -> {"no", "req", "wq"}]
  BY Zenon DEF IoTyped, IoTypeOK, Node, Mem
<1>2. ASSUME m' \in Mem, torn' \in BOOLEAN, pc' = pc, missed' \subseteq User,
             io_state' \in [User -> States], asleep' \in [Thread -> {"no", "req", "wq"}],
             iopc' \in {"top", "del1", "del2", "del3", "serve", "wake"},
             iopc' = "top" => req' = Root, iopc' # "top" => req' \in User
      PROVE  IoTyped'
  BY <1>2, Zenon DEF IoTyped, IoTypeOK, Node, Mem
<1>3. CASE IoTop
  <2>1. /\ m' = m /\ io_state' = io_state /\ asleep' = asleep /\ pc' = pc /\ torn' = torn
        /\ missed' = missed /\ iopc' = "del1" /\ req' = m.next[Root] /\ m.next[Root] # Root
    BY <1>3, Zenon DEF IoTop
  <2>2. m.next[Root] \in User
    <3>1. m.next[Root] \in Node
      BY <1>1, Zenon DEF Mem
    <3>2. QED
      BY <2>1, <3>1, Zenon DEF Node
  <2>3. QED
    BY <1>1, <1>2, <2>1, <2>2, Zenon
<1>4. CASE IoDel
  <2>1. /\ io_state' = io_state /\ asleep' = asleep /\ pc' = pc /\ missed' = missed
        /\ req' = req /\ iopc # "top" /\ iopc' \in {"del2", "del3", "serve"}
    BY <1>4, Zenon DEF IoDel
  <2>2. m.prev[req] \in Node /\ m.next[req] \in Node /\ SetNext(m, req, req) \in Mem
    <3>1. m.prev[req] \in Node /\ m.next[req] \in Node
      BY <1>1, Zenon DEF Mem
    <3>2. QED
      BY <1>1, <3>1, Stores, Zenon
  <2>3. m' \in Mem /\ torn' \in BOOLEAN
    <3>1. /\ SetNext(m, m.prev[req], m.next[req]) \in Mem
          /\ SetPrev(m, m.next[req], m.prev[req]) \in Mem
          /\ SetPrev(SetNext(m, req, req), req, req) \in Mem
      BY <1>1, <2>2, Stores, Zenon
    <3>2. PICK mem \in Mem : Write(Io, mem)
      BY <1>4, <3>1, Zenon DEF IoDel
    <3>3. QED
      BY <1>1, <3>2, Zenon DEF Write, MidOp
  <2>4. QED
    BY <1>1, <1>2, <2>1, <2>3, Zenon DEF IoTyped
<1>5. CASE ConIoRequest
  <2>1. /\ m' = m /\ asleep' = asleep /\ pc' = pc /\ torn' = torn /\ missed' = missed
        /\ req' = req /\ iopc # "top" /\ iopc' = "wake"
        /\ io_state' = [io_state EXCEPT ![req] = "COMPLETED"]
    BY <1>5, Zenon DEF ConIoRequest
  <2>2. io_state' \in [User -> States]
    BY <1>1, <2>1, Zenon
  <2>3. QED
    BY <1>1, <1>2, <2>1, <2>2, Zenon DEF IoTyped
<1>6. CASE IoWake
  <2>1. /\ m' = m /\ io_state' = io_state /\ pc' = pc /\ torn' = torn /\ req' = Root
        /\ iopc = "wake" /\ iopc' = "top"
    BY <1>6, Zenon DEF IoWake
  <2>2. req \in User
    BY <2>1, Zenon DEF IoTyped
  <2>3. missed' \subseteq User /\ asleep' \in [Thread -> {"no", "req", "wq"}]
    BY <1>1, <1>6, <2>2, Zenon DEF IoWake, pt_wakeup, Thread
  <2>4. QED
    BY <1>1, <1>2, <2>1, <2>3, Zenon
<1>7. QED
  BY <1>3, <1>4, <1>5, <1>6, <1>2, Zenon DEF IoTop, IoDel, ConIoRequest, IoWake

(* The steps of the disk driver. *)
DriverStep == SataDoRequest \/ AhciMark \/ AhciPortReset \/ AhciIssue \/ AhciReturn

LEMMA DriverServes ==
  ASSUME Typed, DriverStep \/ ConIoRequest
  PROVE  Serves /\ torn' = torn /\ missed' = missed
<1>1. asleep \in [Thread -> {"no", "req", "wq"}] /\ Io \notin User /\ Io \in Thread
      /\ User \subseteq Thread
  BY Types, IoAssumption, Zenon DEF Thread
<1>2. CASE SataDoRequest
  BY <1>2, Zenon DEF SataDoRequest, Serves, Served, Deleting
<1>3. CASE AhciMark \/ AhciPortReset
  BY <1>3, Zenon DEF AhciMark, AhciPortReset, Serves, Served, Deleting
<1>4. CASE AhciIssue
  <2>1. /\ m' = m /\ pc' = pc /\ req' = req /\ torn' = torn /\ missed' = missed
        /\ iopc \in {"issue", "reset"} /\ iopc' = "issued" /\ io_state' = io_state
        /\ asleep' = [asleep EXCEPT ![Io] = "wq"]
    BY <1>4, Zenon DEF AhciIssue
  <2>2. \A u \in User : asleep'[u] = asleep[u]
    BY <1>1, <2>1, Zenon
  <2>3. QED
    BY <2>1, <2>2, Zenon DEF Serves, Served, Deleting
<1>5. CASE AhciReturn \/ ConIoRequest
  BY <1>5, Zenon DEF AhciReturn, ConIoRequest, Serves, Served, Deleting
<1>6. QED
  BY <1>2, <1>3, <1>4, <1>5, Zenon DEF DriverStep

LEMMA DriverTyped ==
  ASSUME Typed, DriverStep, early' = early
  PROVE  Typed'
<1>1. Serves /\ torn' = torn /\ missed' = missed /\ req \in User /\ Io \in Thread
  BY DriverServes, Types, Zenon DEF Serves, Served, Thread
<1>2. io_state' \in [User -> {"freed", "PENDING", "COMPLETED", "ERROR"}]
  BY <1>1, Types, Zenon DEF Serves
<1>3. asleep' \in [Thread -> {"no", "req", "wq"}]
  BY <1>1, Types, Zenon DEF DriverStep, SataDoRequest, AhciMark, AhciPortReset, AhciIssue, AhciReturn
<1>4. iopc' \in {"wake"} \cup (Served \ Deleting)
  BY <1>1, Zenon DEF Serves
<1>5. m' = m /\ pc' = pc /\ req' = req
  BY <1>1, Zenon DEF Serves
<1>6. IoTyped'
  BY <1>1, <1>2, <1>3, <1>4, <1>5, TypedParts, Zenon DEF IoTyped, IoTypeOK, Served, Deleting
<1>7. DriveTyped
  BY TypedParts, Zenon
<1>8. CASE SataDoRequest
  <2>1. /\ CI' = CI /\ sactive' = sactive /\ cmd' = cmd /\ irq' = irq /\ done' = done
        /\ failed' = failed /\ wild' = wild
        /\ \/ iopc' = "wake" /\ slot' = slot /\ old' = old
           \/ find_cmdslot # -1 /\ slot' = find_cmdslot /\ old' = sactive
    BY <1>8, Zenon DEF SataDoRequest
  <2>2. QED
    BY <1>6, <1>7, <2>1, SlotFound, TypedPartsNext, Zenon DEF DriveTyped
<1>9. CASE AhciMark
  <2>1. /\ CI' = CI /\ sactive' = old \cup {slot} /\ old' = {} /\ cmd' = cmd /\ slot' = slot
        /\ irq' = irq /\ done' = done /\ failed' = failed /\ wild' = wild /\ slot \in Slot
    BY <1>7, <1>9, Zenon DEF AhciMark, DriveTyped
  <2>2. DriveTyped'
    BY <1>7, <2>1, Zenon DEF DriveTyped
  <2>3. QED
    BY <1>6, <2>2, TypedPartsNext, Zenon
<1>10. CASE AhciPortReset
  <2>1. /\ CI' = {} /\ sactive' = sactive /\ old' = old /\ cmd' = cmd /\ slot' = slot
        /\ irq' = irq /\ done' = done /\ failed' = failed /\ wild' = wild /\ slot \in Slot
    BY <1>7, <1>10, Zenon DEF AhciPortReset, DriveTyped
  <2>2. DriveTyped'
    BY <1>7, <2>1, Zenon DEF DriveTyped
  <2>3. QED
    BY <1>6, <2>2, TypedPartsNext
<1>11. CASE AhciIssue
  <2>1. /\ CI' = CI \cup {slot} /\ sactive' = sactive /\ old' = old
        /\ cmd' = [cmd EXCEPT ![slot] = req] /\ slot' = slot
        /\ irq' = irq /\ done' = done /\ failed' = failed /\ wild' = wild /\ slot \in Slot
    BY <1>7, <1>11, Zenon DEF AhciIssue, DriveTyped
  <2>2. cmd' \in [Slot -> User \cup {Root}] /\ \A s \in CI' : cmd'[s] \in User
    BY <1>1, <1>7, <2>1, Zenon DEF DriveTyped
  <2>3. DriveTyped'
    BY <1>7, <2>1, <2>2, Zenon DEF DriveTyped
  <2>4. QED
    BY <1>6, <2>3, TypedPartsNext
<1>12. CASE AhciReturn
  <2>1. /\ CI' = CI /\ sactive' = sactive /\ old' = old /\ cmd' = cmd /\ slot' = -1
        /\ irq' = irq /\ done' = done /\ failed' = failed /\ wild' = wild /\ iopc' = "wake"
    BY <1>12, Zenon DEF AhciReturn
  <2>2. DriveTyped'
    BY <1>7, <2>1, Zenon DEF DriveTyped
  <2>3. QED
    BY <1>6, <2>2, TypedPartsNext
<1>13. QED
  BY <1>8, <1>9, <1>10, <1>11, <1>12, Zenon DEF DriverStep

(* The drive and the interrupt. *)
LEMMA DriveStepTyped ==
  ASSUME Typed, early' = early, (\E s \in Slot : DriveDone(s)) \/ DriveError \/ AhciInterrupt
  PROVE  Typed' /\ \A u \in User : asleep'[u] = asleep[u]
<1>1. IoTyped /\ DriveTyped /\ Io \in Thread /\ Io \notin User /\ User \subseteq Thread
  BY TypedParts, IoAssumption, Zenon DEF Thread
<1>2. ASSUME NEW s \in Slot, DriveDone(s)
      PROVE  Typed' /\ \A u \in User : asleep'[u] = asleep[u]
  <2>1. /\ CI' = CI \ {s} /\ done' = done \cup {cmd[s]} /\ irq' \in {irq, "done"} /\ s \in CI
        /\ sactive' = sactive /\ cmd' = cmd /\ slot' = slot /\ old' = old /\ failed' = failed
        /\ wild' = wild /\ ioVars' = ioVars
    BY <1>2, Zenon DEF DriveDone
  <2>2. DriveTyped'
    BY <1>1, <2>1, Zenon DEF DriveTyped, ioVars
  <2>3. IoTyped'
    BY <1>1, <2>1, Zenon DEF IoTyped, IoTypeOK, ioVars
  <2>4. QED
    BY <2>1, <2>2, <2>3, TypedPartsNext, Zenon DEF ioVars
<1>3. CASE DriveError
  <2>1. /\ CI' = CI /\ done' = done /\ irq' = "error" /\ failed' = TRUE
        /\ sactive' = sactive /\ cmd' = cmd /\ slot' = slot /\ old' = old
        /\ wild' = wild /\ ioVars' = ioVars
    BY <1>3, Zenon DEF DriveError
  <2>2. DriveTyped'
    BY <1>1, <2>1, Zenon DEF DriveTyped, ioVars
  <2>3. IoTyped'
    BY <1>1, <2>1, Zenon DEF IoTyped, IoTypeOK, ioVars
  <2>4. QED
    BY <2>1, <2>2, <2>3, TypedPartsNext, Zenon DEF ioVars
<1>4. CASE AhciInterrupt
  <2>1. /\ m' = m /\ io_state' = io_state /\ pc' = pc /\ iopc' = iopc /\ req' = req
        /\ torn' = torn /\ missed' = missed /\ cmd' = cmd /\ slot' = slot /\ old' = old
        /\ done' = done /\ failed' = failed /\ irq' = "no"
        /\ CI' \subseteq CI /\ sactive' \subseteq sactive
    BY <1>4, Zenon DEF AhciInterrupt
  <2>2. /\ asleep' = asleep \/ asleep' = [asleep EXCEPT ![Io] = "no"]
        /\ wild' \in BOOLEAN
    BY <1>1, <1>4, Zenon DEF AhciInterrupt, WakeWq, DriveTyped
  <2>3. asleep \in [Thread -> {"no", "req", "wq"}]
    BY <1>1, Zenon DEF IoTyped, IoTypeOK
  <2>4. asleep' \in [Thread -> {"no", "req", "wq"}] /\ \A u \in User : asleep'[u] = asleep[u]
    BY <1>1, <2>2, <2>3, Zenon
  <2>5. IoTyped'
    BY <1>1, <2>1, <2>4, Zenon DEF IoTyped, IoTypeOK
  <2>6. DriveTyped'
    BY <1>1, <2>1, <2>2, Zenon DEF DriveTyped
  <2>7. QED
    BY <2>4, <2>5, <2>6, TypedPartsNext, Zenon
<1>5. QED
  BY <1>2, <1>3, <1>4, Zenon
-----------------------------------------------------------------------------
(* One command at a time. *)

Outside == {"top", "del1", "del2", "del3", "serve", "wake"}

(* Steps that the port does not see. *)
LEMMA DiskSame ==
  ASSUME DiskInv, CI' = CI, sactive' = sactive, cmd' = cmd, slot' = slot, old' = old,
         irq' = irq, wild' = wild, asleep'[Io] = asleep[Io],
         \/ iopc' = iopc /\ req' = req
         \/ iopc \in Outside /\ iopc' \in Outside
  PROVE  DiskInv'
<1>1. CASE iopc' = iopc /\ req' = req
  BY <1>1, Zenon DEF DiskInv, AtDrive
<1>2. CASE iopc \in Outside /\ iopc' \in Outside
  BY <1>2, Zenon DEF DiskInv, AtDrive, Outside
<1>3. QED
  BY <1>1, <1>2, Zenon

(* The driver itself, undisturbed. *)
LEMMA DriverDisk ==
  ASSUME Typed, DiskInv, DriverStep, asleep[Io] = "no"
  PROVE  DiskInv'
<1>1. asleep \in [Thread -> {"no", "req", "wq"}] /\ Io \in Thread
  BY Types, Zenon DEF Thread
<1>2. CASE SataDoRequest
  <2>1. /\ iopc = "serve" /\ CI' = CI /\ sactive' = sactive /\ irq' = irq /\ asleep' = asleep
        /\ wild' = wild
        /\ iopc' = "wake" \/ (iopc' = "mark" /\ old' = sactive)
    BY <1>2, Zenon DEF SataDoRequest
  <2>2. QED
    BY <2>1, Zenon DEF DiskInv, AtDrive
<1>3. CASE AhciMark
  <2>1. /\ iopc = "mark" /\ CI' = CI /\ sactive' = old \cup {slot} /\ irq' = irq
        /\ asleep' = asleep /\ wild' = wild /\ iopc' = "issue" /\ slot' = slot
    BY <1>3, Zenon DEF AhciMark
  <2>2. CI = {} /\ old = {} /\ irq = "no" /\ ~wild
    BY <2>1, Zenon DEF DiskInv, AtDrive
  <2>3. AtDrive({}, {slot}, "no", "no")'
    BY <2>1, <2>2, Zenon DEF AtDrive
  <2>4. QED
    BY <2>1, <2>2, <2>3, Zenon DEF DiskInv
<1>4. CASE AhciPortReset
  BY <1>4, Zenon DEF AhciPortReset, DiskInv, AtDrive
<1>5. CASE AhciIssue
  <2>1. /\ iopc \in {"issue", "reset"} /\ CI' = CI \cup {slot} /\ sactive' = sactive
        /\ irq' = irq /\ asleep' = [asleep EXCEPT ![Io] = "wq"] /\ wild' = wild
        /\ iopc' = "issued" /\ slot' = slot /\ cmd' = [cmd EXCEPT ![slot] = req] /\ req' = req
    BY <1>5, Zenon DEF AhciIssue
  <2>2. CI = {} /\ sactive = {slot} /\ irq = "no" /\ ~wild
    BY <2>1, Zenon DEF DiskInv, AtDrive
  <2>3. cmd \in [Slot -> User \cup {Root}] /\ slot \in Slot
    BY <2>1, Zenon DEF Typed, AhciTypeOK
  <2>4. AtDrive({slot}, {slot}, "wq", "no")' /\ cmd'[slot'] = req'
    BY <1>1, <2>1, <2>2, <2>3, Zenon DEF AtDrive
  <2>5. QED
    BY <2>1, <2>2, <2>4, Zenon DEF DiskInv
<1>6. CASE AhciReturn
  <2>1. /\ iopc = "issued" /\ CI' = CI /\ sactive' = sactive
        /\ irq' = irq /\ asleep' = asleep /\ wild' = wild /\ iopc' = "wake"
    BY <1>6, Zenon DEF AhciReturn
  <2>2. CI = {} /\ sactive = {} /\ irq = "no" /\ ~wild
    BY <2>1, Zenon DEF DiskInv, AtDrive
  <2>3. AtDrive({}, {}, "no", "no")'
    BY <2>1, <2>2, Zenon DEF AtDrive
  <2>4. QED
    BY <2>1, <2>2, <2>3, Zenon DEF DiskInv
<1>7. QED
  BY <1>2, <1>3, <1>4, <1>5, <1>6, Zenon DEF DriverStep

(* The drive and its interrupt: the interrupt that wakes io_scheduler is   *)
(* that of its own command.                                                *)
LEMMA DriveDisk ==
  ASSUME Typed, DiskInv, (\E s \in Slot : DriveDone(s)) \/ DriveError \/ AhciInterrupt
  PROVE  DiskInv'
<1>1. /\ asleep \in [Thread -> {"no", "req", "wq"}] /\ Io \in Thread
      /\ \A s \in CI : cmd[s] \in User
  BY Types, Zenon DEF Thread, Typed
<1>2. CI # {} \/ irq # "no"
  BY Zenon DEF DriveDone, DriveError, AhciInterrupt
<1>3. iopc = "issued" /\ ~wild
  BY <1>2, Zenon DEF DiskInv, AtDrive
<1>4. iopc' = iopc /\ req' = req /\ slot' = slot /\ cmd' = cmd
  BY Zenon DEF DriveDone, DriveError, AhciInterrupt, ioVars
<1>5. ASSUME ~wild',
             \/ \E i \in {"no", "error"} : AtDrive({slot}, {slot}, "wq", i)' /\ cmd[slot] = req
             \/ \E i \in {"done", "error"} : AtDrive({}, {slot}, "wq", i)'
             \/ \E w \in {"wq", "no"} : AtDrive({}, {}, w, "no")'
      PROVE  DiskInv'
  BY <1>3, <1>4, <1>5, Zenon DEF DiskInv, AtDrive
<1>6. ASSUME NEW s \in Slot, DriveDone(s)
      PROVE  DiskInv'
  <2>1. /\ CI' = CI \ {s} /\ s \in CI /\ irq' = IF irq = "error" THEN irq ELSE "done"
        /\ sactive' = sactive /\ asleep' = asleep /\ wild' = wild
    BY <1>6, Zenon DEF DriveDone, ioVars
  <2>2. PICK i \in {"no", "error"} : AtDrive({slot}, {slot}, "wq", i)
    BY <1>3, <2>1, Zenon DEF DiskInv, AtDrive
  <2>3. \E j \in {"done", "error"} : AtDrive({}, {slot}, "wq", j)'
    BY <1>4, <2>1, <2>2, Zenon DEF AtDrive
  <2>4. QED
    BY <1>3, <1>5, <2>1, <2>3, Zenon
<1>7. CASE DriveError
  <2>1. CI # {} /\ CI' = CI /\ irq' = "error" /\ sactive' = sactive /\ asleep' = asleep
        /\ wild' = wild
    BY <1>7, Zenon DEF DriveError, ioVars
  <2>2. PICK i \in {"no", "error"} : AtDrive({slot}, {slot}, "wq", i) /\ cmd[slot] = req
    BY <1>3, <2>1, Zenon DEF DiskInv, AtDrive
  <2>3. AtDrive({slot}, {slot}, "wq", "error")'
    BY <1>4, <2>1, <2>2, Zenon DEF AtDrive
  <2>4. QED
    BY <1>3, <1>5, <2>1, <2>2, <2>3, Zenon
<1>8. CASE AhciInterrupt
  <2>1. irq # "no" /\ irq' = "no"
    BY <1>8, Zenon DEF AhciInterrupt
  <2>2. CASE irq = "error"
    <3>1. CI' = {} /\ sactive' = {} /\ asleep' = asleep /\ wild' = wild
      BY <1>8, <2>2, Zenon DEF AhciInterrupt
    <3>2. asleep[Io] = "wq"
      BY <1>3, <2>2, Zenon DEF DiskInv, AtDrive
    <3>3. AtDrive({}, {}, "wq", "no")'
      BY <2>1, <3>1, <3>2, Zenon DEF AtDrive
    <3>4. QED
      BY <1>3, <1>5, <3>1, <3>3, Zenon
  <2>3. CASE irq = "done"
    <3>1. CI = {} /\ sactive = {slot} /\ asleep[Io] = "wq"
      BY <1>3, <2>3, Zenon DEF DiskInv, AtDrive
    <3>2. (CI \ sactive) \cup (sactive \ CI) = {slot}
      BY <3>1, Zenon
    <3>3. CI' = CI /\ sactive' = sactive \ {slot} /\ WakeWq
      BY <1>8, <2>3, <3>2, Zenon DEF AhciInterrupt
    <3>4. asleep' = [asleep EXCEPT ![Io] = "no"] /\ wild' = wild
      BY <1>3, <3>3, Zenon DEF WakeWq, WqLive
    <3>5. AtDrive({}, {}, "no", "no")'
      BY <1>1, <2>1, <3>1, <3>3, <3>4, Zenon DEF AtDrive
    <3>6. QED
      BY <1>3, <1>5, <3>4, <3>5, Zenon
  <2>4. QED
    BY <1>8, <2>2, <2>3, Zenon DEF AhciInterrupt
<1>9. QED
  BY <1>6, <1>7, <1>8, Zenon

(* The drive has done what is reported done: the driver's own steps. *)
LEMMA DriverDone ==
  ASSUME Typed, CtlInv, DiskInv, DoneInv, DriverStep, asleep[Io] = "no"
  PROVE  DoneInv'
<1>1. /\ done' = done /\ req' = req /\ req \in User /\ Disk \subseteq User
      /\ io_state \in [User -> {"freed", "PENDING", "COMPLETED", "ERROR"}]
      /\ Io \in Thread /\ asleep \in [Thread -> {"no", "req", "wq"}]
  BY Types, IoAssumption, Zenon
     DEF DriverStep, SataDoRequest, AhciMark, AhciPortReset, AhciIssue, AhciReturn, Thread
<1>2. CASE SataDoRequest
  <2>1. /\ iopc' # "issued"
        /\ io_state' = io_state \/ io_state' = [io_state EXCEPT ![req] = "ERROR"]
    BY <1>2, Zenon DEF SataDoRequest
  <2>2. QED
    BY <1>1, <2>1, Zenon DEF DoneInv
<1>3. CASE AhciMark \/ AhciPortReset
  <2>1. iopc' # "issued" /\ io_state' = io_state
    BY <1>3, Zenon DEF AhciMark, AhciPortReset
  <2>2. QED
    BY <1>1, <2>1, Zenon DEF DoneInv
<1>4. CASE AhciIssue
  <2>1. CI' # {} /\ io_state' = io_state
    BY <1>4, Zenon DEF AhciIssue
  <2>2. QED
    BY <1>1, <2>1, Zenon DEF DoneInv, AtDrive
<1>5. CASE AhciReturn
  <2>1. iopc = "issued" /\ iopc' = "wake" /\ io_state' = [io_state EXCEPT ![req] = "COMPLETED"]
    BY <1>5, Zenon DEF AhciReturn
  <2>2. AtDrive({}, {}, "no", "no")
    BY <2>1, Zenon DEF DiskInv, AtDrive
  <2>3. req \in done
    BY <2>1, <2>2, Zenon DEF DoneInv
  <2>4. QED
    BY <1>1, <2>1, <2>3, Zenon DEF DoneInv
<1>6. QED
  BY <1>2, <1>3, <1>4, <1>5, Zenon DEF DriverStep

(* ... and those of the drive. *)
LEMMA DriveCarriesOut ==
  ASSUME Typed, DiskInv, DoneInv, (\E s \in Slot : DriveDone(s)) \/ DriveError \/ AhciInterrupt
  PROVE  DoneInv'
<1>1. /\ io_state' = io_state /\ iopc' = iopc /\ req' = req /\ done \subseteq done'
      /\ Io \in Thread /\ asleep \in [Thread -> {"no", "req", "wq"}]
  BY Types, Zenon DEF DriveDone, DriveError, AhciInterrupt, ioVars, Thread
<1>2. CI # {} \/ irq # "no"
  BY Zenon DEF DriveDone, DriveError, AhciInterrupt
<1>3. iopc = "issued"
  BY <1>2, Zenon DEF DiskInv, AtDrive
<1>4. ASSUME AtDrive({}, {}, "no", "no")' \/ (CI' = {} /\ sactive' # {})
      PROVE  req \in done'
  <2>1. ASSUME NEW s \in Slot, DriveDone(s)
        PROVE  req \in done'
    <3>1. s \in CI /\ done' = done \cup {cmd[s]}
      BY <2>1, Zenon DEF DriveDone
    <3>2. CI = {slot} /\ cmd[slot] = req
      BY <1>3, <3>1, Zenon DEF DiskInv, AtDrive
    <3>3. QED
      BY <3>1, <3>2, Zenon
  <2>2. CASE DriveError
    <3>1. CI # {} /\ CI' = CI
      BY <2>2, Zenon DEF DriveError
    <3>2. QED
      BY <1>4, <3>1, Zenon DEF AtDrive
  <2>3. CASE AhciInterrupt /\ irq = "error"
    <3>1. CI' = {} /\ sactive' = {} /\ asleep' = asleep
      BY <2>3, Zenon DEF AhciInterrupt
    <3>2. asleep[Io] = "wq"
      BY <1>3, <2>3, Zenon DEF DiskInv, AtDrive
    <3>3. QED
      BY <1>4, <3>1, <3>2, Zenon DEF AtDrive
  <2>4. CASE AhciInterrupt /\ irq = "done"
    <3>1. CI = {} /\ sactive # {}
      BY <1>3, <2>4, Zenon DEF DiskInv, AtDrive
    <3>2. QED
      BY <1>1, <1>3, <3>1, Zenon DEF DoneInv
  <2>5. QED
    BY <2>1, <2>2, <2>3, <2>4, Zenon DEF AhciInterrupt
<1>5. QED
  BY <1>1, <1>4, Zenon DEF DoneInv
-----------------------------------------------------------------------------
(* The invariant and the theorem. *)

LEMMA AhciInvInit ==
  ASSUME AhciInit
  PROVE  AhciInv
<1>1. /\ m.next = [n \in Node |-> n] /\ m.prev = [n \in Node |-> n]
      /\ \A u \in User : io_state[u] = "freed" /\ pc[u] = "idle"
      /\ \A t \in Thread : asleep[t] = "no"
      /\ iopc = "top" /\ req = Root /\ CI = {} /\ sactive = {} /\ irq = "no" /\ ~wild
  BY Zenon DEF AhciInit, IoInit, Node
<1>2. OnList = {}
  BY <1>1, Zenon DEF OnList
<1>3. Whole(m.next, m.prev, OnList)
  BY <1>1, <1>2 DEF Whole
<1>4. ListInv
  BY <1>1, <1>3, Zenon DEF ListInv, Posting, Deleting
<1>5. CtlInv
  BY <1>1, Zenon DEF CtlInv, Served, Making, Queued, Thread
<1>6. DiskInv /\ DoneInv
  BY <1>1, IoAssumption, Zenon DEF DiskInv, DoneInv, AtDrive, Thread
<1>7. IoTyped
  BY <1>1, Zenon DEF IoTyped, IoTypeOK, AhciInit, IoInit, Thread
<1>8. DriveTyped
  BY <1>1, SlotsAssumption, Zenon DEF DriveTyped, AhciInit, IoInit
<1>9. QED
  BY <1>4, <1>5, <1>6, <1>7, <1>8, TypedParts, Zenon DEF AhciInv

LEMMA UserKeeps ==
  ASSUME AhciInv, NEW u \in User, UserStep(u)
  PROVE  AhciInv'
<1>1. Typed /\ Io \in Thread /\ Io # u /\ u \in Thread
      /\ asleep \in [Thread -> {"no", "req", "wq"}] /\ Disk \subseteq User
  BY Types, IoAssumption, Zenon DEF AhciInv, Thread
<1>2. CASE WakeIo(u)
  <2>1. /\ SendWake(u) \/ PostWake(u)
        /\ early' = (early \/ asleep[Io] = "wq") /\ diskVars' = diskVars
    BY <1>2, Zenon DEF WakeIo
  <2>2. /\ iopc' = iopc /\ req' = req /\ io_state' = io_state /\ torn' = torn
        /\ asleep' = [asleep EXCEPT ![Io] = "no"]
    BY <2>1, Zenon DEF SendWake, PostWake, pt_wakeup
  <2>3. /\ CI' = CI /\ sactive' = sactive /\ cmd' = cmd /\ slot' = slot /\ old' = old
        /\ irq' = irq /\ done' = done /\ failed' = failed /\ wild' = wild
    BY <2>1, Zenon DEF diskVars
  <2>4. IoTyped'
    BY <1>1, <2>1, CallerTyped, TypedParts, Zenon
  <2>5. early' \in BOOLEAN
    BY <1>1, <2>1, TypedParts, Zenon DEF DriveTyped
  <2>6. DriveTyped'
    BY <1>1, <2>2, <2>3, <2>5, TypedParts, Zenon DEF DriveTyped
  <2>7. ~torn' => ListInv' /\ CtlInv'
    BY <1>1, <2>1, <2>2, WakeStep, Zenon DEF AhciInv
  <2>8. ASSUME ~early'
        PROVE  DiskInv' /\ (~torn' => DoneInv')
    <3>1. ~early /\ asleep[Io] # "wq"
      BY <2>1, <2>8, Zenon
    <3>2. DiskInv
      BY <3>1, Zenon DEF AhciInv
    <3>3. asleep'[Io] = asleep[Io]
      BY <1>1, <2>2, <3>1, <3>2, Zenon DEF DiskInv, AtDrive
    <3>4. DiskInv'
      BY <2>2, <2>3, <3>2, <3>3, DiskSame, Zenon
    <3>5. ~torn' => DoneInv'
      BY <2>2, <2>3, <3>1, <3>3, Zenon DEF AhciInv, DoneInv, AtDrive
    <3>6. QED
      BY <3>4, <3>5, Zenon
  <2>9. QED
    BY <2>4, <2>6, <2>7, <2>8, TypedPartsNext, Zenon DEF AhciInv
<1>3. CASE /\ Caller(u)
           /\ done' = IF pc[u] = "idle" THEN done \ {u} ELSE done
           /\ UNCHANGED <<CI, sactive, cmd, slot, old, irq, failed, wild, early>>
  <2>1. /\ CI' = CI /\ sactive' = sactive /\ cmd' = cmd /\ slot' = slot /\ old' = old
        /\ irq' = irq /\ failed' = failed /\ wild' = wild /\ early' = early
    BY <1>3, Zenon
  <2>2. IoTyped' /\ iopc' = iopc
    BY <1>1, <1>3, CallerTyped, TypedParts, Zenon
  <2>3. req' = req /\ (torn => torn')
    <3>1. CASE SendQueue(u) \/ PostLink(u)
      <4>1. req' = req /\ \E mem : Write(u, mem)
        BY <3>1, Zenon DEF SendQueue, PostLink
      <4>2. QED
        BY <4>1, TornStays, Zenon
    <3>2. CASE CreateReq(u) \/ SendCheck(u) \/ PostWait(u) \/ PostReturn(u)
      <4>1. req' = req /\ torn' = torn
        BY <3>2, Zenon DEF CreateReq, SendCheck, PostWait, PostReturn
      <4>2. QED
        BY <4>1, SMT
    <3>3. QED
      BY <1>3, <3>1, <3>2, Zenon DEF Caller
  <2>4. asleep' = asleep \/ asleep' = [asleep EXCEPT ![u] = "req"]
    BY <1>3, Zenon DEF Caller, CreateReq, SendQueue, SendCheck, PostLink, PostWait, PostReturn
  <2>5. asleep'[Io] = asleep[Io]
    BY <1>1, <2>4, Zenon
  <2>6. DriveTyped'
    BY <1>1, <1>3, <2>1, <2>2, TypedParts, Zenon DEF DriveTyped
  <2>7. ~torn' => ListInv' /\ CtlInv'
    BY <1>1, <1>3, <2>3, CreateReqStep, SendQueueStep, ReturnStep, PostLinkStep, PostWaitStep, Zenon
       DEF AhciInv, Caller
  <2>8. ~early' => DiskInv'
    BY <2>1, <2>2, <2>3, <2>5, DiskSame, Zenon DEF AhciInv
  <2>9. ASSUME ~torn', ~early'
        PROVE  DoneInv'
    <3>1. DoneInv /\ CtlInv
      BY <2>1, <2>3, <2>9, Zenon DEF AhciInv
    <3>2. io_state \in [User -> {"freed", "PENDING", "COMPLETED", "ERROR"}]
      BY <1>1, Types, Zenon
    <3>3. CASE CreateReq(u)
      <4>1. /\ pc[u] = "idle" /\ done' = done \ {u}
            /\ io_state' = [io_state EXCEPT ![u] = "PENDING"]
        BY <1>3, <3>3, Zenon DEF CreateReq
      <4>2. iopc = "issued" => req # u
        BY <3>1, <4>1, Zenon DEF CtlInv, Queued
      <4>3. QED
        BY <2>1, <2>2, <2>3, <2>5, <3>1, <3>2, <4>1, <4>2 DEF DoneInv, AtDrive
    <3>4. CASE ~CreateReq(u)
      <4>1. /\ pc[u] # "idle"
            /\ io_state' = io_state \/ io_state' = [io_state EXCEPT ![u] = "freed"]
        BY <1>3, <3>4, Zenon DEF Caller, SendQueue, SendCheck, PostLink, PostWait, PostReturn
      <4>2. done' = done
        BY <1>3, <4>1, Zenon
      <4>3. \A v \in User : io_state'[v] = "COMPLETED" => io_state[v] = "COMPLETED"
        BY <3>2, <4>1, Zenon
      <4>4. QED
        BY <1>1, <2>1, <2>2, <2>3, <2>5, <3>1, <4>2, <4>3, ZenonT(60) DEF DoneInv, AtDrive
    <3>5. QED
      BY <3>3, <3>4, Zenon
  <2>10. QED
    BY <2>2, <2>6, <2>7, <2>8, <2>9, TypedPartsNext, Zenon DEF AhciInv
<1>4. QED
  BY <1>2, <1>3, Zenon DEF UserStep

LEMMA SchedulerKeeps ==
  ASSUME AhciInv, IoStep
  PROVE  AhciInv'
<1>1. Typed /\ Io \in Thread /\ Io \notin User /\ User \subseteq Thread
      /\ asleep \in [Thread -> {"no", "req", "wq"}] /\ Disk \subseteq User /\ early' = early
      /\ asleep[Io] = "no"
  BY Types, IoAssumption, Zenon DEF AhciInv, Thread, IoStep, IoThread
<1>2. CASE IoThread /\ UNCHANGED diskVars
  <2>1. /\ CI' = CI /\ sactive' = sactive /\ cmd' = cmd /\ slot' = slot /\ old' = old
        /\ irq' = irq /\ done' = done /\ failed' = failed /\ wild' = wild
    BY <1>2, Zenon DEF diskVars
  <2>2. IoTop \/ IoDel \/ ConIoRequest \/ IoWake
    BY <1>2, Zenon DEF IoThread
  <2>3. IoTyped' /\ iopc' \in Outside /\ iopc \in Outside
    BY <1>1, <2>2, SchedulerTyped, TypedParts, Zenon
       DEF Outside, IoTop, IoDel, ConIoRequest, IoWake
  <2>4. DriveTyped'
    BY <1>1, <2>1, <2>3, TypedParts, Zenon DEF DriveTyped, Outside
  <2>5. torn => torn'
    BY <2>2, Zenon DEF IoTop, IoDel, ConIoRequest, IoWake, Write
  <2>6. ~torn' => ListInv' /\ CtlInv'
    BY <1>1, <2>2, <2>5, IoTopStep, IoDelStep, IoWakeStep, DriverServes, ServeStep, Zenon DEF AhciInv
  <2>7. asleep'[Io] = asleep[Io]
    <3>1. CASE IoWake
      <4>1. req \in User
        BY <1>1, <3>1, Types, Zenon DEF IoWake
      <4>2. QED
        BY <1>1, <3>1, <4>1, Zenon DEF IoWake, pt_wakeup
    <3>2. CASE IoTop \/ IoDel \/ ConIoRequest
      BY <3>2, Zenon DEF IoTop, IoDel, ConIoRequest
    <3>3. QED
      BY <2>2, <3>1, <3>2, Zenon
  <2>8. ~early' => DiskInv'
    BY <1>1, <2>1, <2>3, <2>7, DiskSame, Zenon DEF AhciInv
  <2>9. \A u \in Disk : io_state'[u] = "COMPLETED" => io_state[u] = "COMPLETED"
    <3>1. CASE ConIoRequest
      <4>1. req \notin Disk /\ io_state' = [io_state EXCEPT ![req] = "COMPLETED"]
        BY <3>1, Zenon DEF ConIoRequest
      <4>2. QED
        BY <1>1, <4>1, Types, Zenon
    <3>2. CASE IoTop \/ IoDel \/ IoWake
      BY <3>2, Zenon DEF IoTop, IoDel, IoWake
    <3>3. QED
      BY <2>2, <3>1, <3>2, Zenon
  <2>10. ~torn' /\ ~early' => DoneInv'
    BY <1>1, <2>1, <2>3, <2>5, <2>9, Zenon DEF AhciInv, DoneInv, Outside
  <2>11. QED
    BY <2>3, <2>4, <2>6, <2>8, <2>10, TypedPartsNext, Zenon DEF AhciInv
<1>3. CASE DriverStep
  <2>1. Typed' /\ Serves /\ torn' = torn
    BY <1>1, <1>3, DriverTyped, DriverServes, Zenon
  <2>2. ~torn' => ListInv' /\ CtlInv'
    BY <1>1, <2>1, ServeStep, Zenon DEF AhciInv
  <2>3. ~early' => DiskInv'
    BY <1>1, <1>3, DriverDisk, Zenon DEF AhciInv
  <2>4. ~torn' /\ ~early' => DoneInv'
    BY <1>1, <1>3, <2>1, DriverDone, Zenon DEF AhciInv
  <2>5. QED
    BY <2>1, <2>2, <2>3, <2>4, Zenon DEF AhciInv
<1>4. QED
  BY <1>2, <1>3, Zenon DEF IoStep, DriverStep

LEMMA DriveKeeps ==
  ASSUME AhciInv, DriveStep \/ IrqStep
  PROVE  AhciInv'
<1>1. Typed /\ early' = early /\ ((\E s \in Slot : DriveDone(s)) \/ DriveError \/ AhciInterrupt)
  BY Zenon DEF AhciInv, DriveStep, IrqStep
<1>2. /\ m' = m /\ io_state' = io_state /\ pc' = pc /\ iopc' = iopc /\ req' = req
      /\ torn' = torn
  BY <1>1, Zenon DEF DriveDone, DriveError, AhciInterrupt, ioVars
<1>3. Typed' /\ \A u \in User : asleep'[u] = asleep[u]
  BY <1>1, DriveStepTyped, Zenon
<1>4. ~torn' => ListInv' /\ CtlInv'
  BY <1>1, <1>2, <1>3, DriveSteps, Zenon DEF AhciInv
<1>5. ~early' => DiskInv'
  BY <1>1, DriveDisk, Zenon DEF AhciInv
<1>6. ~torn' /\ ~early' => DoneInv'
  BY <1>1, <1>2, DriveCarriesOut, Zenon DEF AhciInv
<1>7. QED
  BY <1>3, <1>4, <1>5, <1>6, Zenon DEF AhciInv

LEMMA AhciInvStep ==
  ASSUME AhciInv, [AhciNext]_ahciVars
  PROVE  AhciInv'
<1>1. CASE UNCHANGED ahciVars
  <2>1. /\ m' = m /\ io_state' = io_state /\ asleep' = asleep /\ pc' = pc /\ iopc' = iopc
        /\ req' = req /\ torn' = torn /\ missed' = missed
    BY <1>1, Zenon DEF ahciVars, ioVars
  <2>2. /\ CI' = CI /\ sactive' = sactive /\ cmd' = cmd /\ slot' = slot /\ old' = old
        /\ irq' = irq /\ done' = done /\ failed' = failed /\ wild' = wild /\ early' = early
    BY <1>1, Zenon DEF ahciVars, diskVars
  <2>3. Typed => Typed'
    <3>1. IoTyped => IoTyped'
      BY <2>1, Zenon DEF IoTyped, IoTypeOK
    <3>2. DriveTyped => DriveTyped'
      BY <2>1, <2>2, Zenon DEF DriveTyped
    <3>3. QED
      BY <3>1, <3>2, TypedParts, TypedPartsNext, Zenon
  <2>4. OnList' = OnList
    BY <2>1, Zenon DEF OnList
  <2>5. ListInv => ListInv'
    BY <2>1, <2>4, SameList, Zenon
  <2>6. CtlInv => CtlInv'
    BY <2>1, Zenon DEF CtlInv
  <2>7. DiskInv => DiskInv'
    BY <2>1, <2>2, Zenon DEF DiskInv, AtDrive
  <2>8. DoneInv => DoneInv'
    BY <2>1, <2>2, Zenon DEF DoneInv, AtDrive
  <2>9. QED
    BY <2>1, <2>2, <2>3, <2>5, <2>6, <2>7, <2>8, Zenon DEF AhciInv
<1>2. QED
  BY <1>1, UserKeeps, SchedulerKeeps, DriveKeeps, Zenon DEF AhciNext

(* A queued request is met by io_schedule's walk, whatever statement of a  *)
(* list operation has been reached.                                        *)
LEMMA QueuedIsReached ==
  ASSUME Typed, ListInv
  PROVE  OnList \subseteq Reached
<1> DEFINE n == m.next
           p == m.prev
<1>1. /\ n \in [Node -> Node] /\ p \in [Node -> Node] /\ OnList \in SUBSET User
      /\ Root \in Node /\ Root \notin User /\ User \subseteq Node
      /\ iopc # "top" => req \in User
  BY Types, Zenon
<1>2. SUFFICES ASSUME NEW u \in OnList, NEW S \in SUBSET Node, Root \in S, \A x \in S : n[x] \in S
               PROVE  u \in S
  BY <1>1, Zenon DEF Reached, Node
<1>3. ASSUME NEW a \in [Node -> Node], NEW b, Whole(a, b, OnList),
             \A x \in Node : a[x] = n[x] \/ a[x] = x \/ a[x] = Root
      PROVE  u \in S
  <2>1. Closed(a, S)
    BY <1>2, <1>3, Zenon DEF Closed
  <2>2. QED
    BY <1>2, <1>3, <2>1, Zenon DEF Whole
<1>4. CASE iopc \notin Deleting /\ \A v \in User : pc[v] \notin Posting
  BY <1>1, <1>3, <1>4, ListOpens, Zenon
<1>5. ASSUME NEW v \in User, pc[v] \in Posting
      PROVE  u \in S
  <2>1. CASE pc[v] = "post2"
    <3>1. Whole([n EXCEPT ![v] = Root], [p EXCEPT ![v] = p[Root], ![Root] = v], OnList)
      BY <2>1, Zenon DEF ListInv
    <3>2. /\ [n EXCEPT ![v] = Root] \in [Node -> Node]
          /\ \A x \in Node : [n EXCEPT ![v] = Root][x] \in {n[x], Root}
      BY <1>1, Zenon
    <3>3. QED
      BY <1>3, <3>1, <3>2, Zenon
  <2>2. CASE pc[v] = "post3"
    BY <1>1, <1>3, <2>2, Zenon DEF ListInv
  <2>3. CASE pc[v] = "post4"
    BY <1>1, <1>3, <2>3, Zenon DEF ListInv
  <2>4. QED
    BY <1>5, <2>1, <2>2, <2>3, Zenon DEF Posting
<1>6. CASE iopc \in Deleting
  <2>1. /\ [n EXCEPT ![req] = req] \in [Node -> Node]
        /\ \A x \in Node : [n EXCEPT ![req] = req][x] \in {n[x], x}
    BY <1>1, <1>6, Zenon DEF Deleting
  <2>2. \E b : Whole([n EXCEPT ![req] = req], b, OnList)
    BY <1>6, Zenon DEF ListInv, Deleting
  <2>3. QED
    BY <1>3, <2>1, <2>2, Zenon
<1>7. QED
  BY <1>4, <1>5, <1>6, Zenon

LEMMA AhciInvIsEnough ==
  ASSUME AhciInv
  PROVE  RequestsKept
<1>1. Typed /\ AhciTypeOK /\ Disk \subseteq User
  BY IoAssumption, Zenon DEF AhciInv, Typed
<1>2. NoneForgotten
  <2>1. SUFFICES ASSUME ~torn, NEW u \in User, asleep[u] = "req", io_state[u] = "PENDING", req # u
                 PROVE  u \in Reached
    BY Zenon DEF NoneForgotten
  <2>2. ListInv /\ CtlInv
    BY <2>1, Zenon DEF AhciInv
  <2>3. pc[u] \in {"sent", "posted"}
    BY <2>1, <2>2, Zenon DEF CtlInv
  <2>4. u \in OnList
    BY <2>1, <2>3, Zenon DEF OnList, Queued
  <2>5. QED
    BY <1>1, <2>2, <2>4, QueuedIsReached, Zenon
<1>3. InServiceLive
  <2>1. SUFFICES ASSUME ~torn, req \in User
                 PROVE  io_state[req] # "freed"
    BY Zenon DEF InServiceLive
  <2>2. QED
    BY <1>1, <2>1, Types, Zenon DEF AhciInv, CtlInv
<1>4. Transferred
  BY Zenon DEF Transferred, AhciInv, DoneInv
<1>5. SactiveCovers
  <2>1. SUFFICES ASSUME ~early
                 PROVE  CI \subseteq sactive /\ Cardinality(CI) <= 1 /\ ~wild
    BY Zenon DEF SactiveCovers
  <2>2. ~wild /\ (CI = {} \/ (CI = {slot} /\ sactive = {slot}))
    BY <2>1, Zenon DEF AhciInv, DiskInv, AtDrive
  <2>3. Cardinality({}) = 0 /\ Cardinality({slot}) = 1
    BY FS_EmptySet, FS_Singleton, Zenon
  <2>4. CI \subseteq sactive
    BY <2>2, Zenon
  <2>5. Cardinality(CI) <= 1
    BY <2>2, <2>3
  <2>6. QED
    BY <2>2, <2>4, <2>5, Zenon
<1>6. QED
  BY <1>1, <1>2, <1>3, <1>4, <1>5, Zenon DEF RequestsKept

(* For any callers and any number of slots: while list operations of       *)
(* io_dev.c do not overlap, no request is forgotten or freed in service;   *)
(* while nobody wakes io_scheduler out of its wait, ahci.c has one command *)
(* at a time, knows it, and reports done only what the drive carried out.  *)
THEOREM RequestsAreKept == AhciSpec => []RequestsKept
<1>1. AhciInit => AhciInv
  BY AhciInvInit, Zenon
<1>2. AhciInv /\ [AhciNext]_ahciVars => AhciInv'
  BY AhciInvStep, Zenon
<1>3. AhciInv => RequestsKept
  BY AhciInvIsEnough, Zenon
<1>4. QED
  BY <1>1, <1>2, <1>3, PTL DEF AhciSpec
=============================================================================
