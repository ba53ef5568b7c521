---------------------------- MODULE Grid_proofs ----------------------------
(***************************************************************************)
(* Proofs about the ids of the grid loop: while the workers reduce, no     *)
(* agent id is live or free in two partitions, and every partition is one  *)
(* its receiver accepts - for any net, any allocation, any number of       *)
(* workers and any round up to the one whose ranges are clamped by the     *)
(* width of the ids or used up by a worker; entangled pairs included.      *)
(*                                                                         *)
(* The argument follows the ids of one net.  Arena(n) says that they are   *)
(* accounted for: the free list names dead ids, each once, and nothing in  *)
(* use has reached next_id.  Grows(n, m, k) says that m came out of n with *)
(* at most k ids more, all of them from next_id on.  A worker starts with  *)
(* next_id at the beginning of its own range, so what it adds is its own.  *)
(***************************************************************************)
EXTENDS Grid, FiniteSetTheorems, WellFoundedInduction, TLAPS

IsSeq(q) == \E S : q \in Seq(S)

NetRecord(n) ==
    n = [agents |-> n.agents, ports |-> n.ports, queue |-> n.queue,
         next_id |-> n.next_id, free_list |-> n.free_list,
         redirects |-> n.redirects, shadow |-> n.shadow,
         protected |-> n.protected, policy |-> n.policy, root |-> n.root]

Used(n) == Live(n) \cup ToSet(n.free_list)

Arena(n) ==
    /\ NetRecord(n)
    /\ n.agents \in [AgentIds -> Symbols \cup {None}]
    /\ IsSeq(n.queue)
    /\ n.next_id \in Nat
    /\ n.free_list \in Seq(AgentIds)
    /\ validate_free_list(n)
    /\ \A i \in Used(n) : i < n.next_id

Grows(n, m, k) ==
    /\ Arena(m)
    /\ n.next_id <= m.next_id
    /\ m.next_id <= n.next_id + k
    /\ \A i \in Used(m) : i \in Used(n) \/ n.next_id <= i

(* Only wires, the queue and the redirects differ.                         *)
Rewired(n, m) ==
    /\ NetRecord(m)
    /\ m.agents = n.agents
    /\ m.next_id = n.next_id
    /\ m.free_list = n.free_list
    /\ IsSeq(m.queue)

-----------------------------------------------------------------------------
(* What is known of any sequence.                                          *)
LEMMA SequenceLength ==
    ASSUME NEW q, IsSeq(q)
    PROVE  Len(q) \in Nat /\ DOMAIN q = 1 .. Len(q)
BY DEF IsSeq

(* A sequence with one element more is a sequence.                         *)
LEMMA AppendSeq ==
    ASSUME NEW q, IsSeq(q), NEW e
    PROVE  IsSeq(Append(q, e))
<1>1. PICK S : q \in Seq(S)
    BY DEF IsSeq
<1>2. q \in Seq(S \cup {e})
    BY <1>1
<1>3. Append(q, e) \in Seq(S \cup {e})
    BY <1>2
<1> QED
    BY <1>3 DEF IsSeq

(* Two sequences in a row are a sequence.                                  *)
LEMMA ConcatSeq ==
    ASSUME NEW q, IsSeq(q), NEW r, IsSeq(r)
    PROVE  IsSeq(q \o r)
<1>1. PICK S : q \in Seq(S)
    BY DEF IsSeq
<1>2. PICK T : r \in Seq(T)
    BY DEF IsSeq
<1>3. q \in Seq(S \cup T) /\ r \in Seq(S \cup T)
    BY <1>1, <1>2
<1>4. q \o r \in Seq(S \cup T)
    BY <1>3
<1> QED
    BY <1>4 DEF IsSeq

(* A sequence without its first element is a sequence.                     *)
LEMMA TailSeq ==
    ASSUME NEW q, IsSeq(q), NEW k \in 1 .. Len(q)
    PROVE  IsSeq(SubSeq(q, k + 1, Len(q)))
<1>1. PICK S : q \in Seq(S)
    BY DEF IsSeq
<1>2. SubSeq(q, k + 1, Len(q)) \in Seq(S)
    BY <1>1
<1> QED
    BY <1>2 DEF IsSeq

-----------------------------------------------------------------------------
(* Wiring.                                                                 *)
LEMMA RewiredSelf ==
    ASSUME NEW n, NetRecord(n), IsSeq(n.queue)
    PROVE  Rewired(n, n)
BY DEF Rewired

(* Two rewirings in a row are one.                                         *)
LEMMA RewiredAgain ==
    ASSUME NEW n, NEW m, NEW o, Rewired(n, m), Rewired(m, o)
    PROVE  Rewired(n, o)
BY DEF Rewired

(* A rewiring leaves the ids as they are.                                  *)
LEMMA RewiredGrows ==
    ASSUME NEW n, Arena(n), NEW m, Rewired(n, m)
    PROVE  Grows(n, m, 0)
<1>1. Used(m) = Used(n)
    BY DEF Rewired, Used, Live
<1>2. validate_free_list(m)
    BY DEF Rewired, Arena, validate_free_list
<1>3. Arena(m)
    BY <1>1, <1>2 DEF Rewired, Arena
<1> QED
    BY <1>1, <1>3 DEF Grows, Rewired, Arena

(* set_port only rewires.                                                  *)
LEMMA SetPortRewires ==
    ASSUME NEW n, NetRecord(n), IsSeq(n.queue), NEW r, NEW target
    PROVE  Rewired(n, set_port(n, r, target))
<1>1. CASE IsAgentPort(r)
    <2> DEFINE ps == [n.ports EXCEPT ![r[2]][r[3]] = target]
    <2>1. set_port(n, r, target) = [n EXCEPT !.ports = ps]
        BY <1>1 DEF set_port, NetRecord
    <2> HIDE DEF ps
    <2> QED
        BY <2>1 DEF Rewired, NetRecord
<1>2. CASE ~IsAgentPort(r)
    BY <1>2 DEF set_port, Rewired
<1> QED
    BY <1>1, <1>2

(* disconnect only rewires.                                                *)
LEMMA DisconnectRewires ==
    ASSUME NEW n, NetRecord(n), IsSeq(n.queue), NEW r
    PROVE  Rewired(n, disconnect(n, r))
<1> DEFINE m == set_port(n, get_target(n, r), DISCONNECTED)
<1>1. Rewired(n, m)
    BY SetPortRewires
<1>2. Rewired(m, set_port(m, r, DISCONNECTED))
    BY <1>1, SetPortRewires DEF Rewired
<1> QED
    BY <1>1, <1>2, RewiredAgain DEF disconnect

(* connect only rewires, whatever it queues or remembers in redirects.     *)
LEMMA ConnectRewires ==
    ASSUME NEW n, NetRecord(n), IsSeq(n.queue), NEW a, NEW b
    PROVE  Rewired(n, connect(n, a, b))
<1> DEFINE m == set_port(n, a, b)
           o == set_port(m, b, a)
           pushed == IF IsPrincipal(a) /\ IsPrincipal(b)
                     THEN Append(o.queue, <<a[2], b[2]>>) ELSE o.queue
           red == Redirected(n, a, b)
<1>1. Rewired(n, m)
    BY SetPortRewires
<1>2. Rewired(m, o)
    BY <1>1, SetPortRewires DEF Rewired
<1>3. Rewired(n, o)
    BY <1>1, <1>2, RewiredAgain
<1>4. connect(n, a, b) = [[o EXCEPT !.redirects = red] EXCEPT !.queue = pushed]
    <2>1. connect(n, a, b) = [o EXCEPT !.redirects = red, !.queue = pushed]
        BY DEF connect
    <2> HIDE DEF o, red, pushed
    <2> QED
        BY <2>1, <1>3 DEF Rewired, NetRecord
<1>5. IsSeq(pushed)
    <2> HIDE DEF o
    <2> QED
        BY <1>3, AppendSeq DEF Rewired
<1> HIDE DEF o, red, pushed
<1> QED
    BY <1>3, <1>4, <1>5 DEF Rewired, NetRecord

(* link only rewires, also where it skips a removed agent.                 *)
LEMMA LinkRewires ==
    ASSUME NEW n, NetRecord(n), IsSeq(n.queue), NEW a, NEW b
    PROVE  Rewired(n, link(n, a, b))
BY ConnectRewires, RewiredSelf DEF link

-----------------------------------------------------------------------------
(* Removing and creating agents.                                           *)
LEMMA UsedIds ==
    ASSUME NEW n, Arena(n)
    PROVE  /\ Used(n) \subseteq AgentIds
           /\ \A i \in Used(n) : i \in Nat
<1>1. ToSet(n.free_list) \subseteq AgentIds
    BY DEF Arena, ToSet
<1> QED
    BY <1>1, NetAssumption DEF Used, Live, AgentIds

(* A net grows into itself.                                                *)
LEMMA GrowsSelf ==
    ASSUME NEW n, Arena(n)
    PROVE  Grows(n, n, 0)
BY DEF Grows, Arena

(* Growth adds up.                                                         *)
LEMMA GrowsAgain ==
    ASSUME NEW n, Arena(n), NEW m, NEW o, NEW k \in Nat, NEW l \in Nat,
           Grows(n, m, k), Grows(m, o, l)
    PROVE  Grows(n, o, k + l)
<1>1. n.next_id \in Nat /\ m.next_id \in Nat /\ o.next_id \in Nat /\ Arena(m) /\ Arena(o)
    BY DEF Grows, Arena
<1>2. \A i \in Used(o) : i \in Nat
    BY <1>1, UsedIds
<1>3. \A i \in Used(o) : i \in Used(n) \/ n.next_id <= i
    BY <1>1, <1>2 DEF Grows
<1>4. n.next_id <= o.next_id /\ o.next_id <= n.next_id + (k + l)
    BY <1>1 DEF Grows
<1> QED
    BY <1>1, <1>3, <1>4 DEF Grows

(* A bound on the growth may be raised.                                    *)
LEMMA GrowsMore ==
    ASSUME NEW n, Arena(n), NEW m, NEW k \in Nat, NEW l \in Nat, Grows(n, m, k), k <= l
    PROVE  Grows(n, m, l)
<1>1. n.next_id \in Nat /\ m.next_id \in Nat
    BY DEF Grows, Arena
<1> QED
    BY <1>1 DEF Grows

(* A rewiring after a growth.                                              *)
LEMMA RewiredAfter ==
    ASSUME NEW n, Arena(n), NEW m, NEW o, NEW k \in Nat, Grows(n, m, k), Rewired(m, o)
    PROVE  Grows(n, o, k)
<1>1. Arena(m)
    BY DEF Grows
<1>2. Grows(m, o, 0)
    BY <1>1, RewiredGrows
<1>3. Grows(n, o, k + 0)
    BY <1>2, GrowsAgain
<1> QED
    BY <1>3

(* remove_agent moves an id from the live ones to the free list or drops   *)
(* it.                                                                     *)
LEMMA RemoveGrows ==
    ASSUME NEW n, Arena(n), NEW id
    PROVE  Grows(n, remove_agent(n, id), 0)
<1> DEFINE d0 == disconnect(n, AgentPort(id, 0))
           d1 == disconnect(d0, AgentPort(id, 1))
           d2 == disconnect(d1, AgentPort(id, 2))
           d  == IF arity(n.agents[id]) = 0 THEN d0 ELSE d2
           m  == remove_agent(n, id)
           f  == n.free_list
           ag == [n.agents EXCEPT ![id] = None]
           fl == IF is_border_protected(n, id) THEN f ELSE Append(f, id)
           red == PurgedRedirects(n, id)
<1>1. CASE id \notin Live(n)
    BY <1>1, GrowsSelf DEF remove_agent
<1>2. CASE id \in Live(n)
    <2>1. NetRecord(n) /\ IsSeq(n.queue)
        BY DEF Arena
    <2>2. Rewired(n, d0)
        BY <2>1, DisconnectRewires
    <2>3. Rewired(d0, d1)
        <3> HIDE DEF d0
        <3> QED
            BY <2>2, DisconnectRewires DEF Rewired
    <2>4. Rewired(d1, d2)
        <3> HIDE DEF d1
        <3> QED
            BY <2>3, DisconnectRewires DEF Rewired
    <2>5. Rewired(n, d)
        <3> HIDE DEF d0, d1, d2
        <3> QED
            BY <2>2, <2>3, <2>4, RewiredAgain
    <2>6. m = [d EXCEPT !.agents[id] = None, !.redirects = red,
                        !.free_list = IF is_border_protected(n, id) THEN @ ELSE Append(@, id)]
        BY <1>2 DEF remove_agent
    <2> HIDE DEF d
    <2>7. m = [[[d EXCEPT !.agents = ag] EXCEPT !.redirects = red] EXCEPT !.free_list = fl]
        <3>1. d.agents = n.agents /\ d.free_list = f
            BY <2>5 DEF Rewired
        <3>2. m = [d EXCEPT !.agents = ag, !.redirects = red, !.free_list = fl]
            BY <2>6, <3>1
        <3> HIDE DEF ag, red, fl, m
        <3> QED
            BY <2>5, <3>2 DEF Rewired, NetRecord
    <2>8. id \in AgentIds /\ n.agents[id] # None /\ n.agents \in [AgentIds -> Symbols \cup {None}]
        BY <1>2 DEF Live, Arena
    <2>9. f \in Seq(AgentIds) /\ Len(f) \in Nat /\ DOMAIN f = 1 .. Len(f)
          /\ (\A k \in DOMAIN f : n.agents[f[k]] = None)
          /\ (\A k, l \in DOMAIN f : f[k] = f[l] => k = l)
        BY DEF Arena, validate_free_list, IsInjective
    <2> DEFINE fresh == [i \in AgentIds |-> IF i = id THEN None ELSE n.agents[i]]
    <2>10. ag = fresh
        BY <2>8
    <2>11. \A k \in DOMAIN f : f[k] \in AgentIds /\ f[k] # id
        BY <2>8, <2>9
    <2>12. /\ fl \in Seq(AgentIds)
           /\ \A k \in DOMAIN fl : (k \in DOMAIN f /\ fl[k] = f[k]) \/ (k = Len(f) + 1 /\ fl[k] = id)
        BY <2>8, <2>9
    <2> HIDE DEF ag, red, fl, m, fresh, f
    <2>13. /\ m.agents = ag /\ m.free_list = fl /\ m.next_id = d.next_id /\ m.queue = d.queue
           /\ NetRecord(m)
        BY <2>5, <2>7 DEF Rewired, NetRecord
    <2>14. m.next_id = n.next_id /\ IsSeq(m.queue)
        BY <2>5, <2>13 DEF Rewired
    <2>15. ag \in [AgentIds -> Symbols \cup {None}]
        BY <2>8, <2>10 DEF fresh
    <2>16. validate_free_list(m)
        <3>1. \A k, l \in DOMAIN fl : fl[k] = fl[l] => k = l
            BY <2>9, <2>11, <2>12
        <3>2. \A k \in DOMAIN fl : ag[fl[k]] = None
            BY <2>8, <2>9, <2>10, <2>11, <2>12 DEF fresh
        <3> QED
            BY <2>13, <3>1, <3>2 DEF validate_free_list, IsInjective
    <2>17. Used(m) \subseteq Used(n)
        <3>1. Live(m) \subseteq Live(n)
            BY <2>8, <2>10, <2>13 DEF Live, fresh
        <3>2. ToSet(fl) \subseteq ToSet(f) \cup {id}
            BY <2>12 DEF ToSet
        <3> QED
            BY <1>2, <2>13, <3>1, <3>2 DEF Used, f
    <2>18. Arena(m)
        <3>1. n.next_id \in Nat /\ \A i \in Used(n) : i < n.next_id
            BY DEF Arena
        <3> QED
            BY <2>12, <2>13, <2>14, <2>15, <2>16, <2>17, <3>1 DEF Arena
    <2>19. n.next_id \in Nat
        BY DEF Arena
    <2> QED
        BY <2>14, <2>17, <2>18, <2>19 DEF Grows, m
<1> QED
    BY <1>1, <1>2

(* A bounded set of numbers has a largest one.                             *)
LEMMA LargestExists ==
    ASSUME NEW S, S # {}, NEW top \in Nat, S \subseteq 0 .. top
    PROVE  \E x \in S : \A y \in S : y <= x
<1> DEFINE I == {top - x : x \in S}
<1>1. I \subseteq Nat /\ I # {}
    <2>1. \A x \in S : top - x \in Nat
        OBVIOUS
    <2> QED
        BY <2>1
<1>2. PICK z \in I : \A y \in I : ~(<<y, z>> \in OpToRel(<, Nat))
    <2> HIDE DEF I
    <2> QED
        BY <1>1, NatLessThanWellFounded, WFMin
<1>3. PICK x \in S : z = top - x
    OBVIOUS
<1>4. ASSUME NEW y \in S PROVE y <= x
    <2>1. top - y \in I /\ z \in I
        OBVIOUS
    <2>2. top - y \in Nat /\ z \in Nat
        BY <1>1, <2>1
    <2>3. ~(top - y < z)
        BY <1>2, <2>1, <2>2 DEF OpToRel
    <2> QED
        BY <1>3, <2>2, <2>3
<1> QED
    BY <1>4

(* Max is the largest element of a finite set of numbers.                  *)
LEMMA LargestIs ==
    ASSUME NEW S, S # {}, NEW top \in Nat, S \subseteq 0 .. top
    PROVE  Max(S) \in S /\ \A y \in S : y <= Max(S)
<1>1. PICK x \in S : \A y \in S : y <= x
    BY LargestExists
<1>2. \A y \in S : x >= y
    BY <1>1
<1>3. Max(S) \in S /\ \A y \in S : Max(S) >= y
    BY <1>2 DEF Max
<1> QED
    BY <1>3

(* The position Recycled picks is one of the free list.                    *)
LEMMA RecycledIs ==
    ASSUME NEW n, Arena(n)
    PROVE  Recycled(n) \in 0 .. Len(n.free_list)
<1> DEFINE top == Len(n.free_list)
           u == {i \in 1 .. top : ~is_border_protected(n, n.free_list[i])}
<1>1. top \in Nat
    BY DEF Arena
<1>2. Recycled(n) = IF top = 0 \/ (n.protected /\ n.policy = "DisableUnderDelta") THEN 0
                    ELSE IF ~(n.protected /\ n.policy = "BorderClean") THEN top
                    ELSE IF u = {} THEN 0
                    ELSE CHOOSE i \in u : \A j \in u : j <= i
    BY DEF Recycled
<1>3. u \subseteq 0 .. top
    BY <1>1
<1> HIDE DEF top, u
<1>4. u # {} => (CHOOSE i \in u : \A j \in u : j <= i) \in u
    BY <1>1, <1>3, LargestExists
<1> DEFINE last == CHOOSE i \in u : \A j \in u : j <= i
<1>5. u # {} => last \in 0 .. top
    BY <1>3, <1>4
<1> HIDE DEF last
<1>6. Recycled(n) \in 0 .. top
    <2>1. 0 \in 0 .. top /\ top \in 0 .. top
        BY <1>1
    <2> QED
        BY <1>2, <1>5, <2>1 DEF last
<1> QED
    BY <1>6 DEF top

(* The free list with one position taken out.                              *)
LEMMA RemovedAt ==
    ASSUME NEW f \in Seq(AgentIds), NEW k \in 1 .. Len(f)
    PROVE  LET g == RemoveAt(f, k)
           IN  /\ g \in Seq(AgentIds)
               /\ DOMAIN g = 1 .. Len(f) - 1
               /\ \A j \in DOMAIN g : g[j] = IF j < k THEN f[j] ELSE f[j + 1]
<1> DEFINE head == SubSeq(f, 1, k - 1)
           rest == SubSeq(f, k + 1, Len(f))
           g == RemoveAt(f, k)
<1>1. Len(f) \in Nat
    OBVIOUS
<1>2. /\ head \in Seq(AgentIds) /\ Len(head) = k - 1
      /\ \A j \in 1 .. k - 1 : head[j] = f[j]
    BY <1>1
<1>3. /\ rest \in Seq(AgentIds) /\ Len(rest) = Len(f) - k
      /\ \A j \in 1 .. Len(f) - k : rest[j] = f[k + j]
    BY <1>1
<1>4. g = head \o rest
    BY DEF RemoveAt
<1> HIDE DEF head, rest, g
<1>5. g \in Seq(AgentIds) /\ Len(g) = Len(f) - 1
    BY <1>1, <1>2, <1>3, <1>4
<1>6. \A j \in 1 .. Len(f) - 1 : g[j] = IF j < k THEN f[j] ELSE f[j + 1]
    <2> SUFFICES ASSUME NEW j \in 1 .. Len(f) - 1
                 PROVE  g[j] = IF j < k THEN f[j] ELSE f[j + 1]
        OBVIOUS
    <2>1. CASE j < k
        <3>1. j \in 1 .. k - 1
            BY <1>1, <2>1
        <3> QED
            BY <1>2, <1>3, <1>4, <2>1, <3>1
    <2>2. CASE ~(j < k)
        <3>1. j - (k - 1) \in 1 .. Len(f) - k /\ k + (j - (k - 1)) = j + 1
            BY <1>1, <2>2
        <3>2. g[j] = rest[j - (k - 1)]
            BY <1>1, <1>2, <1>3, <1>4, <2>2, <3>1
        <3>3. rest[j - (k - 1)] = f[k + (j - (k - 1))]
            BY <1>3, <3>1
        <3> QED
            BY <2>2, <3>1, <3>2, <3>3
    <2> QED
        BY <2>1, <2>2
<1>7. DOMAIN g = 1 .. Len(f) - 1
    BY <1>5
<1> QED
    BY <1>5, <1>6, <1>7 DEF g

(* create_agent takes an id from the free list or the one of next_id.      *)
LEMMA CreateGrows ==
    ASSUME NEW n, Arena(n), NEW sym \in Symbols, HasRoomFor(n, 1)
    PROVE  Grows(n, create_agent(n, sym), 1)
<1> DEFINE m == create_agent(n, sym)
           k == Recycled(n)
           x == NewAgentId(n)
           f == n.free_list
           ag == [n.agents EXCEPT ![x] = sym]
           slot == [n EXCEPT !.agents = ag]
           next == [i \in AgentIds |-> IF i = x THEN sym ELSE n.agents[i]]
<1>1. /\ n.agents \in [AgentIds -> Symbols \cup {None}]
      /\ f \in Seq(AgentIds) /\ Len(f) \in Nat /\ DOMAIN f = 1 .. Len(f)
      /\ n.next_id \in Nat
      /\ \A i, j \in 1 .. Len(f) : f[i] = f[j] => i = j
      /\ \A i \in 1 .. Len(f) : f[i] \in AgentIds /\ n.agents[f[i]] = None
      /\ \A i \in Used(n) : i < n.next_id
    BY DEF Arena, validate_free_list, IsInjective
<1>2. NetRecord(slot) /\ slot.agents = ag /\ slot.queue = n.queue /\ slot.next_id = n.next_id
      /\ slot.free_list = f /\ slot.ports = n.ports
    <2>1. NetRecord(n)
        BY DEF Arena
    <2> HIDE DEF ag, f
    <2> QED
        BY <2>1 DEF NetRecord, f
<1>3. m = IF k = 0 THEN [slot EXCEPT !.next_id = @ + 1]
          ELSE [slot EXCEPT !.free_list = RemoveAt(@, k),
                            !.ports[x] = [p \in PortIds |-> DISCONNECTED]]
    BY DEF create_agent
<1>4. k \in 0 .. Len(f)
    BY RecycledIs
<1>5. x = IF k = 0 THEN n.next_id ELSE f[k]
    BY DEF NewAgentId
<1>6. x \in AgentIds => ag = next /\ ag \in [AgentIds -> Symbols \cup {None}]
    <2> HIDE DEF x
    <2> QED
        BY <1>1
<1>7. IsSeq(n.queue)
    BY DEF Arena
<1> HIDE DEF m, k, x, f, ag, slot
<1>8. CASE k = 0
    <2>1. x = n.next_id /\ x \in AgentIds
        BY <1>1, <1>5, <1>8, NetAssumption DEF HasRoomFor, AgentIds
    <2>2. m = [slot EXCEPT !.next_id = n.next_id + 1]
        BY <1>2, <1>3, <1>8
    <2>3. NetRecord(m) /\ m.agents = ag /\ m.queue = n.queue /\ m.next_id = n.next_id + 1
          /\ m.free_list = f
        BY <1>2, <2>2 DEF NetRecord
    <2>4. x \notin Used(n)
        BY <1>1, <2>1
    <2>5. \A i \in DOMAIN f : f[i] # x
        BY <2>4 DEF Used, ToSet, f
    <2>6. validate_free_list(m)
        BY <1>1, <1>6, <2>1, <2>3, <2>5 DEF validate_free_list, IsInjective
    <2>7. Used(m) \subseteq Used(n) \cup {x}
        <3>1. Live(m) \subseteq Live(n) \cup {x}
            BY <1>6, <2>1, <2>3 DEF Live
        <3> QED
            BY <2>3, <3>1 DEF Used, f
    <2>8. Arena(m)
        <3>1. \A i \in Used(m) : i < m.next_id
            <4>1. \A i \in Used(n) : i \in Nat
                BY UsedIds
            <4> QED
                BY <1>1, <2>1, <2>3, <2>7, <4>1
        <3>2. m.next_id \in Nat
            BY <1>1, <2>3
        <3> QED
            BY <1>1, <1>6, <1>7, <2>1, <2>3, <2>6, <3>1, <3>2 DEF Arena
    <2> QED
        BY <1>1, <2>1, <2>3, <2>7, <2>8 DEF Grows, m
<1>9. CASE k # 0
    <2> DEFINE g == RemoveAt(f, k)
               ps == [n.ports EXCEPT ![x] = [p \in PortIds |-> DISCONNECTED]]
    <2>1. k \in 1 .. Len(f) /\ x = f[k] /\ x \in AgentIds
        BY <1>1, <1>4, <1>5, <1>9
    <2>2. /\ g \in Seq(AgentIds)
          /\ DOMAIN g = 1 .. Len(f) - 1
          /\ \A j \in DOMAIN g : g[j] = IF j < k THEN f[j] ELSE f[j + 1]
        BY <1>1, <2>1, RemovedAt
    <2>3. m = [slot EXCEPT !.free_list = g, !.ports = ps]
        BY <1>2, <1>3, <1>9
    <2> HIDE DEF g, ps
    <2>4. m = [[slot EXCEPT !.free_list = g] EXCEPT !.ports = ps]
        BY <1>2, <2>3 DEF NetRecord
    <2>5. NetRecord(m) /\ m.agents = ag /\ m.queue = n.queue /\ m.next_id = n.next_id
          /\ m.free_list = g
        BY <1>2, <2>4 DEF NetRecord
    <2>6. \A j \in DOMAIN g : \E i \in 1 .. Len(f) : g[j] = f[i] /\ i # k
                                /\ i = IF j < k THEN j ELSE j + 1
        <3> SUFFICES ASSUME NEW j \in DOMAIN g
                     PROVE  \E i \in 1 .. Len(f) : g[j] = f[i] /\ i # k
                                /\ i = IF j < k THEN j ELSE j + 1
            OBVIOUS
        <3>1. CASE j < k
            BY <1>1, <2>1, <2>2, <3>1
        <3>2. CASE ~(j < k)
            BY <1>1, <2>1, <2>2, <3>2
        <3> QED
            BY <3>1, <3>2
    <2>7. \A j \in DOMAIN g : g[j] # x /\ g[j] \in AgentIds /\ n.agents[g[j]] = None
        BY <1>1, <2>1, <2>6
    <2>8. validate_free_list(m)
        <3>1. ASSUME NEW i \in DOMAIN g, NEW j \in DOMAIN g, g[i] = g[j] PROVE i = j
            <4>1. PICK u \in 1 .. Len(f) : g[i] = f[u] /\ u = IF i < k THEN i ELSE i + 1
                BY <2>6
            <4>2. PICK v \in 1 .. Len(f) : g[j] = f[v] /\ v = IF j < k THEN j ELSE j + 1
                BY <2>6
            <4>3. u = v
                BY <1>1, <3>1, <4>1, <4>2
            <4>4. i \in Int /\ j \in Int
                BY <2>2
            <4> QED
                BY <2>1, <4>1, <4>2, <4>3, <4>4
        <3>2. \A j \in DOMAIN g : ag[g[j]] = None
            BY <1>6, <2>1, <2>7
        <3> QED
            BY <2>5, <3>1, <3>2 DEF validate_free_list, IsInjective
    <2>9. Used(m) \subseteq Used(n)
        <3>1. Live(m) \subseteq Live(n) \cup {x}
            BY <1>6, <2>1, <2>5 DEF Live
        <3>2. ToSet(g) \subseteq ToSet(f) /\ x \in ToSet(f)
            BY <1>1, <2>1, <2>6 DEF ToSet
        <3> QED
            BY <2>5, <3>1, <3>2 DEF Used, f
    <2>10. Arena(m)
        BY <1>1, <1>6, <1>7, <2>1, <2>2, <2>5, <2>8, <2>9 DEF Arena
    <2> QED
        BY <1>1, <2>5, <2>9, <2>10 DEF Grows, m
<1> QED
    BY <1>8, <1>9

-----------------------------------------------------------------------------
(* The rules: at most four agents more.                                    *)
LEMMA RemoveAfter ==
    ASSUME NEW n, Arena(n), NEW m, NEW k \in Nat, Grows(n, m, k), NEW id
    PROVE  Grows(n, remove_agent(m, id), k)
<1>1. Arena(m)
    BY DEF Grows
<1>2. Grows(m, remove_agent(m, id), 0)
    BY <1>1, RemoveGrows
<1>3. Grows(n, remove_agent(m, id), k + 0)
    BY <1>2, GrowsAgain
<1> QED
    BY <1>3

(* create_agent after a growth.                                            *)
LEMMA CreateAfter ==
    ASSUME NEW n, Arena(n), NEW m, NEW k \in Nat, Grows(n, m, k),
           HasRoomFor(n, k + 1), NEW sym \in Symbols
    PROVE  Grows(n, create_agent(m, sym), k + 1)
<1>1. Arena(m) /\ n.next_id \in Nat /\ m.next_id \in Nat /\ m.next_id <= n.next_id + k
    BY DEF Grows, Arena
<1>2. HasRoomFor(m, 1)
    BY <1>1, NetAssumption DEF HasRoomFor
<1>3. Grows(m, create_agent(m, sym), 1)
    BY <1>1, <1>2, CreateGrows
<1> QED
    BY <1>3, GrowsAgain

(* connect after a growth.                                                 *)
LEMMA ConnectAfter ==
    ASSUME NEW n, Arena(n), NEW m, NEW k \in Nat, Grows(n, m, k), NEW a, NEW b
    PROVE  /\ Grows(n, connect(m, a, b), k)
           /\ Grows(n, link(m, a, b), k)
<1>1. NetRecord(m) /\ IsSeq(m.queue)
    BY DEF Grows, Arena
<1>2. Rewired(m, connect(m, a, b)) /\ Rewired(m, link(m, a, b))
    BY <1>1, ConnectRewires, LinkRewires
<1> QED
    BY <1>2, RewiredAfter

(* Every rule takes at most four ids from next_id, whatever the pair is    *)
(* wired to.                                                               *)
LEMMA RulesGrow ==
    ASSUME NEW n, Arena(n), NEW a, NEW b, HasRoomFor(n, 4)
    PROVE  /\ Grows(n, interact_void(n, a, b), 4)
           /\ Grows(n, interact_anni(n, a, b), 4)
           /\ Grows(n, interact_eras(n, a, b), 4)
           /\ Grows(n, interact_comm(n, a, b), 4)
<1> DEFINE m == remove_agent(remove_agent(n, a), b)
           a1 == Aux(n, a, 1)
           a2 == Aux(n, a, 2)
           b1 == Aux(n, b, 1)
           b2 == Aux(n, b, 2)
<1>1. Grows(n, m, 0)
    <2>1. Grows(n, remove_agent(n, a), 0)
        BY RemoveGrows
    <2> QED
        BY <2>1, RemoveAfter
<1>2. \A k \in 0 .. 3 : HasRoomFor(n, k + 1)
    <2>1. n.next_id \in Nat
        BY DEF Arena
    <2> QED
        BY <2>1, NetAssumption DEF HasRoomFor
<1>3. \A o : (\E k \in 0 .. 4 : Grows(n, o, k)) => Grows(n, o, 4)
    BY GrowsMore
<1>4. interact_void(n, a, b) = m
    BY DEF interact_void
<1>5. interact_anni(n, a, b) =
           CASE SelfLoop(n, a) /\ SelfLoop(n, b) -> m
             [] SelfLoop(n, b) /\ ~SelfLoop(n, a) -> link(m, a1, a2)
             [] SelfLoop(n, a) /\ ~SelfLoop(n, b) -> link(m, b1, b2)
             [] OTHER -> IF n.agents[a] = "Con"
                         THEN link(link(m, a1, b2), a2, b1)
                         ELSE link(link(m, a1, b1), a2, b2)
    BY DEF interact_anni
<1>6. interact_eras(n, a, b) =
           LET e1 == NewAgentId(m)
               m1 == create_agent(m, "Era")
               e2 == NewAgentId(m1)
               m2 == create_agent(m1, "Era")
           IN  IF SelfLoop(n, a) THEN m
               ELSE link(link(m2, AgentPort(e1, 0), a1), AgentPort(e2, 0), a2)
    BY DEF interact_eras
<1>7. interact_comm(n, a, b) =
           CASE SelfLoop(n, a) /\ SelfLoop(n, b) -> m
             [] SelfLoop(n, a) /\ ~SelfLoop(n, b) -> CopySelfLoop(m, "Con", b1, b2)
             [] SelfLoop(n, b) /\ ~SelfLoop(n, a) -> CopySelfLoop(m, "Dup", a1, a2)
             [] OTHER -> Commuted(m, a1, a2, b1, b2)
    BY DEF interact_comm
<1> HIDE DEF m, a1, a2, b1, b2
<1>8. Grows(n, interact_anni(n, a, b), 0)
    <2>1. \A x, y : Grows(n, link(m, x, y), 0)
        BY <1>1, ConnectAfter
    <2>2. \A x, y, z, w : Grows(n, link(link(m, x, y), z, w), 0)
        BY <2>1, ConnectAfter
    <2>3. CASE SelfLoop(n, a) /\ SelfLoop(n, b)
        BY <1>1, <1>5, <2>3
    <2>4. CASE SelfLoop(n, b) /\ ~SelfLoop(n, a)
        BY <1>5, <2>1, <2>4
    <2>5. CASE SelfLoop(n, a) /\ ~SelfLoop(n, b)
        BY <1>5, <2>1, <2>5
    <2>6. CASE ~SelfLoop(n, a) /\ ~SelfLoop(n, b)
        <3>1. interact_anni(n, a, b) = IF n.agents[a] = "Con"
                                       THEN link(link(m, a1, b2), a2, b1)
                                       ELSE link(link(m, a1, b1), a2, b2)
            BY <1>5, <2>6
        <3> QED
            BY <2>2, <3>1
    <2> QED
        BY <2>3, <2>4, <2>5, <2>6
<1>9. ASSUME NEW sym \in Symbols
      PROVE  LET m1 == create_agent(m, sym)
                 m2 == create_agent(m1, sym)
             IN  Grows(n, m2, 2)
    <2> DEFINE m1 == create_agent(m, sym)
    <2>1. HasRoomFor(n, 0 + 1) /\ HasRoomFor(n, 1 + 1)
        BY <1>2
    <2>2. Grows(n, m1, 0 + 1)
        BY <1>1, <2>1, CreateAfter
    <2> HIDE DEF m1
    <2>3. Grows(n, create_agent(m1, sym), 1 + 1)
        BY <2>1, <2>2, CreateAfter
    <2> QED
        BY <2>3 DEF m1
<1>10. Grows(n, interact_eras(n, a, b), 4)
    <2> DEFINE e1 == NewAgentId(m)
               m1 == create_agent(m, "Era")
               e2 == NewAgentId(m1)
               m2 == create_agent(m1, "Era")
    <2>1. Grows(n, m2, 2)
        BY <1>9 DEF Symbols
    <2>2. interact_eras(n, a, b) =
              IF SelfLoop(n, a) THEN m
              ELSE link(link(m2, AgentPort(e1, 0), a1), AgentPort(e2, 0), a2)
        BY <1>6
    <2> HIDE DEF m2, e1, e2
    <2>3. Grows(n, link(m2, AgentPort(e1, 0), a1), 2)
        BY <2>1, ConnectAfter
    <2>4. Grows(n, link(link(m2, AgentPort(e1, 0), a1), AgentPort(e2, 0), a2), 2)
        BY <2>3, ConnectAfter
    <2>5. 0 \in 0 .. 4 /\ 2 \in 0 .. 4
        OBVIOUS
    <2> QED
        BY <1>1, <1>3, <2>2, <2>4, <2>5
<1>11. ASSUME NEW sym \in {"Con", "Dup"}, NEW w1, NEW w2
       PROVE  Grows(n, CopySelfLoop(m, sym, w1, w2), 4)
    <2> DEFINE x  == NewAgentId(m)
               m1 == create_agent(m, sym)
               y  == NewAgentId(m1)
               m2 == create_agent(m1, sym)
               mx == connect(m2, AgentPort(x, 1), AgentPort(x, 2))
               my == connect(mx, AgentPort(y, 1), AgentPort(y, 2))
               mw == link(my, AgentPort(x, 0), w1)
               mz == link(mw, AgentPort(y, 0), w2)
    <2>1. CopySelfLoop(m, sym, w1, w2) = mz
        BY DEF CopySelfLoop
    <2>2. Grows(n, m2, 2)
        BY <1>9 DEF Symbols
    <2> HIDE DEF m2, x, y
    <2>3. Grows(n, mx, 2)
        BY <2>2, ConnectAfter
    <2> HIDE DEF mx
    <2>4. Grows(n, my, 2)
        BY <2>3, ConnectAfter
    <2> HIDE DEF my
    <2>5. Grows(n, mw, 2)
        BY <2>4, ConnectAfter
    <2> HIDE DEF mw
    <2>6. Grows(n, mz, 2)
        BY <2>5, ConnectAfter
    <2> HIDE DEF mz
    <2>7. 2 \in 0 .. 4
        OBVIOUS
    <2> QED
        BY <1>3, <2>1, <2>6, <2>7
<1>12. Grows(n, Commuted(m, a1, a2, b1, b2), 4)
    <2> DEFINE p  == NewAgentId(m)
               m1 == create_agent(m, "Dup")
               q  == NewAgentId(m1)
               m2 == create_agent(m1, "Dup")
               r  == NewAgentId(m2)
               m3 == create_agent(m2, "Con")
               s  == NewAgentId(m3)
               m4 == create_agent(m3, "Con")
               P(k) == AgentPort(p, k)
               Q(k) == AgentPort(q, k)
               R(k) == AgentPort(r, k)
               S(k) == AgentPort(s, k)
               x1 == link(m4, P(0), a1)
               x2 == link(x1, Q(0), a2)
               x3 == link(x2, R(0), b1)
               x4 == link(x3, S(0), b2)
               i1 == connect(x4, P(1), R(1))
               i2 == connect(i1, P(2), S(1))
               i3 == connect(i2, Q(1), R(2))
               i4 == connect(i3, Q(2), S(2))
    <2>1. Commuted(m, a1, a2, b1, b2) = i4
        BY DEF Commuted
    <2>2. Grows(n, m2, 2)
        BY <1>9 DEF Symbols
    <2> HIDE DEF m2, p, q
    <2>3. HasRoomFor(n, 2 + 1) /\ HasRoomFor(n, 3 + 1)
        BY <1>2
    <2>4. Grows(n, m3, 2 + 1)
        BY <2>2, <2>3, CreateAfter DEF Symbols
    <2> HIDE DEF m3, r
    <2>5. Grows(n, m4, 3 + 1)
        BY <2>3, <2>4, CreateAfter DEF Symbols
    <2>6. Grows(n, m4, 4)
        BY <2>5
    <2> HIDE DEF m4, s, P, Q, R, S
    <2>7. Grows(n, x1, 4)
        BY <2>6, ConnectAfter
    <2> HIDE DEF x1
    <2>8. Grows(n, x2, 4)
        BY <2>7, ConnectAfter
    <2> HIDE DEF x2
    <2>9. Grows(n, x3, 4)
        BY <2>8, ConnectAfter
    <2> HIDE DEF x3
    <2>10. Grows(n, x4, 4)
        BY <2>9, ConnectAfter
    <2> HIDE DEF x4
    <2>11. Grows(n, i1, 4)
        BY <2>10, ConnectAfter
    <2> HIDE DEF i1
    <2>12. Grows(n, i2, 4)
        BY <2>11, ConnectAfter
    <2> HIDE DEF i2
    <2>13. Grows(n, i3, 4)
        BY <2>12, ConnectAfter
    <2> HIDE DEF i3
    <2>14. Grows(n, i4, 4)
        BY <2>13, ConnectAfter
    <2> QED
        BY <2>1, <2>14
<1>13. Grows(n, interact_comm(n, a, b), 4)
    <2>1. CASE SelfLoop(n, a) /\ SelfLoop(n, b)
        <3>1. interact_comm(n, a, b) = m /\ 0 \in 0 .. 4
            BY <1>7, <2>1
        <3> QED
            BY <1>1, <1>3, <3>1
    <2>2. CASE SelfLoop(n, a) /\ ~SelfLoop(n, b)
        <3>1. interact_comm(n, a, b) = CopySelfLoop(m, "Con", b1, b2)
            BY <1>7, <2>2
        <3> QED
            BY <1>11, <3>1
    <2>3. CASE SelfLoop(n, b) /\ ~SelfLoop(n, a)
        <3>1. interact_comm(n, a, b) = CopySelfLoop(m, "Dup", a1, a2)
            BY <1>7, <2>3
        <3> QED
            BY <1>11, <3>1
    <2>4. CASE ~SelfLoop(n, a) /\ ~SelfLoop(n, b)
        <3>1. interact_comm(n, a, b) = Commuted(m, a1, a2, b1, b2)
            BY <1>7, <2>4
        <3> QED
            BY <1>12, <3>1
    <2> QED
        BY <2>1, <2>2, <2>3, <2>4
<1>14. 0 \in 0 .. 4
    OBVIOUS
<1> QED
    BY <1>1, <1>3, <1>4, <1>8, <1>10, <1>13, <1>14

(* The rule of a pair of live agents is one of the four.                   *)
LEMMA RuleIs ==
    ASSUME NEW sa \in Symbols, NEW sb \in Symbols
    PROVE  get_rule(sa, sb) \in {"Void", "Anni", "Eras", "Comm"}
<1>1. CASE sa = "Con"
    BY <1>1 DEF get_rule, Symbols
<1>2. CASE sa = "Dup"
    BY <1>2 DEF get_rule, Symbols
<1>3. CASE sa = "Era"
    BY <1>3 DEF get_rule, Symbols
<1> QED
    BY <1>1, <1>2, <1>3 DEF Symbols

(* A net with another queue.                                               *)
LEMMA RequeuedRewires ==
    ASSUME NEW n, NetRecord(n), NEW q, IsSeq(q)
    PROVE  Rewired(n, [n EXCEPT !.queue = q]) /\ [n EXCEPT !.queue = q].queue = q
BY DEF Rewired, NetRecord

(* An emptied queue is a queue.                                            *)
LEMMA NothingQueued ==
    ASSUME NEW q, q = <<>>
    PROVE  IsSeq(q)
<1>1. q \in Seq({})
    OBVIOUS
<1> QED
    BY <1>1 DEF IsSeq

(* One call of reduce_step, entangled pair or not.                         *)
LEMMA StepGrows ==
    ASSUME NEW n, Arena(n), HasRoomFor(n, 4) \/ FirstValid(n) = 0
    PROVE  Grows(n, reduce_step(n), 4)
<1>1. NetRecord(n) /\ IsSeq(n.queue) /\ n.next_id \in Nat
    BY DEF Arena
<1>2. CASE FirstValid(n) = 0
    <2> DEFINE e == <<>>
    <2>1. reduce_step(n) = [n EXCEPT !.queue = e] /\ e = <<>>
        BY <1>2 DEF reduce_step
    <2> HIDE DEF e
    <2>2. Rewired(n, reduce_step(n))
        BY <1>1, <2>1, NothingQueued, RequeuedRewires
    <2>3. Grows(n, reduce_step(n), 0)
        BY <2>2, RewiredGrows
    <2> QED
        BY <2>3, GrowsMore
<1>3. CASE FirstValid(n) # 0
    <2> DEFINE k == FirstValid(n)
               I == {j \in 1 .. Len(n.queue) : is_valid_redex(n, n.queue[j][1], n.queue[j][2])}
               u == n.queue[k][1]
               v == n.queue[k][2]
               a == HeadPair(n)[1]
               b == HeadPair(n)[2]
               q == SubSeq(n.queue, k + 1, Len(n.queue))
               m == [n EXCEPT !.queue = q]
               rule == HeadRule(n)
    <2>1. k = IF I # {} THEN Min(I) ELSE 0
        BY DEF FirstValid, SelectInSeq
    <2>2. Len(n.queue) \in Nat
        BY <1>1, SequenceLength
    <2>3. k \in I
        <3>1. I # {} /\ I \subseteq Nat
            BY <1>3, <2>1, <2>2
        <3>2. PICK x \in I : \A y \in I : ~(<<y, x>> \in OpToRel(<, Nat))
            <4> HIDE DEF I
            <4> QED
                BY <3>1, NatLessThanWellFounded, WFMin
        <3>3. \A y \in I : x <= y
            <4> SUFFICES ASSUME NEW y \in I, ~(x <= y)
                         PROVE  FALSE
                OBVIOUS
            <4>1. x \in Nat /\ y \in Nat /\ y < x
                BY <3>1
            <4> QED
                BY <3>2, <4>1 DEF OpToRel
        <3>4. Min(I) \in I
            <4> HIDE DEF I
            <4> QED
                BY <3>3 DEF Min
        <3>5. k = Min(I)
            BY <2>1, <3>1
        <3> QED
            BY <3>4, <3>5
    <2>4. u \in Live(n) /\ v \in Live(n) /\ k \in 1 .. Len(n.queue)
        BY <2>3 DEF is_valid_redex
    <2>5. HeadPair(n) = IF Rank(n.agents[u]) <= Rank(n.agents[v]) THEN <<u, v>> ELSE <<v, u>>
        BY DEF HeadPair, normalize_pair
    <2>6. reduce_step(n) = Interact(m, rule, a, b)
        BY <1>3 DEF reduce_step
    <2> HIDE DEF I, k, u, v
    <2>7. a \in Live(n) /\ b \in Live(n)
        BY <2>4, <2>5
    <2>8. rule \in {"Void", "Anni", "Eras", "Comm"}
        <3>1. n.agents[a] \in Symbols /\ n.agents[b] \in Symbols
            BY <2>7 DEF Live, Arena
        <3> QED
            BY <3>1, RuleIs DEF HeadRule
    <2>9. Rewired(n, m)
        <3>1. IsSeq(q)
            BY <1>1, <2>4, TailSeq
        <3> QED
            BY <1>1, <3>1, RequeuedRewires
    <2> HIDE DEF a, b, m, rule
    <2>10. Grows(n, m, 0)
        BY <2>9, RewiredGrows
    <2>11. Arena(m) /\ HasRoomFor(m, 4)
        BY <1>3, <2>9, <2>10 DEF Rewired, Grows, HasRoomFor
    <2>12. /\ Grows(m, interact_void(m, a, b), 4)
           /\ Grows(m, interact_anni(m, a, b), 4)
           /\ Grows(m, interact_eras(m, a, b), 4)
           /\ Grows(m, interact_comm(m, a, b), 4)
        BY <2>11, RulesGrow
    <2>13. Grows(m, reduce_step(n), 4)
        <3>1. CASE rule = "Void"
            BY <2>6, <2>12, <3>1 DEF Interact
        <3>2. CASE rule = "Anni"
            BY <2>6, <2>12, <3>2 DEF Interact
        <3>3. CASE rule = "Eras"
            BY <2>6, <2>12, <3>3 DEF Interact
        <3>4. CASE rule = "Comm"
            BY <2>6, <2>12, <3>4 DEF Interact
        <3> QED
            BY <2>8, <3>1, <3>2, <3>3, <3>4
    <2>14. Grows(n, reduce_step(n), 0 + 4)
        BY <2>10, <2>13, GrowsAgain
    <2> QED
        BY <2>14
<1> QED
    BY <1>2, <1>3

-----------------------------------------------------------------------------
(* The loops over a queue, a range of ids and the partitions' free lists   *)
(* are folds: the body of each, and what it preserves.                     *)
KeepsSeq(ctx, s, q) == IsSeq(q)

PushValidAt(n, i, q) == PushValid(n, q, n.queue[i])

Drain == INSTANCE FoldRule WITH Body <- PushValidAt, Pick <- Max, Good <- KeepsSeq

PushInternalAt(c, i, q) == PushInternal(c[1], q, c[2][i])

Internal == INSTANCE FoldRule WITH Body <- PushInternalAt, Pick <- Max, Good <- KeepsSeq

(* The items of a sequence, the last first.                                *)
LEMMA LastItem ==
    ASSUME NEW q, IsSeq(q)
    PROVE  \A s \in SUBSET DOMAIN q : s # {} => Max(s) \in s
<1>1. Len(q) \in Nat /\ DOMAIN q = 1 .. Len(q)
    BY SequenceLength
<1>2. \A s \in SUBSET DOMAIN q : s \subseteq 0 .. Len(q)
    BY <1>1
<1> QED
    BY <1>1, <1>2, LargestIs

DrainedQueue(n) == FoldLeft(LAMBDA q, ab : PushValid(n, q, ab), <<>>, n.queue)

(* The loop of drain_stale_redexes leaves a queue.                         *)
LEMMA DrainSeq ==
    ASSUME NEW n, IsSeq(n.queue)
    PROVE  IsSeq(DrainedQueue(n))
<1> DEFINE items == DOMAIN n.queue
           base == <<>>
           len == Len(n.queue)
<1>1. /\ len \in Nat /\ items = 1 .. len
      /\ \A s \in SUBSET items : s # {} => Max(s) \in s
    BY SequenceLength, LastItem
<1>2. KeepsSeq(n, {}, base)
    BY NothingQueued DEF KeepsSeq
<1>3. \A s \in SUBSET items : s # {} => \A acc :
          KeepsSeq(n, s \ {Max(s)}, acc) => KeepsSeq(n, s, PushValidAt(n, Max(s), acc))
    BY AppendSeq DEF KeepsSeq, PushValidAt, PushValid
<1>4. KeepsSeq(n, items, Drain!Folded(n, base, items))
    <2> HIDE DEF items, base, len
    <2> QED
        BY <1>1, <1>2, <1>3, Drain!FoldKeeps
<1> QED
    BY <1>4 DEF DrainedQueue, KeepsSeq, FoldLeft, MapThenFoldSet, Max, Drain!Folded,
                PushValidAt

InternalQueue(mine, queue) ==
    FoldLeft(LAMBDA q, ab : PushInternal(mine, q, ab), <<>>, queue)

(* The loop of build_subnet over the queue leaves a queue.                 *)
LEMMA InternalSeq ==
    ASSUME NEW mine, NEW queue, IsSeq(queue)
    PROVE  IsSeq(InternalQueue(mine, queue))
<1> DEFINE c == <<mine, queue>>
           items == DOMAIN queue
           base == <<>>
           len == Len(queue)
<1>1. /\ len \in Nat /\ items = 1 .. len
      /\ \A s \in SUBSET items : s # {} => Max(s) \in s
    BY SequenceLength, LastItem
<1>2. KeepsSeq(c, {}, base)
    BY NothingQueued DEF KeepsSeq
<1>3. \A s \in SUBSET items : s # {} => \A acc :
          KeepsSeq(c, s \ {Max(s)}, acc) => KeepsSeq(c, s, PushInternalAt(c, Max(s), acc))
    BY AppendSeq DEF KeepsSeq, PushInternalAt, PushInternal
<1>4. KeepsSeq(c, items, Internal!Folded(c, base, items))
    <2> HIDE DEF items, base, len, c
    <2> QED
        BY <1>1, <1>2, <1>3, Internal!FoldKeeps
<1> QED
    BY <1>4 DEF InternalQueue, KeepsSeq, FoldLeft, MapThenFoldSet, Max, Internal!Folded,
                PushInternalAt

(* A worker's range begins behind the agents it was given: no slot of it   *)
(* is free yet.                                                            *)
StillEmpty(ctx, s, l) == s = {} => l = <<>>

PushNoneAt(c, i, l) == PushNone(c[1], l, c[2][i])

Slots == INSTANCE FoldRule WITH Body <- PushNoneAt, Pick <- Max, Good <- StillEmpty

(* build_subnet finds no free slot in a range that begins at the end of    *)
(* the arena.                                                              *)
LEMMA RangeStartsEmpty ==
    ASSUME NEW agents, NEW range, NEW arena_len \in Int, range.start \in Int,
           range.end \in Int, arena_len <= range.start
    PROVE  RangeFreeList(agents, range, arena_len) = <<>>
<1> DEFINE stop == IF range.end < arena_len THEN range.end ELSE arena_len
           seq == [k \in 1 .. stop - range.start |-> range.start + k - 1]
           c == <<agents, seq>>
           items == DOMAIN seq
           base == <<>>
           len == 0
<1>1. items = {} /\ items = 1 .. len /\ len \in Nat
    OBVIOUS
<1>2. StillEmpty(c, {}, base)
    BY DEF StillEmpty
<1>3. StillEmpty(c, items, Slots!Folded(c, base, items))
    <2> HIDE DEF items, base, len, c
    <2>1. \A s \in SUBSET items : s = {}
        BY <1>1
    <2> QED
        BY <1>1, <1>2, <2>1, Slots!FoldKeeps
<1>4. RangeFreeList(agents, range, arena_len)
          = FoldLeft(LAMBDA l, i : PushNone(agents, l, i), <<>>, seq)
    BY DEF RangeFreeList
<1> HIDE DEF seq
<1>5. FoldLeft(LAMBDA l, i : PushNone(agents, l, i), <<>>, seq) = <<>>
    BY <1>1, <1>3 DEF StillEmpty, FoldLeft, MapThenFoldSet, Max, Slots!Folded, PushNoneAt
<1> QED
    BY <1>4, <1>5

(* The merged free list: dead ids of the merged net, each once.            *)
FreeIds(n, l) ==
    /\ l \in Seq(AgentIds)
    /\ \A i, j \in DOMAIN l : l[i] = l[j] => i = j
    /\ \A i \in DOMAIN l : n.agents[l[i]] = None /\ l[i] < n.next_id

KeepsFree(c, s, l) == FreeIds(c[1], l)

PushFreeAt(c, i, l) == PushFree(c[1], l, c[2][i])

PushListAt(c, i, l) ==
    PushFreeList(c[1], l, c[2][[k \in 1 .. NumWorkers |-> k - 1][i]].subnet.free_list)

FreeOne == INSTANCE FoldRule WITH Body <- PushFreeAt, Pick <- Max, Good <- KeepsFree

FreeAll == INSTANCE FoldRule WITH Body <- PushListAt, Pick <- Max, Good <- KeepsFree

(* One id considered by the reconciliation keeps the list free of live     *)
(* ids and repetitions.                                                    *)
LEMMA PushOne ==
    ASSUME NEW n, NEW l, FreeIds(n, l), NEW id \in AgentIds, id < n.next_id
    PROVE  FreeIds(n, PushFree(n, l, id))
<1>1. CASE n.agents[id] = None /\ id \notin ToSet(l)
    <2> DEFINE m == Append(l, id)
    <2>1. PushFree(n, l, id) = m
        BY <1>1 DEF PushFree
    <2>2. /\ l \in Seq(AgentIds)
          /\ \A i, j \in DOMAIN l : l[i] = l[j] => i = j
          /\ \A i \in DOMAIN l : n.agents[l[i]] = None /\ l[i] < n.next_id /\ l[i] # id
        BY <1>1 DEF FreeIds, ToSet
    <2>3. /\ m \in Seq(AgentIds)
          /\ DOMAIN m = DOMAIN l \cup {Len(l) + 1}
          /\ m[Len(l) + 1] = id
          /\ \A i \in DOMAIN l : m[i] = l[i]
        BY <2>2
    <2> HIDE DEF m
    <2>4. \A i, j \in DOMAIN m : m[i] = m[j] => i = j
        BY <2>2, <2>3
    <2>5. \A i \in DOMAIN m : n.agents[m[i]] = None /\ m[i] < n.next_id
        BY <1>1, <2>2, <2>3
    <2> QED
        BY <2>1, <2>3, <2>4, <2>5 DEF FreeIds
<1>2. CASE ~(n.agents[id] = None /\ id \notin ToSet(l))
    BY <1>2 DEF PushFree
<1> QED
    BY <1>1, <1>2

(* The same for the free list of one partition.                            *)
LEMMA PushListFree ==
    ASSUME NEW n, NEW l, FreeIds(n, l), NEW ids \in Seq(AgentIds),
           \A i \in DOMAIN ids : ids[i] < n.next_id
    PROVE  FreeIds(n, PushFreeList(n, l, ids))
<1> DEFINE c == <<n, ids>>
           items == DOMAIN ids
           len == Len(ids)
<1>0. IsSeq(ids)
    BY DEF IsSeq
<1>1. /\ len \in Nat /\ items = 1 .. len
      /\ \A s \in SUBSET items : s # {} => Max(s) \in s
    BY <1>0, SequenceLength, LastItem
<1>2. KeepsFree(c, {}, l)
    BY DEF KeepsFree
<1>3. ASSUME NEW s \in SUBSET items, s # {}, NEW acc, KeepsFree(c, s \ {Max(s)}, acc)
      PROVE  KeepsFree(c, s, PushFreeAt(c, Max(s), acc))
    <2>1. Max(s) \in DOMAIN ids
        BY <1>1, <1>3
    <2>2. ids[Max(s)] \in AgentIds /\ ids[Max(s)] < n.next_id
        BY <2>1
    <2>3. FreeIds(n, acc)
        BY <1>3 DEF KeepsFree
    <2>4. FreeIds(n, PushFree(n, acc, ids[Max(s)]))
        BY <2>2, <2>3, PushOne
    <2> QED
        BY <2>4 DEF KeepsFree, PushFreeAt
<1>4. KeepsFree(c, items, FreeOne!Folded(c, l, items))
    <2> HIDE DEF items, len, c
    <2> QED
        BY <1>1, <1>2, <1>3, FreeOne!FoldKeeps
<1>5. FreeIds(n, FreeOne!Folded(c, l, items))
    BY <1>4 DEF KeepsFree
<1> QED
    BY <1>5 DEF PushFreeList, FoldLeft, MapThenFoldSet, Max, FreeOne!Folded, PushFreeAt

(* The same for the free lists of all partitions.                          *)
LEMMA ReconcileFree ==
    ASSUME NEW n, NetRecord(n), NEW P,
           \A w \in WorkerIds :
               /\ P[w].subnet.free_list \in Seq(AgentIds)
               /\ \A i \in DOMAIN P[w].subnet.free_list :
                      P[w].subnet.free_list[i] < n.next_id
    PROVE  \E l : FreeIds(n, l) /\ ReconcileFreeList(n, P) = [n EXCEPT !.free_list = l]
<1> DEFINE seq == [k \in 1 .. NumWorkers |-> k - 1]
           c == <<n, P>>
           items == DOMAIN seq
           base == <<>>
<1>1. /\ NumWorkers \in Nat /\ items = 1 .. NumWorkers
      /\ \A i \in items : seq[i] \in WorkerIds
    BY PartitionAssumption DEF WorkerIds
<1>2. \A s \in SUBSET items : s # {} => Max(s) \in s
    <2>1. \A s \in SUBSET items : s \subseteq 0 .. NumWorkers
        BY <1>1
    <2> QED
        BY <1>1, <2>1, LargestIs
<1>3. KeepsFree(c, {}, base)
    BY DEF KeepsFree, FreeIds
<1>4. ASSUME NEW s \in SUBSET items, s # {}, NEW acc, KeepsFree(c, s \ {Max(s)}, acc)
      PROVE  KeepsFree(c, s, PushListAt(c, Max(s), acc))
    <2> DEFINE w == seq[Max(s)]
               ids == P[w].subnet.free_list
    <2>1. w \in WorkerIds
        BY <1>1, <1>2, <1>4
    <2> HIDE DEF w
    <2>2. ids \in Seq(AgentIds) /\ \A i \in DOMAIN ids : ids[i] < n.next_id
        BY <2>1
    <2>3. FreeIds(n, acc)
        BY <1>4 DEF KeepsFree
    <2> HIDE DEF ids
    <2>4. FreeIds(n, PushFreeList(n, acc, ids))
        BY <2>2, <2>3, PushListFree
    <2> QED
        BY <2>4 DEF KeepsFree, PushListAt, ids, w
<1>5. KeepsFree(c, items, FreeAll!Folded(c, base, items))
    <2> HIDE DEF items, c, base
    <2> QED
        BY <1>1, <1>2, <1>3, <1>4, FreeAll!FoldKeeps
<1>6. FreeIds(n, FreeAll!Folded(c, base, items))
    BY <1>5 DEF KeepsFree
<1> DEFINE l == FoldLeft(LAMBDA list, w : PushFreeList(n, list, P[w].subnet.free_list),
                         <<>>, seq)
<1>7. FreeIds(n, l)
    BY <1>6 DEF FoldLeft, MapThenFoldSet, Max, FreeAll!Folded, PushListAt
<1>8. ReconcileFreeList(n, P) = [n EXCEPT !.free_list = l]
    BY DEF ReconcileFreeList
<1> HIDE DEF l
<1> QED
    BY <1>7, <1>8

-----------------------------------------------------------------------------
(* The inductive invariant.  While the workers reduce, the merged net keeps *)
(* the next_id, base, that the ranges were computed from: what a worker    *)
(* uses is either an id it was given, below base, or one of its own range. *)
RangeStart(base, w) == compute_id_ranges(w, base).start

PartRecord(part) ==
    part = [subnet |-> part.subnet, free_port_index |-> part.free_port_index,
            id_range |-> part.id_range, border_start |-> part.border_start,
            border_end |-> part.border_end]

Confined(sub, base, w) ==
    /\ Arena(sub)
    /\ RangeStart(base, w) <= sub.next_id
    /\ sub.next_id <= RangeEnd(w, base)
    /\ \A i \in Used(sub) : i < base \/ RangeStart(base, w) <= i

Given(sub, base) == {i \in Used(sub) : i < base}

Reducing(base, P) ==
    /\ P = [w \in WorkerIds |-> P[w]]
    /\ \A w \in WorkerIds : /\ PartRecord(P[w])
                            /\ P[w].id_range = compute_id_ranges(w, base)
                            /\ Confined(P[w].subnet, base, w)
    /\ \A v, w \in WorkerIds :
           v # w => Given(P[v].subnet, base) \cap Given(P[w].subnet, base) = {}

Restoring(n, P) ==
    \A w \in WorkerIds : Arena(P[w].subnet) /\ P[w].subnet.next_id <= n.next_id

IdsKept ==
    /\ Arena(net)
    /\ phase \in {"reduce", "merge"} =>
           /\ ~RangesClamped(net.next_id)
           /\ cursor \in WorkerIds
           /\ Reducing(net.next_id, parts)
    /\ phase = "restore" => Restoring(net, parts)

(* Nothing is claimed of a run once the ranges of one of its rounds were   *)
(* clamped or left: its later nets may have lost agents to the overlap.    *)
IdsInv == "overlap" \notin marks => IdsKept

-----------------------------------------------------------------------------
(* Ranges that are not clamped begin where the ids in use end, and follow  *)
(* one another.                                                            *)
LEMMA RangesApart ==
    ASSUME NEW base \in Nat, ~RangesClamped(base), NEW w \in WorkerIds
    PROVE  /\ RangeStart(base, w) \in Nat /\ RangeEnd(w, base) \in Nat
           /\ base <= RangeStart(base, w) /\ RangeStart(base, w) <= RangeEnd(w, base)
           /\ RangeEnd(w, base) <= U32Max
           /\ \A v \in WorkerIds : v < w => RangeEnd(v, base) <= RangeStart(base, w)
<1> DEFINE c == chunk_size(base)
           last == NumWorkers - 1
<1>1. c \in Nat /\ U32Max \in Nat /\ last \in Nat /\ WorkerIds = 0 .. last
    <2>1. MinChunk \in Nat /\ Growth \in Nat /\ last \in Nat
        BY PartitionAssumption
    <2>2. Growth * base \in Nat
        BY <2>1
    <2> QED
        BY <2>1, <2>2, NetAssumption DEF chunk_size, WorkerIds
<1>2. ~(base + last * c > U32Max - 1)
    BY DEF RangesClamped
<1>3. \A x \in WorkerIds :
          /\ RangeStart(base, x) = Lesser(base + x * c, U32Max - 1)
          /\ RangeEnd(x, base) = IF x = last THEN U32Max ELSE Lesser(base + (x + 1) * c, U32Max)
    BY DEF RangeStart, compute_id_ranges, RangeEnd
<1> HIDE DEF c, last
<1>4. ASSUME NEW a \in Nat, NEW b \in Nat, a <= b
      PROVE  a * c \in Nat /\ b * c \in Nat /\ a * c <= b * c
    <2> DEFINE d == b - a
    <2>1. d \in Nat /\ b = a + d
        BY <1>4
    <2> HIDE DEF d
    <2>2. a * c \in Nat /\ d * c \in Nat /\ (a + d) * c = a * c + d * c
        BY <1>1, <2>1
    <2> QED
        BY <2>1, <2>2
<1>5. ASSUME NEW x \in WorkerIds
      PROVE  /\ x * c \in Nat /\ base + x * c <= U32Max - 1
             /\ RangeStart(base, x) = base + x * c
    <2>1. x \in Nat /\ x <= last
        BY <1>1
    <2>2. x * c \in Nat /\ last * c \in Nat /\ x * c <= last * c
        BY <1>1, <1>4, <2>1
    <2> QED
        BY <1>1, <1>2, <1>3, <2>2 DEF Lesser
<1>6. ASSUME NEW x \in WorkerIds, x # last
      PROVE  (x + 1) * c \in Nat /\ x * c <= (x + 1) * c /\ RangeEnd(x, base) = base + (x + 1) * c
    <2>1. x \in Nat /\ x + 1 \in WorkerIds /\ x + 1 \in Nat
        BY <1>1, <1>6
    <2>2. (x + 1) * c \in Nat /\ base + (x + 1) * c <= U32Max - 1
        BY <1>5, <2>1
    <2>3. x * c <= (x + 1) * c
        BY <1>4, <2>1
    <2>4. RangeEnd(x, base) = Lesser(base + (x + 1) * c, U32Max)
        BY <1>3, <1>6
    <2> QED
        BY <1>1, <2>2, <2>3, <2>4 DEF Lesser
<1>7. /\ RangeStart(base, w) \in Nat /\ RangeEnd(w, base) \in Nat
      /\ base <= RangeStart(base, w) /\ RangeStart(base, w) <= RangeEnd(w, base)
      /\ RangeEnd(w, base) <= U32Max
    <2>1. CASE w = last
        BY <1>1, <1>3, <1>5, <2>1
    <2>2. CASE w # last
        <3>1. w + 1 \in WorkerIds
            BY <1>1, <2>2
        <3>2. base + (w + 1) * c <= U32Max - 1
            BY <1>5, <3>1
        <3> QED
            BY <1>1, <1>5, <1>6, <2>2, <3>2
    <2> QED
        BY <2>1, <2>2
<1>8. ASSUME NEW v \in WorkerIds, v < w
      PROVE  RangeEnd(v, base) <= RangeStart(base, w)
    <2>1. v \in Nat /\ w \in Nat /\ v # last /\ v + 1 \in Nat /\ v + 1 <= w
        BY <1>1, <1>8
    <2>2. (v + 1) * c \in Nat /\ (v + 1) * c <= w * c /\ w * c \in Nat
        BY <1>4, <2>1
    <2> QED
        BY <1>5, <1>6, <2>1, <2>2
<1> QED
    BY <1>7, <1>8

(* What is carried over the wire.                                          *)
LEMMA WireRewires ==
    ASSUME NEW n, NetRecord(n), IsSeq(n.queue)
    PROVE  Rewired(n, OverTheWire(n))
<1> DEFINE ps == [i \in AgentIds |-> IF i \in Live(n) THEN n.ports[i] ELSE EmptyNet.ports[i]]
           e0 == EmptyNet
           e1 == [e0 EXCEPT !.agents = n.agents]
           e2 == [e1 EXCEPT !.ports = ps]
           e3 == [e2 EXCEPT !.queue = n.queue]
           e4 == [e3 EXCEPT !.next_id = n.next_id]
           e5 == [e4 EXCEPT !.root = n.root]
           e6 == [e5 EXCEPT !.free_list = n.free_list]
<1>1. OverTheWire(n) = e6
    BY DEF OverTheWire
<1>2. NetRecord(e0)
    BY DEF EmptyNet, NetRecord
<1> HIDE DEF ps, e0
<1>3. NetRecord(e1) /\ e1.agents = n.agents
    BY <1>2 DEF NetRecord
<1> HIDE DEF e1
<1>4. NetRecord(e2) /\ e2.agents = n.agents
    BY <1>3 DEF NetRecord
<1> HIDE DEF e2
<1>5. NetRecord(e3) /\ e3.agents = n.agents /\ e3.queue = n.queue
    BY <1>4 DEF NetRecord
<1> HIDE DEF e3
<1>6. NetRecord(e4) /\ e4.agents = n.agents /\ e4.queue = n.queue /\ e4.next_id = n.next_id
    BY <1>5 DEF NetRecord
<1> HIDE DEF e4
<1>7. NetRecord(e5) /\ e5.agents = n.agents /\ e5.queue = n.queue /\ e5.next_id = n.next_id
    BY <1>6 DEF NetRecord
<1> HIDE DEF e5
<1>8. /\ NetRecord(e6) /\ e6.agents = n.agents /\ e6.queue = n.queue /\ e6.next_id = n.next_id
      /\ e6.free_list = n.free_list
    BY <1>7 DEF NetRecord
<1> HIDE DEF e6
<1> QED
    BY <1>1, <1>8 DEF Rewired

(* What the wire format drops is none of the ids.                          *)
LEMMA CarriedRewires ==
    ASSUME NEW part, PartRecord(part), NetRecord(part.subnet), IsSeq(part.subnet.queue)
    PROVE  /\ PartRecord(Carried(part)) /\ Carried(part).id_range = part.id_range
           /\ Rewired(part.subnet, Carried(part).subnet)
<1>1. CASE Sent
    <2> DEFINE sub == OverTheWire(part.subnet)
    <2>1. Carried(part) = [part EXCEPT !.subnet = sub]
        BY <1>1 DEF Carried
    <2>2. Rewired(part.subnet, sub)
        BY WireRewires
    <2> HIDE DEF sub
    <2> QED
        BY <2>1, <2>2 DEF PartRecord
<1>2. CASE ~Sent
    BY <1>2, RewiredSelf DEF Carried
<1> QED
    BY <1>1, <1>2

(* split: a worker gets its agents, no free id, and the start of its range *)
(* as next_id.                                                             *)
Mine(n, sigma, w) == {i \in Live(n) : sigma[i] = w}

(* build_subnet keeps the live ids of its worker, no free ones, and        *)
(* starts at its range.                                                    *)
LEMMA SubnetIds ==
    ASSUME NEW n, Arena(n), ~RangesClamped(n.next_id), NEW sigma, NEW w \in WorkerIds
    PROVE  LET sub == build_subnet(n, sigma, w)
           IN  /\ NetRecord(sub)
               /\ IsSeq(sub.queue)
               /\ sub.agents \in [AgentIds -> Symbols \cup {None}]
               /\ sub.next_id = RangeStart(n.next_id, w)
               /\ sub.free_list = <<>>
               /\ Live(sub) = Mine(n, sigma, w)
<1> DEFINE sub == build_subnet(n, sigma, w)
           mine == Mine(n, sigma, w)
           entries == BorderEntries(n, sigma, w)
           range == compute_id_ranges(w, n.next_id)
           overrides(r) == {b \in DOMAIN entries : entries[b] = r}
           agents == [i \in AgentIds |-> IF i \in mine THEN n.agents[i] ELSE None]
           target(i, p) ==
               LET over == overrides(AgentPort(i, p))
               IN  IF over # {} THEN FreePort(CHOOSE b \in over : TRUE) ELSE n.ports[i][p]
           ps == [i \in AgentIds |-> [p \in PortIds |->
                     IF i \in mine THEN target(i, p) ELSE DISCONNECTED]]
           q == InternalQueue(mine, n.queue)
           nid == Max({range.start, Max(mine) + 1})
           fl == RangeFreeList(agents, range, Max(mine) + 1)
           shadow == {entries[b][2] : b \in DOMAIN entries}
           e0 == EmptyNet
           e1 == [e0 EXCEPT !.agents = agents]
           e2 == [e1 EXCEPT !.ports = ps]
           e3 == [e2 EXCEPT !.queue = q]
           e4 == [e3 EXCEPT !.next_id = nid]
           e5 == [e4 EXCEPT !.free_list = fl]
           e6 == [e5 EXCEPT !.redirects = n.redirects]
           e7 == [e6 EXCEPT !.shadow = shadow]
<1>1. /\ n.next_id \in Nat /\ n.agents \in [AgentIds -> Symbols \cup {None}]
      /\ IsSeq(n.queue) /\ \A i \in mine : i \in AgentIds /\ i \in Nat /\ i < n.next_id
      /\ mine \subseteq Live(n)
    <2>1. \A i \in Live(n) : i \in Used(n) /\ i \in AgentIds
        BY DEF Used, Live
    <2>2. mine \subseteq Live(n)
        BY DEF Mine
    <2> QED
        BY <2>1, <2>2, UsedIds DEF Arena
<1>2. /\ range.start = RangeStart(n.next_id, w)
      /\ range.start \in Nat /\ range.end \in Int /\ n.next_id <= range.start
    <2>1. range.start = RangeStart(n.next_id, w) /\ range.end = RangeEnd(w, n.next_id)
        BY DEF compute_id_ranges, RangeStart
    <2> HIDE DEF range
    <2> QED
        BY <1>1, <2>1, RangesApart
<1>3. sub = IF mine = {} THEN [e0 EXCEPT !.next_id = range.start] ELSE e7
    BY DEF build_subnet, Mine, InternalQueue
<1>4. NetRecord(e0) /\ e0.agents = [i \in AgentIds |-> None] /\ e0.queue = <<>> /\ e0.free_list = <<>>
    BY DEF EmptyNet, NetRecord
<1>5. IsSeq(q)
    BY <1>1, InternalSeq
<1> HIDE DEF e0, ps, q, entries, range, shadow, mine, sub
<1>6. CASE mine = {}
    <2> DEFINE start == range.start
    <2>1. sub = [e0 EXCEPT !.next_id = start]
        BY <1>3, <1>6
    <2>2. start = RangeStart(n.next_id, w)
        BY <1>2
    <2> HIDE DEF start
    <2>3. NetRecord(sub) /\ sub.agents = e0.agents /\ sub.queue = e0.queue
          /\ sub.free_list = e0.free_list /\ sub.next_id = start
        BY <1>4, <2>1 DEF NetRecord
    <2>4. IsSeq(sub.queue)
        BY <1>4, <2>3, NothingQueued
    <2>5. Live(sub) = {} /\ sub.agents \in [AgentIds -> Symbols \cup {None}]
        BY <1>4, <2>3 DEF Live
    <2> QED
        BY <1>4, <1>6, <2>2, <2>3, <2>4, <2>5 DEF sub, mine
<1>7. CASE mine # {}
    <2>1. sub = e7
        BY <1>3, <1>7
    <2>2. Max(mine) \in mine
        <3>1. mine \subseteq 0 .. n.next_id
            BY <1>1
        <3> QED
            BY <1>1, <1>7, <3>1, LargestIs
    <2>3. Max(mine) + 1 \in Nat /\ Max(mine) + 1 <= range.start
        BY <1>1, <1>2, <2>2
    <2>4. nid = range.start
        <3> DEFINE S == {range.start, Max(mine) + 1}
        <3>1. S # {} /\ S \subseteq 0 .. range.start
            BY <1>2, <2>3
        <3>2. range.start \in S /\ \A y \in S : y \in Nat /\ y <= range.start
            BY <1>2, <2>3
        <3> HIDE DEF S
        <3>3. Max(S) \in S /\ \A y \in S : y <= Max(S)
            BY <1>2, <3>1, LargestIs
        <3>4. Max(S) = range.start
            BY <1>2, <3>2, <3>3
        <3> QED
            BY <3>4 DEF S
    <2>5. fl = <<>>
        BY <1>2, <2>3, RangeStartsEmpty
    <2>6. agents \in [AgentIds -> Symbols \cup {None}]
        BY <1>1
    <2>7. \A i \in AgentIds : agents[i] # None <=> i \in mine
        BY <1>1 DEF Live
    <2> HIDE DEF agents, fl, nid
    <2>8. NetRecord(e1) /\ e1.agents = agents
        BY <1>4 DEF NetRecord
    <2> HIDE DEF e1
    <2>9. NetRecord(e2) /\ e2.agents = agents
        BY <2>8 DEF NetRecord
    <2> HIDE DEF e2
    <2>10. NetRecord(e3) /\ e3.agents = agents /\ e3.queue = q
        BY <2>9 DEF NetRecord
    <2> HIDE DEF e3
    <2>11. NetRecord(e4) /\ e4.agents = agents /\ e4.queue = q /\ e4.next_id = nid
        BY <2>10 DEF NetRecord
    <2> HIDE DEF e4
    <2>12. NetRecord(e5) /\ e5.agents = agents /\ e5.queue = q /\ e5.next_id = nid
           /\ e5.free_list = fl
        BY <2>11 DEF NetRecord
    <2> HIDE DEF e5
    <2>13. NetRecord(e6) /\ e6.agents = agents /\ e6.queue = q /\ e6.next_id = nid
           /\ e6.free_list = fl
        BY <2>12 DEF NetRecord
    <2> HIDE DEF e6
    <2>14. NetRecord(e7) /\ e7.agents = agents /\ e7.queue = q /\ e7.next_id = nid
           /\ e7.free_list = fl
        BY <2>13 DEF NetRecord
    <2> HIDE DEF e7
    <2>15. Live(sub) = mine
        BY <1>1, <2>1, <2>7, <2>14 DEF Live
    <2> QED
        BY <1>2, <1>5, <2>1, <2>4, <2>5, <2>6, <2>14, <2>15 DEF sub, mine
<1> QED
    BY <1>6, <1>7

(* merge, steps 1 and 2: an agent of the united net is one of a partition. *)
LEMMA UniteArena ==
    ASSUME NEW P, NEW B, NEW top \in Nat,
           \A w \in WorkerIds : Arena(P[w].subnet) /\ P[w].subnet.next_id <= top
    PROVE  /\ Arena(Unite(P, B))
           /\ \A w \in WorkerIds : P[w].subnet.next_id <= Unite(P, B).next_id
<1> DEFINE m == Unite(P, B)
           sub(i) == P[Owner(P, i)].subnet
           port(i, p) ==
               IF Owner(P, i) = -1 \/ p >= total_ports(sub(i).agents[i]) THEN DISCONNECTED
               ELSE LET target == sub(i).ports[i][p]
                    IN  IF IsFreePort(target) /\ target[2] \in DOMAIN B
                        THEN DISCONNECTED ELSE target
           rooted == {w \in WorkerIds : P[w].subnet.root # DISCONNECTED}
           agents == [i \in AgentIds |-> IF Owner(P, i) = -1 THEN None ELSE sub(i).agents[i]]
           ps == [i \in AgentIds |-> [p \in PortIds |-> port(i, p)]]
           N == {P[w].subnet.next_id : w \in WorkerIds}
           root == IF rooted = {} THEN DISCONNECTED ELSE P[Max(rooted)].subnet.root
           e0 == EmptyNet
           e1 == [e0 EXCEPT !.agents = agents]
           e2 == [e1 EXCEPT !.ports = ps]
           e3 == [e2 EXCEPT !.next_id = Max(N)]
           e4 == [e3 EXCEPT !.root = root]
<1>1. m = e4
    BY DEF Unite
<1>2. NetRecord(e0) /\ e0.queue = <<>> /\ e0.free_list = <<>>
    BY DEF EmptyNet, NetRecord
<1>3. \A w \in WorkerIds : /\ P[w].subnet.agents \in [AgentIds -> Symbols \cup {None}]
                           /\ P[w].subnet.next_id \in Nat
                           /\ \A i \in Live(P[w].subnet) : i < P[w].subnet.next_id
    BY DEF Arena, Used
<1>4. Max(N) \in Nat /\ \A w \in WorkerIds : P[w].subnet.next_id <= Max(N)
    <2>1. \A w \in WorkerIds : P[w].subnet.next_id \in N /\ P[w].subnet.next_id \in 0 .. top
        BY <1>3
    <2>2. N \subseteq 0 .. top
        BY <2>1
    <2>3. 0 \in WorkerIds
        BY PartitionAssumption DEF WorkerIds
    <2>4. N # {}
        BY <2>1, <2>3
    <2> HIDE DEF N
    <2>5. Max(N) \in N /\ \A y \in N : y <= Max(N)
        BY <2>2, <2>4, LargestIs
    <2>6. Max(N) \in 0 .. top
        BY <2>2, <2>5
    <2>7. Max(N) \in Nat
        BY <2>6
    <2>8. \A w \in WorkerIds : P[w].subnet.next_id <= Max(N)
        BY <2>1, <2>5
    <2> QED
        BY <2>7, <2>8
<1>5. ASSUME NEW i \in AgentIds, Owner(P, i) # -1
      PROVE  Owner(P, i) \in WorkerIds
    <2> DEFINE owners == {w \in WorkerIds : P[w].subnet.agents[i] # None}
    <2>1. Owner(P, i) = IF owners = {} THEN -1 ELSE Max(owners)
        BY DEF Owner
    <2>2. NumWorkers \in Nat /\ owners \subseteq 0 .. NumWorkers
        BY PartitionAssumption DEF WorkerIds
    <2>3. owners \subseteq WorkerIds
        OBVIOUS
    <2> HIDE DEF owners
    <2>4. owners # {}
        BY <1>5, <2>1
    <2>5. Max(owners) \in owners
        BY <2>2, <2>4, LargestIs
    <2> QED
        BY <2>1, <2>3, <2>4, <2>5
<1>6. agents \in [AgentIds -> Symbols \cup {None}]
    BY <1>3, <1>5
<1>7. ASSUME NEW i \in AgentIds, agents[i] # None
      PROVE  i < Max(N)
    <2> DEFINE w == Owner(P, i)
    <2>1. w \in WorkerIds /\ P[w].subnet.agents[i] # None
        BY <1>5, <1>7
    <2> HIDE DEF w
    <2>2. i < P[w].subnet.next_id /\ P[w].subnet.next_id \in Nat
        BY <1>3, <2>1 DEF Live
    <2>3. P[w].subnet.next_id <= Max(N)
        BY <1>4, <2>1
    <2>4. i \in Int /\ Max(N) \in Nat
        BY <1>4 DEF AgentIds
    <2> HIDE DEF N
    <2> QED
        BY <2>2, <2>3, <2>4
<1> DEFINE nid == Max(N)
<1> HIDE DEF agents, ps, N, root, e0, m
<1>8. e3 = [e2 EXCEPT !.next_id = nid] /\ nid \in Nat
    BY <1>4
<1> HIDE DEF nid
<1>9. NetRecord(e1) /\ e1.agents = agents /\ e1.queue = <<>> /\ e1.free_list = <<>>
    BY <1>2 DEF NetRecord
<1> HIDE DEF e1
<1>10. NetRecord(e2) /\ e2.agents = agents /\ e2.queue = <<>> /\ e2.free_list = <<>>
    BY <1>9 DEF NetRecord
<1> HIDE DEF e2, e3
<1>11. /\ NetRecord(e3) /\ e3.agents = agents /\ e3.queue = <<>> /\ e3.free_list = <<>>
       /\ e3.next_id = nid
    BY <1>8, <1>10 DEF NetRecord
<1>12. /\ NetRecord(e4) /\ e4.agents = agents /\ e4.queue = <<>> /\ e4.free_list = <<>>
       /\ e4.next_id = nid
    BY <1>11 DEF NetRecord
<1> HIDE DEF e4
<1>13. IsSeq(m.queue) /\ m.free_list \in Seq(AgentIds) /\ validate_free_list(m) /\ Used(m) = Live(m)
    <2>1. m.free_list = <<>> /\ m.queue = <<>>
        BY <1>1, <1>12
    <2>2. validate_free_list(m)
        BY <2>1 DEF validate_free_list, IsInjective
    <2>3. ToSet(m.free_list) = {}
        BY <2>1 DEF ToSet
    <2> QED
        BY <2>1, <2>2, <2>3, NothingQueued DEF Used
<1>14. \A i \in Live(m) : i < m.next_id
    BY <1>1, <1>7, <1>12 DEF Live, nid
<1>15. Arena(m)
    BY <1>1, <1>6, <1>8, <1>12, <1>13, <1>14 DEF Arena
<1>16. \A w \in WorkerIds : P[w].subnet.next_id <= m.next_id
    BY <1>1, <1>4, <1>12 DEF nid
<1> QED
    BY <1>15, <1>16 DEF m

(* merge, step 3.                                                          *)
LEMMA RestoreGrows ==
    ASSUME NEW n, Arena(n), NEW P, NEW B, NEW b
    PROVE  Rewired(n, RestoreBorder(n, P, B, b))
<1>1. NetRecord(n) /\ IsSeq(n.queue)
    BY DEF Arena
<1> QED
    BY <1>1, ConnectRewires, RewiredSelf DEF RestoreBorder

(* merge, last step.                                                       *)
LEMMA ReconcileArena ==
    ASSUME NEW n, Arena(n), NEW P,
           \A w \in WorkerIds : Arena(P[w].subnet) /\ P[w].subnet.next_id <= n.next_id
    PROVE  Arena(ReconcileFreeList(n, P))
<1>1. ASSUME NEW w \in WorkerIds
      PROVE  /\ P[w].subnet.free_list \in Seq(AgentIds)
             /\ \A i \in DOMAIN P[w].subnet.free_list : P[w].subnet.free_list[i] < n.next_id
    <2> DEFINE sub == P[w].subnet
    <2>1. Arena(sub) /\ sub.next_id <= n.next_id /\ n.next_id \in Nat
        BY DEF Arena
    <2> HIDE DEF sub
    <2>2. sub.free_list \in Seq(AgentIds) /\ sub.next_id \in Nat
        BY <2>1 DEF Arena
    <2>3. ASSUME NEW i \in DOMAIN sub.free_list
          PROVE  sub.free_list[i] < n.next_id
        <3> DEFINE x == sub.free_list[i]
        <3>1. x \in Used(sub)
            BY DEF Used, ToSet
        <3>2. x \in Nat /\ x < sub.next_id
            <4> HIDE DEF x
            <4> QED
                BY <2>1, <3>1, UsedIds DEF Arena
        <3> QED
            BY <2>1, <2>2, <3>2
    <2> QED
        BY <2>2, <2>3 DEF sub
<1>2. NetRecord(n)
    BY DEF Arena
<1>3. PICK l : FreeIds(n, l) /\ ReconcileFreeList(n, P) = [n EXCEPT !.free_list = l]
    BY <1>1, <1>2, ReconcileFree
<1> DEFINE m == [n EXCEPT !.free_list = l]
<1>4. /\ NetRecord(m) /\ m.agents = n.agents /\ m.queue = n.queue /\ m.next_id = n.next_id
      /\ m.free_list = l
    BY <1>2 DEF NetRecord
<1> HIDE DEF m
<1>5. validate_free_list(m)
    BY <1>3, <1>4 DEF FreeIds, validate_free_list, IsInjective
<1>6. \A i \in Used(m) : i < m.next_id
    <2>1. \A i \in Live(m) : i < m.next_id
        BY <1>4 DEF Live, Arena, Used
    <2>2. \A i \in ToSet(l) : i < n.next_id
        BY <1>3 DEF FreeIds, ToSet
    <2> QED
        BY <1>4, <2>1, <2>2 DEF Used
<1>7. Arena(m)
    BY <1>3, <1>4, <1>5, <1>6 DEF Arena, FreeIds
<1> QED
    BY <1>3, <1>7 DEF m

(* drain_stale_redexes.                                                    *)
LEMMA DrainArena ==
    ASSUME NEW n, Arena(n)
    PROVE  Arena(drain_stale_redexes(n))
<1> DEFINE q == DrainedQueue(n)
<1>1. NetRecord(n) /\ IsSeq(n.queue)
    BY DEF Arena
<1>2. drain_stale_redexes(n) = [n EXCEPT !.queue = q]
    BY DEF drain_stale_redexes, DrainedQueue
<1>3. IsSeq(q)
    BY <1>1, DrainSeq
<1> HIDE DEF q
<1>4. Rewired(n, [n EXCEPT !.queue = q])
    BY <1>1, <1>3, RequeuedRewires
<1> QED
    BY <1>2, <1>4, RewiredGrows DEF Grows

-----------------------------------------------------------------------------
(* The partitions, from the split to the merge.                            *)
LEMMA SplitReducing ==
    ASSUME NEW n, Arena(n), ~RangesClamped(n.next_id), NEW sigma
    PROVE  Reducing(n.next_id, [w \in WorkerIds |-> Carried(split(n, sigma)[w])])
<1> DEFINE P == [w \in WorkerIds |-> Carried(split(n, sigma)[w])]
           base == n.next_id
<1>1. base \in Nat
    BY DEF Arena
<1>2. ASSUME NEW w \in WorkerIds
      PROVE  /\ PartRecord(P[w])
             /\ P[w].id_range = compute_id_ranges(w, base)
             /\ Confined(P[w].subnet, base, w)
             /\ Used(P[w].subnet) = Mine(n, sigma, w)
    <2> DEFINE sub == build_subnet(n, sigma, w)
               root == propagate_root(n, sigma, w)
               m == [sub EXCEPT !.root = root]
               part == PartitionOf(n, sigma, w)
               o == P[w].subnet
    <2>1. P[w] = Carried(part)
        BY DEF split
    <2>2. /\ NetRecord(sub)
          /\ IsSeq(sub.queue)
          /\ sub.agents \in [AgentIds -> Symbols \cup {None}]
          /\ sub.next_id = RangeStart(base, w)
          /\ sub.free_list = <<>>
          /\ Live(sub) = Mine(n, sigma, w)
        BY SubnetIds
    <2>3. PartRecord(part) /\ part.subnet = m /\ part.id_range = compute_id_ranges(w, base)
        BY DEF PartitionOf, PartRecord
    <2> HIDE DEF sub, root, part, P
    <2>4. NetRecord(m) /\ m.queue = sub.queue /\ m.agents = sub.agents /\ m.next_id = sub.next_id
          /\ m.free_list = sub.free_list
        BY <2>2 DEF NetRecord
    <2> HIDE DEF m
    <2>5. PartRecord(P[w]) /\ Rewired(m, o) /\ P[w].id_range = compute_id_ranges(w, base)
        BY <2>1, <2>2, <2>3, <2>4, CarriedRewires
    <2> HIDE DEF o
    <2>6. /\ NetRecord(o) /\ IsSeq(o.queue) /\ o.agents = sub.agents
          /\ o.next_id = RangeStart(base, w) /\ o.free_list = <<>>
        BY <2>2, <2>4, <2>5 DEF Rewired
    <2>7. Used(o) = Mine(n, sigma, w)
        <3>1. ToSet(o.free_list) = {}
            BY <2>6 DEF ToSet
        <3>2. Live(o) = Live(sub)
            BY <2>6 DEF Live
        <3> QED
            BY <2>2, <3>1, <3>2 DEF Used
    <2>8. /\ RangeStart(base, w) \in Nat /\ base <= RangeStart(base, w)
          /\ RangeStart(base, w) <= RangeEnd(w, base)
        BY <1>1, RangesApart
    <2>9. \A i \in Mine(n, sigma, w) : i \in Nat /\ i < base
        <3>1. Mine(n, sigma, w) \subseteq Used(n)
            BY DEF Mine, Used
        <3> QED
            BY <3>1, UsedIds DEF Arena
    <2>10. o.free_list \in Seq(AgentIds) /\ validate_free_list(o)
        BY <2>6 DEF validate_free_list, IsInjective
    <2>11. o.next_id \in Nat /\ \A i \in Used(o) : i < o.next_id
        BY <1>1, <2>6, <2>7, <2>8, <2>9
    <2>12. Arena(o)
        BY <2>2, <2>6, <2>10, <2>11 DEF Arena
    <2>13. Confined(o, base, w)
        BY <1>1, <2>6, <2>7, <2>8, <2>9, <2>12 DEF Confined
    <2> QED
        BY <2>5, <2>7, <2>13 DEF o
<1>3. P = [w \in WorkerIds |-> P[w]]
    OBVIOUS
<1>4. ASSUME NEW v \in WorkerIds, NEW w \in WorkerIds, v # w
      PROVE  Given(P[v].subnet, base) \cap Given(P[w].subnet, base) = {}
    <2> HIDE DEF P
    <2>1. Mine(n, sigma, v) \cap Mine(n, sigma, w) = {}
        BY <1>4 DEF Mine
    <2> QED
        BY <1>2, <2>1 DEF Given
<1> HIDE DEF P
<1>5. Reducing(base, P)
    BY <1>2, <1>3, <1>4 DEF Reducing
<1> QED
    BY <1>5 DEF P

(* One partition changes: what it uses of the ids below base, it had.      *)
LEMMA PartReplaced ==
    ASSUME NEW base, NEW P, Reducing(base, P), NEW u \in WorkerIds, NEW part,
           PartRecord(part), part.id_range = P[u].id_range, Confined(part.subnet, base, u),
           Given(part.subnet, base) \subseteq Given(P[u].subnet, base)
    PROVE  Reducing(base, [P EXCEPT ![u] = part])
<1> DEFINE Q == [P EXCEPT ![u] = part]
<1>1. /\ Q = [w \in WorkerIds |-> Q[w]]
      /\ Q[u] = part
      /\ \A w \in WorkerIds : w # u => Q[w] = P[w]
    <2>1. P = [w \in WorkerIds |-> P[w]]
        BY DEF Reducing
    <2> QED
        BY <2>1
<1> HIDE DEF Q
<1>2. \A w \in WorkerIds : /\ PartRecord(Q[w])
                            /\ Q[w].id_range = compute_id_ranges(w, base)
                            /\ Confined(Q[w].subnet, base, w)
    BY <1>1 DEF Reducing
<1>3. \A w \in WorkerIds : Given(Q[w].subnet, base) \subseteq Given(P[w].subnet, base)
    BY <1>1
<1>4. \A v, w \in WorkerIds :
          v # w => Given(Q[v].subnet, base) \cap Given(Q[w].subnet, base) = {}
    BY <1>3 DEF Reducing
<1>5. Reducing(base, Q)
    BY <1>1, <1>2, <1>4 DEF Reducing
<1> QED
    BY <1>5 DEF Q

(* A worker that grows inside its range stays confined to it.              *)
LEMMA ConfinedGrows ==
    ASSUME NEW base \in Nat, ~RangesClamped(base), NEW w \in WorkerIds,
           NEW sub, Confined(sub, base, w), NEW k \in Nat, NEW m, Grows(sub, m, k),
           m.next_id <= RangeEnd(w, base)
    PROVE  Confined(m, base, w) /\ Given(m, base) \subseteq Given(sub, base)
<1> DEFINE start == RangeStart(base, w)
<1>1. start \in Nat /\ base <= start
    BY RangesApart
<1>2. Arena(sub) /\ Arena(m) /\ sub.next_id \in Nat /\ m.next_id \in Nat
    BY DEF Confined, Grows, Arena
<1>3. start <= sub.next_id /\ sub.next_id <= m.next_id
    BY DEF Confined, Grows
<1>4. \A i \in Used(m) : i \in Nat
    BY <1>2, UsedIds
<1>5. \A i \in Used(sub) : i < base \/ start <= i
    BY DEF Confined
<1>6. \A i \in Used(m) : i \in Used(sub) \/ sub.next_id <= i
    BY DEF Grows
<1> HIDE DEF start
<1>8. \A i \in Used(m) : i < base \/ start <= i
    BY <1>1, <1>2, <1>3, <1>4, <1>5, <1>6
<1>9. start <= m.next_id /\ m.next_id <= RangeEnd(w, base)
    BY <1>1, <1>2, <1>3
<1>10. Confined(m, base, w)
    BY <1>2, <1>8, <1>9 DEF Confined, start
<1>11. Given(m, base) \subseteq Given(sub, base)
    <2> SUFFICES ASSUME NEW i \in Used(m), i < base
                 PROVE  i \in Used(sub)
        BY DEF Given
    <2>1. ~(sub.next_id <= i)
        BY <1>1, <1>2, <1>3, <1>4
    <2> QED
        BY <1>6, <2>1
<1> QED
    BY <1>10, <1>11

(* No id of two workers.                                                   *)
LEMMA ReducingApart ==
    ASSUME NEW base \in Nat, ~RangesClamped(base), NEW P, Reducing(base, P),
           NEW v \in WorkerIds, NEW w \in WorkerIds, v # w
    PROVE  Used(P[v].subnet) \cap Used(P[w].subnet) = {}
<1> SUFFICES ASSUME NEW i, i \in Used(P[v].subnet), i \in Used(P[w].subnet)
             PROVE  FALSE
    OBVIOUS
<1> DEFINE a == P[v].subnet
           b == P[w].subnet
<1>1. Confined(a, base, v) /\ Confined(b, base, w)
    BY DEF Reducing
<1>2. /\ RangeStart(base, v) \in Nat /\ RangeStart(base, w) \in Nat
      /\ RangeEnd(v, base) \in Nat /\ RangeEnd(w, base) \in Nat
      /\ RangeEnd(v, base) <= RangeStart(base, w) \/ RangeEnd(w, base) <= RangeStart(base, v)
    <2>1. v < w \/ w < v
        BY DEF WorkerIds
    <2> QED
        BY <2>1, RangesApart
<1>3. i \in Used(a) /\ i \in Used(b)
    OBVIOUS
<1>4. ~(i < base)
    <2>1. Given(a, base) \cap Given(b, base) = {}
        BY DEF Reducing
    <2> QED
        BY <1>3, <2>1 DEF Given
<1> HIDE DEF a, b
<1>5. /\ i \in Nat /\ i < a.next_id /\ i < b.next_id
      /\ a.next_id \in Nat /\ b.next_id \in Nat
    BY <1>1, <1>3, UsedIds DEF Confined, Arena
<1>6. /\ RangeStart(base, v) <= i /\ RangeStart(base, w) <= i
      /\ a.next_id <= RangeEnd(v, base) /\ b.next_id <= RangeEnd(w, base)
    BY <1>1, <1>3, <1>4 DEF Confined
<1> QED
    BY <1>2, <1>5, <1>6

-----------------------------------------------------------------------------
(* The actions that touch the net or the partitions.                       *)
LEMMA InitIds == Init => IdsInv
<1> SUFFICES ASSUME Init PROVE IdsKept
    BY DEF IdsInv
<1>1. net \in InitialNets /\ phase = "oracle"
    BY DEF Init, Called
<1>2. NetType(net) /\ FreeListAccounts(net)
    BY <1>1, InputAssumption
<1>3. NetRecord(net) /\ net.next_id \in Nat /\ validate_free_list(net)
      /\ net.agents \in [AgentIds -> Symbols \cup {None}] /\ net.free_list \in Seq(AgentIds)
    BY <1>2 DEF NetType, NetRecord, FreeListAccounts
<1>4. IsSeq(net.queue)
    <2>1. net.queue \in Seq(AgentIds \X AgentIds)
        BY <1>2 DEF NetType
    <2> QED
        BY <2>1 DEF IsSeq
<1>5. \A i \in Used(net) : i < net.next_id
    <2>1. Used(net) = 0 .. net.next_id - 1
        BY <1>2 DEF Used, FreeListAccounts
    <2> QED
        BY <1>3, <2>1
<1> QED
    BY <1>1, <1>3, <1>4, <1>5 DEF IdsKept, Arena

(* Outside the round's split and merge only the merged net matters.        *)
LEMMA NetAlone ==
    ASSUME Arena(net'), phase' \notin {"reduce", "merge", "restore"}
    PROVE  IdsKept'
BY DEF IdsKept

(* The actions of the loop, one by one.  split: what a worker is given is  *)
(* its own.                                                                *)
LEMMA SplitIds ==
    ASSUME IdsKept, NEW sigma, Split(sigma), "overlap" \notin marks'
    PROVE  IdsKept'
<1>1. /\ phase' = "reduce" /\ cursor' = 0 /\ net' = net
      /\ ~RangesClamped(net.next_id)
      /\ parts' = [w \in WorkerIds |-> Carried(split(net, sigma)[w])]
    BY DEF Split, Mark
<1>2. Arena(net)
    BY DEF IdsKept
<1>3. Reducing(net.next_id, parts')
    BY <1>1, <1>2, SplitReducing
<1>4. cursor' \in WorkerIds
    BY <1>1, PartitionAssumption DEF WorkerIds
<1>5. Arena(net') /\ ~RangesClamped(net'.next_id) /\ Reducing(net'.next_id, parts')
    BY <1>1, <1>2, <1>3
<1> QED
    BY <1>1, <1>4, <1>5 DEF IdsKept

(* A local reduction stays inside the range of its worker.                 *)
LEMMA LocalStepIds ==
    ASSUME IdsKept, LocalStep, "overlap" \notin marks'
    PROVE  IdsKept'
<1> DEFINE sub == parts[cursor].subnet
           m == reduce_step(sub)
           part == [parts[cursor] EXCEPT !.subnet = m]
           base == net.next_id
<1>1. /\ phase = "reduce" /\ phase' = phase /\ net' = net /\ cursor' = cursor
      /\ HasRoomFor(sub, 4)
      /\ parts' = [parts EXCEPT ![cursor].subnet = m]
      /\ "overlap" \notin LeftRange(parts'[cursor].subnet, parts[cursor].id_range)
    BY DEF LocalStep
<1>2. /\ Arena(net) /\ base \in Nat
      /\ ~RangesClamped(base)
      /\ cursor \in WorkerIds
      /\ Reducing(base, parts)
    BY <1>1 DEF IdsKept, Arena
<1>3. PartRecord(parts[cursor]) /\ Confined(sub, base, cursor) /\ Arena(sub)
      /\ sub.next_id \in Nat
    BY <1>2 DEF Reducing, Confined, Arena
<1>4. parts[cursor].id_range = compute_id_ranges(cursor, base)
    BY <1>2 DEF Reducing
<1> HIDE DEF base
<1>6. Grows(sub, m, 4)
    <2> HIDE DEF sub
    <2> QED
        BY <1>1, <1>3, StepGrows
<1>7. parts' = [parts EXCEPT ![cursor] = part]
    BY <1>1
<1>5. m.next_id <= RangeEnd(cursor, base)
    <2>1. parts'[cursor] = part
        <3>1. parts = [w \in WorkerIds |-> parts[w]]
            BY <1>2 DEF Reducing
        <3> HIDE DEF part
        <3> QED
            BY <1>2, <1>7, <3>1
    <2> HIDE DEF sub, m
    <2>2. parts'[cursor].subnet = m
        BY <1>3, <2>1 DEF PartRecord
    <2>3. ~(compute_id_ranges(cursor, base).end < m.next_id)
        BY <1>1, <1>4, <2>2 DEF LeftRange, Mark
    <2>4. ~(RangeEnd(cursor, base) < m.next_id)
        BY <2>3 DEF compute_id_ranges
    <2>5. RangeEnd(cursor, base) \in Nat /\ m.next_id \in Nat
        BY <1>2, <1>6, RangesApart DEF Grows, Arena
    <2> QED
        BY <2>4, <2>5
<1> HIDE DEF sub, m
<1>8. Confined(m, base, cursor) /\ Given(m, base) \subseteq Given(sub, base)
    BY <1>2, <1>3, <1>5, <1>6, ConfinedGrows
<1>9. PartRecord(part) /\ part.subnet = m /\ part.id_range = parts[cursor].id_range
    BY <1>3 DEF PartRecord
<1> HIDE DEF part
<1>10. Reducing(base, parts')
    BY <1>2, <1>7, <1>8, <1>9, PartReplaced DEF sub
<1> QED
    BY <1>1, <1>2, <1>10 DEF IdsKept, base

(* The end of a local reduction changes no id.                             *)
LEMMA LocalDoneIds ==
    ASSUME IdsKept, LocalDone
    PROVE  IdsKept'
<1> DEFINE sub == parts[cursor].subnet
           reduced == [parts[cursor] EXCEPT !.subnet.queue = <<>>]
           index == IF IsSelf(cursor) THEN reduced.free_port_index
                    ELSE rebuild_free_port_index(reduced)
           indexed == [reduced EXCEPT !.free_port_index = index]
           part == Carried(indexed)
           base == net.next_id
           e == <<>>
           m == [sub EXCEPT !.queue = e]
<1>1. /\ phase = "reduce" /\ net' = net
      /\ parts' = [parts EXCEPT ![cursor] = part]
      /\ \/ phase' = "merge" /\ cursor' = cursor
         \/ phase' = "reduce" /\ cursor' = cursor + 1 /\ cursor # NumWorkers - 1
    <2>1. phase = "reduce" /\ net' = net
        BY DEF LocalDone
    <2>2. parts' = [parts EXCEPT ![cursor] = part]
        BY DEF LocalDone
    <2>3. IF LastWorker(cursor)
          THEN cursor' = cursor /\ phase' = "merge"
          ELSE cursor' = cursor + 1 /\ phase' = phase
        BY DEF LocalDone
    <2> QED
        BY <2>1, <2>2, <2>3 DEF LastWorker
<1>2. /\ Arena(net) /\ base \in Nat
      /\ ~RangesClamped(base)
      /\ cursor \in WorkerIds
      /\ Reducing(base, parts)
    BY <1>1 DEF IdsKept, Arena
<1>3. PartRecord(parts[cursor]) /\ Confined(sub, base, cursor) /\ Arena(sub)
    BY <1>2 DEF Reducing, Confined
<1> HIDE DEF base, part
<1>4. reduced = [parts[cursor] EXCEPT !.subnet = m]
    BY <1>3 DEF PartRecord
<1>5. e = <<>>
    OBVIOUS
<1> HIDE DEF sub, reduced, e
<1>6. NetRecord(sub) /\ IsSeq(sub.queue) /\ IsSeq(e)
    BY <1>3, <1>5, NothingQueued DEF Arena
<1>7. Rewired(sub, m)
    BY <1>6, RequeuedRewires
<1> HIDE DEF m
<1>8. PartRecord(reduced) /\ reduced.subnet = m /\ reduced.id_range = parts[cursor].id_range
    BY <1>3, <1>4 DEF PartRecord
<1> HIDE DEF index
<1>9. PartRecord(indexed) /\ indexed.subnet = m /\ indexed.id_range = parts[cursor].id_range
    BY <1>8 DEF PartRecord
<1> HIDE DEF indexed
<1>10. PartRecord(part) /\ Rewired(m, part.subnet) /\ part.id_range = parts[cursor].id_range
    BY <1>7, <1>9, CarriedRewires DEF part, Rewired
<1>11. Grows(sub, part.subnet, 0)
    <2>1. Rewired(sub, part.subnet)
        BY <1>7, <1>10, RewiredAgain
    <2> QED
        BY <1>3, <2>1, RewiredGrows
<1>12. part.subnet.next_id <= RangeEnd(cursor, base)
    BY <1>3, <1>7, <1>10 DEF Confined, Rewired
<1>13. Confined(part.subnet, base, cursor) /\ Given(part.subnet, base) \subseteq Given(sub, base)
    BY <1>2, <1>3, <1>11, <1>12, ConfinedGrows
<1>14. Reducing(base, parts')
    BY <1>1, <1>2, <1>10, <1>13, PartReplaced DEF sub
<1>15. cursor' \in WorkerIds /\ phase' # "restore"
    BY <1>1, <1>2, PartitionAssumption DEF WorkerIds
<1> QED
    BY <1>1, <1>2, <1>14, <1>15 DEF IdsKept, base

(* merge, first step: next_id is past everything the partitions use.       *)
LEMMA UniteIds ==
    ASSUME IdsKept, MergeUnite
    PROVE  IdsKept'
<1>1. phase = "merge" /\ phase' = "restore" /\ parts' = parts /\ net' = Unite(parts, borders)
    BY DEF MergeUnite
<1>2. /\ Arena(net) /\ Reducing(net.next_id, parts) /\ net.next_id \in Nat
      /\ ~RangesClamped(net.next_id)
    BY <1>1 DEF IdsKept, Arena
<1>3. U32Max \in Nat
    BY NetAssumption
<1>4. ASSUME NEW w \in WorkerIds
      PROVE  Arena(parts[w].subnet) /\ parts[w].subnet.next_id <= U32Max
    <2> DEFINE sub == parts[w].subnet
    <2>1. Confined(sub, net.next_id, w)
        BY <1>2 DEF Reducing
    <2> HIDE DEF sub
    <2>2. Arena(sub) /\ sub.next_id \in Nat /\ sub.next_id <= RangeEnd(w, net.next_id)
        BY <2>1 DEF Confined, Arena
    <2>3. RangeEnd(w, net.next_id) \in Nat /\ RangeEnd(w, net.next_id) <= U32Max
        BY <1>2, RangesApart
    <2>4. sub.next_id <= U32Max
        BY <1>3, <2>2, <2>3
    <2> QED
        BY <2>2, <2>4 DEF sub
<1>5. Arena(net') /\ Restoring(net', parts')
    BY <1>1, <1>3, <1>4, UniteArena DEF Restoring
<1> QED
    BY <1>1, <1>5 DEF IdsKept

(* merge, a border restored: wires only.                                   *)
LEMMA RestoreIds ==
    ASSUME IdsKept, NEW b, MergeRestore(b)
    PROVE  IdsKept'
<1>1. phase = "restore" /\ phase' = phase /\ parts' = parts
      /\ net' = RestoreBorder(net, parts, borders, b)
    BY DEF MergeRestore
<1>2. Arena(net) /\ Restoring(net, parts)
    BY <1>1 DEF IdsKept
<1>3. Rewired(net, net')
    BY <1>1, <1>2, RestoreGrows
<1>4. Arena(net') /\ net'.next_id = net.next_id
    BY <1>2, <1>3, RewiredGrows DEF Grows, Rewired
<1>5. Restoring(net', parts')
    BY <1>1, <1>2, <1>4 DEF Restoring
<1> QED
    BY <1>1, <1>4, <1>5 DEF IdsKept

(* merge, last step: the free list of the merged net names dead ids, each  *)
(* once.                                                                   *)
LEMMA FinishIds ==
    ASSUME IdsKept, MergeFinish
    PROVE  IdsKept'
<1> DEFINE merged == ReconcileFreeList(net, parts)
           e == <<>>
<1>1. /\ phase = "restore" /\ phase' \in {"check", "resolve"}
      /\ net' = merged \/ net' = [merged EXCEPT !.queue = e]
    <2>1. phase = "restore" /\ phase' = IF Unresolved THEN "check" ELSE "resolve"
        BY DEF MergeFinish
    <2>2. net' = merged \/ net' = [merged EXCEPT !.queue = e]
        BY DEF MergeFinish
    <2> QED
        BY <2>1, <2>2
<1>2. Arena(net) /\ Restoring(net, parts)
    BY <1>1 DEF IdsKept
<1>3. Arena(merged)
    BY <1>2, ReconcileArena DEF Restoring
<1>4. e = <<>>
    OBVIOUS
<1> HIDE DEF merged, e
<1>5. Rewired(merged, [merged EXCEPT !.queue = e])
    BY <1>3, <1>4, NothingQueued, RequeuedRewires DEF Arena
<1>6. Arena(net')
    <2>1. Arena([merged EXCEPT !.queue = e])
        BY <1>3, <1>5, RewiredGrows DEF Grows
    <2> QED
        BY <1>1, <1>3, <2>1
<1> QED
    BY <1>1, <1>6, NetAlone

(* reduce_all on the merged net.                                           *)
LEMMA LenientIds ==
    ASSUME IdsKept, ResolveLenient
    PROVE  IdsKept'
<1>1. /\ net' = reduce_step(net)
      /\ HasRoomFor(net, 4) \/ FirstValid(net) = 0
      /\ phase' \in {"check", "resolve"}
    BY DEF ResolveLenient, IsNormalForm
<1>2. Arena(net)
    BY DEF IdsKept
<1>3. Arena(net')
    BY <1>1, <1>2, StepGrows DEF Grows
<1> QED
    BY <1>1, <1>3, NetAlone

(* reduce_border_once on the merged net.                                   *)
LEMMA StrictIds ==
    ASSUME IdsKept, ResolveStrict
    PROVE  IdsKept'
<1> DEFINE pair == Head(snapshot)
           q == <<pair>>
           alone == [net EXCEPT !.queue = q]
           stepped == reduce_step(alone)
           r == net.queue \o stepped.queue
<1>1. phase' = "resolve" /\ HasRoomFor(net, 4)
    BY DEF ResolveStrict
<1>2. net' = net \/ net' = [stepped EXCEPT !.queue = net.queue \o @]
    BY DEF ResolveStrict
<1>3. Arena(net) /\ NetRecord(net) /\ IsSeq(net.queue)
    BY DEF IdsKept, Arena
<1>4. IsSeq(q)
    <2>1. q \in Seq({pair})
        OBVIOUS
    <2> HIDE DEF q
    <2> QED
        BY <2>1 DEF IsSeq
<1> HIDE DEF q, pair
<1>5. Rewired(net, alone)
    BY <1>3, <1>4, RequeuedRewires
<1> HIDE DEF alone
<1>6. Arena(alone) /\ HasRoomFor(alone, 4)
    BY <1>1, <1>3, <1>5, RewiredGrows DEF Grows, Rewired, HasRoomFor
<1>7. Arena(stepped)
    BY <1>6, StepGrows DEF Grows
<1> HIDE DEF stepped
<1>8. IsSeq(r)
    BY <1>3, <1>7, ConcatSeq DEF Arena
<1>9. net' = net \/ net' = [stepped EXCEPT !.queue = r]
    BY <1>2, <1>7 DEF Arena, NetRecord
<1> HIDE DEF r
<1>10. Rewired(stepped, [stepped EXCEPT !.queue = r])
    BY <1>7, <1>8, RequeuedRewires DEF Arena
<1>11. Arena([stepped EXCEPT !.queue = r])
    BY <1>7, <1>10, RewiredGrows DEF Grows
<1>12. Arena(net')
    BY <1>3, <1>9, <1>11
<1> QED
    BY <1>1, <1>12, NetAlone

(* What a run has met, it has met.                                         *)
LEMMA MarksStay ==
    ASSUME [Next]_vars
    PROVE  marks \subseteq marks'
BY DEF Next, SequentialStep, Start, RoundLimit, Split, LocalStep, LocalDone, MergeUnite,
       MergeRestore, MergeFinish, ResolveLenient, ResolveStrict, ResolveStrictDone,
       CheckTermination, vars

(* The step, one case per action.                                          *)
LEMMA StepIds == IdsInv /\ [Next]_vars => IdsInv'
<1> SUFFICES ASSUME IdsInv, [Next]_vars, "overlap" \notin marks'
             PROVE  IdsKept'
    BY DEF IdsInv
<1>0. IdsKept /\ Arena(net)
    <2>1. "overlap" \notin marks
        BY MarksStay
    <2> QED
        BY <2>1 DEF IdsInv, IdsKept
<1>1. CASE SequentialStep
    BY <1>0, <1>1 DEF SequentialStep, gridVars, IdsKept
<1>2. CASE Start
    <2>1. net' = drain_stale_redexes(net) /\ phase' \in {"done", "split"}
        BY <1>2 DEF Start
    <2> QED
        BY <1>0, <2>1, DrainArena, NetAlone
<1>3. CASE RoundLimit
    BY <1>0, <1>3 DEF RoundLimit, gridVars, IdsKept
<1>4. CASE \E sigma \in Allocate(net) : Split(sigma)
    BY <1>0, <1>4, SplitIds
<1>5. CASE LocalStep
    BY <1>0, <1>5, LocalStepIds
<1>6. CASE LocalDone
    BY <1>0, <1>6, LocalDoneIds
<1>7. CASE MergeUnite
    BY <1>0, <1>7, UniteIds
<1>8. CASE \E b \in pending : MergeRestore(b)
    BY <1>0, <1>8, RestoreIds
<1>9. CASE MergeFinish
    BY <1>0, <1>9, FinishIds
<1>10. CASE ResolveLenient
    BY <1>0, <1>10, LenientIds
<1>11. CASE ResolveStrict
    BY <1>0, <1>11, StrictIds
<1>12. CASE ResolveStrictDone
    BY <1>0, <1>12 DEF ResolveStrictDone, gridVars, IdsKept
<1>13. CASE CheckTermination
    <2>1. net' = drain_stale_redexes(net) /\ phase' \in {"done", "split"}
        BY <1>13 DEF CheckTermination
    <2> QED
        BY <1>0, <2>1, DrainArena, NetAlone
<1>14. CASE UNCHANGED vars
    BY <1>0, <1>14 DEF vars, gridVars, IdsKept
<1> QED
    BY <1>1, <1>2, <1>3, <1>4, <1>5, <1>6, <1>7, <1>8, <1>9, <1>10, <1>11, <1>12, <1>13,
       <1>14 DEF Next

(* The invariant implies the property.                                     *)
LEMMA InvConfines == IdsInv => IdsConfined
<1> SUFFICES ASSUME IdsInv, phase \in {"reduce", "merge"}, "overlap" \notin marks
             PROVE  /\ \A w \in WorkerIds : WireAccepts(parts[w].subnet)
                    /\ \A v, w \in WorkerIds : v # w =>
                           (Live(parts[v].subnet) \cup ToSet(parts[v].subnet.free_list))
                           \cap (Live(parts[w].subnet) \cup ToSet(parts[w].subnet.free_list))
                           = {}
    BY DEF IdsConfined
<1>1. Reducing(net.next_id, parts) /\ net.next_id \in Nat /\ ~RangesClamped(net.next_id)
    BY DEF IdsInv, IdsKept, Arena
<1>2. ASSUME NEW w \in WorkerIds
      PROVE  WireAccepts(parts[w].subnet)
    <2>1. Arena(parts[w].subnet)
        BY <1>1 DEF Reducing, Confined
    <2> QED
        BY <2>1 DEF WireAccepts, Arena, Used
<1>3. \A v, w \in WorkerIds : v # w => Used(parts[v].subnet) \cap Used(parts[w].subnet) = {}
    BY <1>1, ReducingApart
<1> QED
    BY <1>2, <1>3 DEF Used

(* Every net of the loop accounts for its ids, and while the workers       *)
(* reduce each of them stays inside what it was given and its own range.   *)
THEOREM IdsInductive == Spec => []IdsInv
BY InitIds, StepIds, PTL DEF Spec

(* D4 and SPEC-22 R10c: no agent id is ever live or free in two partitions *)
(* of a round, and every partition has a free list its receiver accepts,   *)
(* whatever compute_id_ranges, recycling and the rules do in between.      *)
THEOREM IdsConfinedCorrect == Spec => []IdsConfined
BY InvConfines, IdsInductive, PTL
=============================================================================
