-------------------------- MODULE DeltaGrid_proofs --------------------------
(***************************************************************************)
(* Proofs about the border graph of the delta protocol, for any nets, any  *)
(* allocation, any number of workers and rounds: its set of active redexes *)
(* is exact, no queued border waits for a mint nobody reports, and until   *)
(* the first agent is minted the graph is what the workers hold.           *)
(*                                                                         *)
(* The inductive invariant DeltaInv says, for the stages of the loop:      *)
(*   - PartsSound, MessagesSound: every port, redirect, border end and     *)
(*     message holds a PortRef, or a mark of an agent to be minted where   *)
(*     the code allows one, and a worker's previous_border_state is the    *)
(*     index of the partition it holds;                                    *)
(*   - GraphSound: the borders of the graph are whole, the active ones are *)
(*     those whose is_redex is set, and what is queued waits for a mint;   *)
(*   - EveryMintOwed: for every end that waits there is an echo among the  *)
(*     results of the round, or a batch at a worker still to answer;       *)
(*   - GraphFollows, GraphAgrees: an end in the graph is the worker's own, *)
(*     up to a delta among the results, and then exactly.                  *)
(***************************************************************************)
EXTENDS DeltaGrid, FiniteSetTheorems, WellFoundedInduction, TLAPS

IsSeq(q) == \E S : q \in Seq(S)

(* A PortRef of the code, as opposed to the end of a queued border whose   *)
(* agent has still to be minted and to a slot of a batch.                  *)
Plain(r) == IsAgentPort(r) \/ IsFreePort(r)

(* A Net of the code: a record with exactly these fields.                  *)
NetRecord(n) ==
    n = [agents |-> n.agents, ports |-> n.ports, queue |-> n.queue,
         next_id |-> n.next_id, free_list |-> n.free_list,
         redirects |-> n.redirects, shadow |-> n.shadow,
         protected |-> n.protected, policy |-> n.policy, root |-> n.root]

PlainPorts(ports) ==
    /\ ports = [i \in AgentIds |-> ports[i]]
    /\ \A i \in AgentIds : ports[i] = [p \in PortIds |-> ports[i][p]]
    /\ \A i \in AgentIds, p \in PortIds : Plain(ports[i][p])

PlainRedirects(redirects) ==
    /\ IsFiniteSet(DOMAIN redirects)
    /\ \A k \in DOMAIN redirects : Plain(redirects[k])

PlainNet(n) ==
    /\ NetRecord(n)
    /\ n.agents \in [AgentIds -> Symbols \cup {None}]
    /\ PlainPorts(n.ports)
    /\ IsSeq(n.queue)
    /\ PlainRedirects(n.redirects)

PlainPart(p) ==
    /\ p = [subnet |-> p.subnet, free_port_index |-> p.free_port_index,
            id_range |-> p.id_range, border_start |-> p.border_start,
            border_end |-> p.border_end]
    /\ PlainNet(p.subnet)

PlainIndex(index) ==
    /\ IsFiniteSet(DOMAIN index)
    /\ \A b \in DOMAIN index : Plain(index[b])

(* A border of the graph.                                                  *)
PlainState(st) ==
    /\ st = BorderState(st.side_a, st.side_b, st.worker_a, st.worker_b)
    /\ Plain(st.side_a)
    /\ Plain(st.side_b)
    /\ st.worker_a \in WorkerIds
    /\ st.worker_b \in WorkerIds

(* A queued border: one end at least is an agent to be minted.             *)
QueuedEnd(r) == Plain(r) \/ IsPending(r)

Queued(p) ==
    /\ QueuedEnd(p.side_a)
    /\ QueuedEnd(p.side_b)
    /\ IsPending(p.side_a) \/ IsPending(p.side_b)
    /\ p.worker_a \in WorkerIds
    /\ p.worker_b \in WorkerIds

BatchSound(x) ==
    /\ x.worker \in WorkerIds
    /\ x.symbols \in Seq(Symbols)
    /\ IsSeq(x.wiring)
    /\ \A h \in ToSet(x.wiring) : h[3][1] = "slot" \/ Plain(h[3])

PayloadSound(d) ==
    /\ d = [resolved |-> d.resolved, new |-> d.new, reconnect |-> d.reconnect,
            batches |-> d.batches]
    /\ IsFiniteSet(d.resolved)
    /\ IsSeq(d.new)
    /\ \A e \in ToSet(d.new) : Plain(e[2])
    /\ IsSeq(d.reconnect)
    /\ \A ab \in ToSet(d.reconnect) : Plain(ab[1]) /\ Plain(ab[2])
    /\ IsSeq(d.batches)
    /\ \A x \in ToSet(d.batches) : BatchSound(x)

DeltasSound(deltas) ==
    /\ IsFiniteSet(deltas)
    /\ \A d \in deltas : Plain(d[2])

ResultSound(r) ==
    /\ r.worker \in WorkerIds
    /\ DeltasSound(r.deltas)
    /\ IsSeq(r.echoes)

PromotionSound(p) == p = <<p[1], p[2]>> /\ PlainState(p[2])

(* Batch x will mint the agent the end r waits for.                        *)
MintsFor(x, r) == x.cid = r[2] /\ r[3] \in 0 .. Len(x.symbols) - 1

ResolutionSound(res) ==
    /\ IsSeq(res.reconnect)
    /\ \A ab \in ToSet(res.reconnect) : Plain(ab[1]) /\ Plain(ab[2])
    /\ IsSeq(res.batches)
    /\ \A x \in ToSet(res.batches) : BatchSound(x)
    /\ IsSeq(res.pending)
    /\ \A p \in ToSet(res.pending) : Queued(p)
    /\ \A p \in ToSet(res.pending) : \A r \in {p.side_a, p.side_b} :
           IsPending(r) => \E x \in ToSet(res.batches) : MintsFor(x, r)

GraphBorders(g) ==
    /\ g = [borders |-> g.borders, active |-> g.active, pending |-> g.pending,
            mints |-> g.mints]
    /\ g.borders = [b \in DOMAIN g.borders |-> g.borders[b]]
    /\ \A b \in DOMAIN g.borders : PlainState(g.borders[b])
    /\ g.active = {b \in DOMAIN g.borders : g.borders[b].is_redex}

GraphQueue(g) == IsSeq(g.pending) /\ \A p \in ToSet(g.pending) : Queued(p)

GraphSound(g) == GraphBorders(g) /\ GraphQueue(g)

PartsSound ==
    /\ parts = [w \in WorkerIds |-> parts[w]]
    /\ cache = [w \in WorkerIds |-> cache[w]]
    /\ reported = [w \in WorkerIds |-> reported[w]]
    /\ \A w \in WorkerIds :
           /\ PlainPart(parts[w])
           /\ PlainPart(cache[w])
           /\ PlainIndex(reported[w])
           /\ parts[w].free_port_index = reported[w]

(* The end of border b in a worker's index.                                *)
End(index, b) == IF b \in DOMAIN index THEN index[b] ELSE DISCONNECTED

MessagesSound ==
    /\ dispatch = [w \in WorkerIds |-> dispatch[w]]
    /\ \A w \in WorkerIds : PayloadSound(dispatch[w])
    /\ IsSeq(results)
    /\ \A k \in DOMAIN results : ResultSound(results[k])
    /\ \A k \in DOMAIN results : \A d \in results[k].deltas :
           d[2] = End(reported[results[k].worker], d[1])
    /\ \A j, k \in DOMAIN results : results[j].worker = results[k].worker => j = k
    /\ IsSeq(promoted)
    /\ \A p \in ToSet(promoted) : PromotionSound(p)
    /\ IsSeq(resolved)
    /\ \A r \in ToSet(resolved) : ResolutionSound(r[3])

(* The mint the end r waits for has been reported or will be, this round.  *)
Echoed(echoes, r) == \E m \in ToSet(echoes) : <<m[1], m[2]>> = MintKey(r[2], r[3])

Owed(r) ==
    \/ \E k \in DOMAIN results : Echoed(results[k].echoes, r)
    \/ \E w \in WorkerIds \ Answered : \E x \in ToSet(dispatch[w].batches) : MintsFor(x, r)

EveryMintOwed ==
    \A p \in ToSet(graph.pending) : \A r \in {p.side_a, p.side_b} : IsPending(r) => Owed(r)

(* Until an agent is minted, a border joins two workers, and its ends in   *)
(* the graph are what the workers hold, up to the deltas on their way.     *)
Follows(w, b, side) ==
    \/ side = End(reported[w], b)
    \/ \E k \in DOMAIN results : results[k].worker = w /\ \E d \in results[k].deltas : d[1] = b

GraphFollows ==
    DOMAIN graph.mints = {} =>
        \A b \in DOMAIN graph.borders :
            LET st == graph.borders[b]
            IN  /\ st.worker_a # st.worker_b
                /\ Follows(st.worker_a, b, st.side_a)
                /\ Follows(st.worker_b, b, st.side_b)

GraphAgrees ==
    DOMAIN graph.mints = {} =>
        \A b \in DOMAIN graph.borders :
            LET st == graph.borders[b]
            IN  /\ st.worker_a # st.worker_b
                /\ st.side_a = End(reported[st.worker_a], b)
                /\ st.side_b = End(reported[st.worker_b], b)

AtStart ==
    /\ input \in InitialNets
    /\ dispatch = [w \in WorkerIds |-> EmptyPayload]
    /\ results = <<>>
    /\ promoted = <<>>
    /\ resolved = <<>>

DeltaInv ==
    /\ GraphSound(graph)
    /\ stage = "start" => AtStart
    /\ stage \in {"round", "resolve"} => PartsSound /\ MessagesSound
    /\ stage = "round" => resolved = <<>> /\ EveryMintOwed /\ GraphFollows
    /\ stage = "resolve" =>
           graph.pending = <<>> /\ todo \subseteq DOMAIN graph.borders /\ GraphAgrees
-----------------------------------------------------------------------------
(* Sequences.  A bounded set of numbers has a largest one.                 *)
LEMMA LargestExists ==
    ASSUME NEW S, S # {}, NEW top \in Nat, S \subseteq 0 .. top
    PROVE  \E x \in S : \A y \in S : y <= x
<1> DEFINE I == {top - x : x \in S}
<1>1. I \subseteq Nat /\ I # {}
    <2>1. \A x \in S : top - x \in Nat
        OBVIOUS
    <2> QED
        BY <2>1
<1>2. PICK z \in I : \A y \in I : ~(<<y, z>> \in OpToRel(<, Nat))
    <2> HIDE DEF I
    <2> QED
        BY <1>1, NatLessThanWellFounded, WFMin
<1>3. PICK x \in S : z = top - x
    OBVIOUS
<1>4. ASSUME NEW y \in S PROVE y <= x
    <2>1. top - y \in I /\ z \in I
        OBVIOUS
    <2>2. top - y \in Nat /\ z \in Nat
        BY <1>1, <2>1
    <2>3. ~(top - y < z)
        BY <1>2, <2>1, <2>2 DEF OpToRel
    <2> QED
        BY <1>3, <2>2, <2>3
<1> QED
    BY <1>4

(* Max is the largest element of a bounded set of numbers.                 *)
LEMMA LargestIs ==
    ASSUME NEW S, S # {}, NEW top \in Nat, S \subseteq 0 .. top
    PROVE  Max(S) \in S /\ \A y \in S : y <= Max(S)
<1>1. PICK x \in S : \A y \in S : y <= x
    BY LargestExists
<1>2. \A y \in S : x >= y
    BY <1>1
<1>3. Max(S) \in S /\ \A y \in S : Max(S) >= y
    BY <1>2 DEF Max
<1> QED
    BY <1>3

(* What is known of the positions of a sequence.                           *)
LEMMA Positions ==
    ASSUME NEW q, IsSeq(q)
    PROVE  /\ Len(q) \in Nat
           /\ DOMAIN q = 1 .. Len(q)
           /\ IsFiniteSet(DOMAIN q)
           /\ \A s \in SUBSET DOMAIN q : s # {} => Max(s) \in s
<1>1. Len(q) \in Nat /\ DOMAIN q = 1 .. Len(q)
    BY DEF IsSeq
<1>2. IsFiniteSet(DOMAIN q)
    BY <1>1, FS_Interval
<1>3. \A s \in SUBSET DOMAIN q : s \subseteq 0 .. Len(q)
    BY <1>1
<1> QED
    BY <1>1, <1>2, <1>3, LargestIs

(* The empty sequence.                                                     *)
LEMMA NothingIn == IsSeq(<<>>) /\ ToSet(<<>>) = {} /\ DOMAIN <<>> = {}
<1>1. <<>> \in Seq({})
    OBVIOUS
<1>2. DOMAIN <<>> = {}
    OBVIOUS
<1> QED
    BY <1>1, <1>2 DEF IsSeq, ToSet

(* A sequence with one element more.                                       *)
LEMMA AppendIn ==
    ASSUME NEW q, IsSeq(q), NEW e
    PROVE  /\ IsSeq(Append(q, e))
           /\ ToSet(Append(q, e)) = ToSet(q) \cup {e}
           /\ Len(Append(q, e)) = Len(q) + 1
           /\ Append(q, e)[Len(q) + 1] = e
           /\ \A k \in DOMAIN q : Append(q, e)[k] = q[k]
           /\ DOMAIN Append(q, e) = DOMAIN q \cup {Len(q) + 1}
<1>1. PICK S : q \in Seq(S)
    BY DEF IsSeq
<1>2. q \in Seq(S \cup {e})
    BY <1>1
<1>3. Append(q, e) \in Seq(S \cup {e})
    BY <1>2
<1>4. /\ Len(q) \in Nat
      /\ DOMAIN q = 1 .. Len(q)
      /\ Len(Append(q, e)) = Len(q) + 1
      /\ Append(q, e)[Len(q) + 1] = e
      /\ \A k \in DOMAIN q : Append(q, e)[k] = q[k]
      /\ DOMAIN Append(q, e) = 1 .. Len(q) + 1
    BY <1>2
<1>5. DOMAIN Append(q, e) = DOMAIN q \cup {Len(q) + 1}
    BY <1>4
<1>6. ToSet(Append(q, e)) = ToSet(q) \cup {e}
    <2> DEFINE r == Append(q, e)
    <2>1. DOMAIN r = DOMAIN q \cup {Len(q) + 1} /\ r[Len(q) + 1] = e
          /\ \A k \in DOMAIN q : r[k] = q[k]
        BY <1>4, <1>5
    <2> HIDE DEF r
    <2>2. ToSet(r) = ToSet(q) \cup {e}
        BY <2>1 DEF ToSet
    <2> QED
        BY <2>2 DEF r
<1> QED
    BY <1>3, <1>4, <1>5, <1>6 DEF IsSeq

(* Two sequences in a row.                                                 *)
LEMMA ConcatIn ==
    ASSUME NEW q, IsSeq(q), NEW r, IsSeq(r)
    PROVE  /\ IsSeq(q \o r)
           /\ ToSet(q \o r) = ToSet(q) \cup ToSet(r)
<1>1. PICK S : q \in Seq(S)
    BY DEF IsSeq
<1>2. PICK T : r \in Seq(T)
    BY DEF IsSeq
<1>3. q \in Seq(S \cup T) /\ r \in Seq(S \cup T)
    BY <1>1, <1>2
<1>4. q \o r \in Seq(S \cup T)
    BY <1>3
<1>5. /\ Len(q) \in Nat /\ DOMAIN q = 1 .. Len(q)
      /\ Len(r) \in Nat /\ DOMAIN r = 1 .. Len(r)
      /\ DOMAIN (q \o r) = 1 .. Len(q) + Len(r)
      /\ \A k \in 1 .. Len(q) + Len(r) :
             (q \o r)[k] = IF k <= Len(q) THEN q[k] ELSE r[k - Len(q)]
    BY <1>3
<1>6. ToSet(q \o r) = ToSet(q) \cup ToSet(r)
    <2> DEFINE u == q \o r
    <2>1. DOMAIN u = 1 .. Len(q) + Len(r)
          /\ \A k \in 1 .. Len(q) + Len(r) : u[k] = IF k <= Len(q) THEN q[k] ELSE r[k - Len(q)]
        BY <1>5
    <2> HIDE DEF u
    <2>2. \A k \in DOMAIN u : u[k] \in ToSet(q) \cup ToSet(r)
        BY <1>5, <2>1 DEF ToSet
    <2>3. \A k \in DOMAIN q : q[k] = u[k] /\ k \in DOMAIN u
        BY <1>5, <2>1
    <2>4. \A k \in DOMAIN r : r[k] = u[k + Len(q)] /\ k + Len(q) \in DOMAIN u
        BY <1>5, <2>1
    <2>5. ToSet(u) = ToSet(q) \cup ToSet(r)
        BY <2>2, <2>3, <2>4 DEF ToSet
    <2> QED
        BY <2>5 DEF u
<1> QED
    BY <1>4, <1>6 DEF IsSeq

(* A function on the positions 1 .. n is a sequence.                       *)
LEMMA TableIn ==
    ASSUME NEW n \in Nat, NEW q, q = [k \in 1 .. n |-> q[k]]
    PROVE  IsSeq(q) /\ Len(q) = n
<1> DEFINE S == {q[k] : k \in 1 .. n}
<1>1. q \in [1 .. n -> S]
    OBVIOUS
<1>2. q \in Seq(S)
    BY <1>1
<1>3. Len(q) = n
    BY <1>1, <1>2
<1> HIDE DEF S
<1> QED
    BY <1>2, <1>3 DEF IsSeq

(* Sequences of one and of two elements.                                   *)
LEMMA OneIn ==
    ASSUME NEW x
    PROVE  IsSeq(<<x>>) /\ ToSet(<<x>>) = {x}
<1>1. <<x>> \in Seq({x}) /\ DOMAIN <<x>> = {1} /\ <<x>>[1] = x
    OBVIOUS
<1> QED
    BY <1>1 DEF IsSeq, ToSet

(* A sequence of two elements.                                             *)
LEMMA TwoIn ==
    ASSUME NEW x, NEW y
    PROVE  IsSeq(<<x, y>>) /\ ToSet(<<x, y>>) = {x, y}
<1>1. <<x, y>> \in Seq({x, y}) /\ DOMAIN <<x, y>> = {1, 2} /\ <<x, y>>[1] = x /\ <<x, y>>[2] = y
    OBVIOUS
<1> QED
    BY <1>1 DEF IsSeq, ToSet

-----------------------------------------------------------------------------
(* Nets.  The operations of net/core.rs keep a net plain.                  *)
LEMMA PlainConstants ==
    /\ Plain(DISCONNECTED)
    /\ \A id, p : Plain(AgentPort(id, p)) /\ ~IsPending(AgentPort(id, p))
    /\ \A k : Plain(FreePort(k)) /\ ~IsPending(FreePort(k))
    /\ \A r : Plain(r) => ~IsPending(r)
    /\ \A c, s, p : IsPending(Pending(c, s, p))
BY DEF Plain, DISCONNECTED, FreePort, AgentPort, IsAgentPort, IsFreePort, IsPending, Pending

(* A net with other ports.                                                 *)
LEMMA PortsPlain ==
    ASSUME NEW n, PlainNet(n), NEW ports, PlainPorts(ports), NEW m, m = [n EXCEPT !.ports = ports]
    PROVE  PlainNet(m)
BY DEF PlainNet, NetRecord

(* A net with another queue and other redirects.                           *)
LEMMA QueuePlain ==
    ASSUME NEW n, PlainNet(n), NEW redirects, PlainRedirects(redirects), NEW queue, IsSeq(queue),
           NEW m, m = [n EXCEPT !.redirects = redirects, !.queue = queue]
    PROVE  PlainNet(m)
BY DEF PlainNet, NetRecord

(* set_port.                                                               *)
LEMMA SetPortPlain ==
    ASSUME NEW n, PlainNet(n), NEW r, NEW target, Plain(target)
    PROVE  PlainNet(set_port(n, r, target))
<1>1. CASE IsAgentPort(r)
    <2> DEFINE ps == [n.ports EXCEPT ![r[2]][r[3]] = target]
    <2>1. set_port(n, r, target) = [n EXCEPT !.ports = ps]
        BY <1>1 DEF set_port, PlainNet, NetRecord
    <2>2. PlainPorts(n.ports)
        BY DEF PlainNet
    <2>3. PlainPorts(ps)
        BY <2>2 DEF PlainPorts
    <2> HIDE DEF ps
    <2> QED
        BY <2>1, <2>3, PortsPlain
<1>2. CASE ~IsAgentPort(r)
    BY <1>2 DEF set_port
<1> QED
    BY <1>1, <1>2

(* disconnect.                                                             *)
LEMMA DisconnectPlain ==
    ASSUME NEW n, PlainNet(n), NEW r
    PROVE  PlainNet(disconnect(n, r))
BY SetPortPlain, PlainConstants DEF disconnect

(* A map with one entry more.                                              *)
LEMMA PutEntry ==
    ASSUME NEW f, NEW k, NEW v
    PROVE  /\ DOMAIN Put(f, k, v) = DOMAIN f \cup {k}
           /\ Put(f, k, v)[k] = v
           /\ \A x \in DOMAIN f : x # k => Put(f, k, v)[x] = f[x]
           /\ IsFiniteSet(DOMAIN f) => IsFiniteSet(DOMAIN Put(f, k, v))
<1>1. IsFiniteSet(DOMAIN f) => IsFiniteSet(DOMAIN f \cup {k})
    BY FS_AddElement
<1> QED
    BY <1>1 DEF Put

(* The redirects a wire between two FreePorts leaves.                      *)
LEMMA RedirectedPlain ==
    ASSUME NEW n, PlainNet(n), NEW a, Plain(a), NEW b, Plain(b)
    PROVE  PlainRedirects(Redirected(n, a, b))
<1> DEFINE put(f, k, r) == IF k = U32Max THEN f ELSE Put(f, k, r)
<1>1. ASSUME NEW f, PlainRedirects(f), NEW k, NEW r, Plain(r)
      PROVE  PlainRedirects(put(f, k, r))
    <2>1. CASE k = U32Max
        BY <1>1, <2>1
    <2>2. CASE k # U32Max
        <3> DEFINE g == Put(f, k, r)
        <3>1. /\ DOMAIN g = DOMAIN f \cup {k} /\ g[k] = r
              /\ \A x \in DOMAIN f : x # k => g[x] = f[x]
              /\ IsFiniteSet(DOMAIN g)
            <4>1. IsFiniteSet(DOMAIN f)
                BY <1>1 DEF PlainRedirects
            <4>2. DOMAIN g = DOMAIN f \cup {k} /\ g[k] = r
                  /\ \A x \in DOMAIN f : x # k => g[x] = f[x]
                BY DEF Put
            <4>3. IsFiniteSet(DOMAIN f \cup {k})
                BY <4>1, FS_AddElement
            <4> QED
                BY <4>2, <4>3
        <3> HIDE DEF g
        <3>2. PlainRedirects(g)
            BY <1>1, <3>1 DEF PlainRedirects
        <3> QED
            BY <2>2, <3>2 DEF g
    <2> QED
        BY <2>1, <2>2
<1>2. PlainRedirects(n.redirects)
    BY DEF PlainNet
<1>3. PlainRedirects(put(put(n.redirects, a[2], b), b[2], a))
    <2> HIDE DEF put
    <2> QED
        BY <1>1, <1>2
<1>4. Redirected(n, a, b) = IF IsFreePort(a) /\ IsFreePort(b)
                            THEN put(put(n.redirects, a[2], b), b[2], a) ELSE n.redirects
    BY DEF Redirected
<1> HIDE DEF put
<1> QED
    BY <1>2, <1>3, <1>4

(* connect.                                                                *)
LEMMA ConnectPlain ==
    ASSUME NEW n, PlainNet(n), NEW a, Plain(a), NEW b, Plain(b)
    PROVE  PlainNet(connect(n, a, b))
<1> DEFINE m == set_port(n, a, b)
           o == set_port(m, b, a)
           pushed == IF IsPrincipal(a) /\ IsPrincipal(b)
                     THEN Append(o.queue, <<a[2], b[2]>>) ELSE o.queue
           red == Redirected(n, a, b)
<1>1. PlainNet(m)
    BY SetPortPlain
<1>2. PlainNet(o)
    <2> HIDE DEF m
    <2> QED
        BY <1>1, SetPortPlain
<1>3. PlainRedirects(red)
    BY RedirectedPlain
<1>4. connect(n, a, b) = [o EXCEPT !.redirects = red, !.queue = pushed]
    BY DEF connect
<1>5. IsSeq(pushed)
    <2> HIDE DEF o
    <2> QED
        BY <1>2, AppendIn DEF PlainNet
<1> HIDE DEF o, red, pushed
<1> QED
    BY <1>2, <1>3, <1>4, <1>5, QueuePlain

(* link.                                                                   *)
LEMMA LinkPlain ==
    ASSUME NEW n, PlainNet(n), NEW a, Plain(a), NEW b, Plain(b)
    PROVE  PlainNet(link(n, a, b))
BY ConnectPlain DEF link

(* remove_agent.                                                           *)
LEMMA RemovePlain ==
    ASSUME NEW n, PlainNet(n), NEW id
    PROVE  PlainNet(remove_agent(n, id))
<1>1. CASE id \notin Live(n)
    BY <1>1 DEF remove_agent
<1>2. CASE id \in Live(n)
    <2> DEFINE d0 == disconnect(n, AgentPort(id, 0))
               d2 == IF arity(n.agents[id]) = 0 THEN d0
                     ELSE disconnect(disconnect(d0, AgentPort(id, 1)), AgentPort(id, 2))
               ags == [d2.agents EXCEPT ![id] = None]
               red == PurgedRedirects(n, id)
               list == IF is_border_protected(n, id) THEN d2.free_list ELSE Append(d2.free_list, id)
    <2>1. PlainNet(d0)
        BY DisconnectPlain
    <2>2. PlainNet(d2)
        <3> HIDE DEF d0
        <3> QED
            BY <2>1, DisconnectPlain
    <2>3. remove_agent(n, id) = [d2 EXCEPT !.agents[id] = None, !.redirects = red, !.free_list = list]
        BY <1>2 DEF remove_agent
    <2>4. PlainRedirects(red)
        <3>1. PlainRedirects(n.redirects)
            BY DEF PlainNet
        <3>2. DOMAIN red \subseteq DOMAIN n.redirects /\ \A k \in DOMAIN red : red[k] = n.redirects[k]
            BY DEF PurgedRedirects
        <3> HIDE DEF red
        <3> QED
            BY <3>1, <3>2, FS_Subset DEF PlainRedirects
    <2> HIDE DEF d0, d2, red, list
    <2>5. ags \in [AgentIds -> Symbols \cup {None}]
        BY <2>2 DEF PlainNet
    <2>6. remove_agent(n, id) = [agents |-> ags, ports |-> d2.ports, queue |-> d2.queue,
              next_id |-> d2.next_id, free_list |-> list, redirects |-> red, shadow |-> d2.shadow,
              protected |-> d2.protected, policy |-> d2.policy, root |-> d2.root]
        BY <2>2, <2>3 DEF PlainNet, NetRecord
    <2> HIDE DEF ags
    <2> QED
        BY <2>2, <2>4, <2>5, <2>6 DEF PlainNet, NetRecord
<1> QED
    BY <1>1, <1>2

(* create_agent, whether it recycles an id or takes a new one.             *)
LEMMA CreatePlain ==
    ASSUME NEW n, PlainNet(n), NEW sym \in Symbols
    PROVE  PlainNet(create_agent(n, sym))
<1> DEFINE id == NewAgentId(n)
           ags == [n.agents EXCEPT ![id] = sym]
           blank == [p \in PortIds |-> DISCONNECTED]
           ps == [n.ports EXCEPT ![id] = blank]
           list == RemoveAt(n.free_list, Recycled(n))
           slot == [n EXCEPT !.agents[id] = sym]
<1>1. ags \in [AgentIds -> Symbols \cup {None}]
    BY DEF PlainNet
<1>2. PlainPorts(ps)
    <2>1. PlainPorts(n.ports) /\ Plain(DISCONNECTED)
        BY PlainConstants DEF PlainNet
    <2> HIDE DEF id
    <2> QED
        BY <2>1 DEF PlainPorts
<1>3. create_agent(n, sym) = IF Recycled(n) = 0 THEN [slot EXCEPT !.next_id = @ + 1]
                             ELSE [slot EXCEPT !.free_list = RemoveAt(@, Recycled(n)), !.ports[id] = blank]
    BY DEF create_agent
<1> HIDE DEF id, blank
<1>4. slot = [agents |-> ags, ports |-> n.ports, queue |-> n.queue,
              next_id |-> n.next_id, free_list |-> n.free_list, redirects |-> n.redirects,
              shadow |-> n.shadow, protected |-> n.protected, policy |-> n.policy, root |-> n.root]
    BY DEF PlainNet, NetRecord
<1> HIDE DEF ags, slot
<1>5. CASE Recycled(n) = 0
    <2>1. create_agent(n, sym) = [slot EXCEPT !.next_id = n.next_id + 1]
        BY <1>3, <1>4, <1>5
    <2> QED
        BY <1>1, <1>4, <2>1 DEF PlainNet, NetRecord
<1>6. CASE Recycled(n) # 0
    <2>1. create_agent(n, sym) = [agents |-> ags, ports |-> ps, queue |-> n.queue,
              next_id |-> n.next_id, free_list |-> list, redirects |-> n.redirects,
              shadow |-> n.shadow, protected |-> n.protected, policy |-> n.policy, root |-> n.root]
        <3> HIDE DEF list
        <3>1. create_agent(n, sym) = [slot EXCEPT !.free_list = list, !.ports = ps]
            BY <1>3, <1>4, <1>6 DEF list
        <3> HIDE DEF ps
        <3> QED
            BY <3>1, <1>4
    <2> HIDE DEF ps, list
    <2> QED
        BY <1>1, <1>2, <2>1 DEF PlainNet, NetRecord
<1> QED
    BY <1>5, <1>6

(* A port of a live agent.                                                 *)
LEMMA AuxPlain ==
    ASSUME NEW n, PlainNet(n), NEW id \in Live(n), NEW p \in PortIds
    PROVE  Plain(Aux(n, id, p))
BY DEF Aux, get_target, AgentPort, IsAgentPort, Live, PlainNet, PlainPorts

-----------------------------------------------------------------------------
(* The interaction rules keep a net plain.                                 *)
LEMMA RulesPlain ==
    ASSUME NEW n, PlainNet(n), NEW a \in Live(n), NEW b \in Live(n)
    PROVE  /\ PlainNet(interact_void(n, a, b))
           /\ PlainNet(interact_anni(n, a, b))
           /\ PlainNet(interact_eras(n, a, b))
           /\ PlainNet(interact_comm(n, a, b))
<1> DEFINE a1 == Aux(n, a, 1)
           a2 == Aux(n, a, 2)
           b1 == Aux(n, b, 1)
           b2 == Aux(n, b, 2)
           m == remove_agent(remove_agent(n, a), b)
<1>1. Plain(a1) /\ Plain(a2) /\ Plain(b1) /\ Plain(b2)
    BY AuxPlain DEF PortIds
<1>2. PlainNet(m)
    BY RemovePlain
<1>3. interact_void(n, a, b) = m
    BY DEF interact_void
<1>4. interact_anni(n, a, b) \in {m, link(m, a1, a2), link(m, b1, b2),
                                  link(link(m, a1, b2), a2, b1), link(link(m, a1, b1), a2, b2)}
    BY DEF interact_anni
<1>5. interact_comm(n, a, b) \in {m, CopySelfLoop(m, "Con", b1, b2), CopySelfLoop(m, "Dup", a1, a2),
                                  Commuted(m, a1, a2, b1, b2)}
    BY DEF interact_comm
<1>6. "Con" \in Symbols /\ "Dup" \in Symbols /\ "Era" \in Symbols
    BY DEF Symbols
<1>7. PlainNet(interact_eras(n, a, b))
    <2> DEFINE e1 == AgentPort(NewAgentId(m), 0)
               m1 == create_agent(m, "Era")
               e2 == AgentPort(NewAgentId(m1), 0)
               m2 == create_agent(m1, "Era")
    <2>1. interact_eras(n, a, b) \in {m, link(link(m2, e1, a1), e2, a2)}
        BY DEF interact_eras
    <2>2. Plain(e1) /\ Plain(e2)
        BY PlainConstants
    <2> HIDE DEF m, a1, a2, e1, e2
    <2>3. PlainNet(m1)
        BY <1>2, <1>6, CreatePlain
    <2> HIDE DEF m1
    <2>4. PlainNet(m2)
        BY <2>3, <1>6, CreatePlain
    <2> HIDE DEF m2
    <2>5. PlainNet(link(m2, e1, a1))
        BY <1>1, <2>2, <2>4, LinkPlain
    <2>6. PlainNet(link(link(m2, e1, a1), e2, a2))
        BY <1>1, <2>2, <2>5, LinkPlain
    <2> QED
        BY <1>2, <2>1, <2>6
<1> HIDE DEF m, a1, a2, b1, b2
<1>8. PlainNet(interact_anni(n, a, b))
    <2>1. PlainNet(link(m, a1, a2)) /\ PlainNet(link(m, b1, b2))
          /\ PlainNet(link(m, a1, b2)) /\ PlainNet(link(m, a1, b1))
        BY <1>1, <1>2, LinkPlain
    <2>2. PlainNet(link(link(m, a1, b2), a2, b1)) /\ PlainNet(link(link(m, a1, b1), a2, b2))
        BY <1>1, <2>1, LinkPlain
    <2> QED
        BY <1>2, <1>4, <2>1, <2>2
<1>9. ASSUME NEW sym \in Symbols, NEW w1, Plain(w1), NEW w2, Plain(w2)
      PROVE  PlainNet(CopySelfLoop(m, sym, w1, w2))
    <2> DEFINE x == NewAgentId(m)
               m1 == create_agent(m, sym)
               y == NewAgentId(m1)
               m2 == create_agent(m1, sym)
               m3 == connect(m2, AgentPort(x, 1), AgentPort(x, 2))
               m4 == connect(m3, AgentPort(y, 1), AgentPort(y, 2))
               m5 == link(m4, AgentPort(x, 0), w1)
    <2>1. CopySelfLoop(m, sym, w1, w2) = link(m5, AgentPort(y, 0), w2)
        BY DEF CopySelfLoop
    <2>2. \A id, p : Plain(AgentPort(id, p))
        BY PlainConstants
    <2> HIDE DEF x
    <2>3. PlainNet(m1)
        BY <1>2, CreatePlain
    <2> HIDE DEF m1, y
    <2>4. PlainNet(m2)
        BY <2>3, CreatePlain
    <2> HIDE DEF m2
    <2>5. PlainNet(m3)
        BY <2>2, <2>4, ConnectPlain
    <2> HIDE DEF m3
    <2>6. PlainNet(m4)
        BY <2>2, <2>5, ConnectPlain
    <2> HIDE DEF m4
    <2>7. PlainNet(m5)
        BY <1>9, <2>2, <2>6, LinkPlain
    <2> HIDE DEF m5
    <2> QED
        BY <1>9, <2>1, <2>2, <2>7, LinkPlain
<1>10. PlainNet(Commuted(m, a1, a2, b1, b2))
    <2> DEFINE p == NewAgentId(m)
               m1 == create_agent(m, "Dup")
               q == NewAgentId(m1)
               m2 == create_agent(m1, "Dup")
               r == NewAgentId(m2)
               m3 == create_agent(m2, "Con")
               s == NewAgentId(m3)
               m4 == create_agent(m3, "Con")
               l1 == link(m4, AgentPort(p, 0), a1)
               l2 == link(l1, AgentPort(q, 0), a2)
               l3 == link(l2, AgentPort(r, 0), b1)
               l4 == link(l3, AgentPort(s, 0), b2)
               i1 == connect(l4, AgentPort(p, 1), AgentPort(r, 1))
               i2 == connect(i1, AgentPort(p, 2), AgentPort(s, 1))
               i3 == connect(i2, AgentPort(q, 1), AgentPort(r, 2))
    <2>1. Commuted(m, a1, a2, b1, b2) = connect(i3, AgentPort(q, 2), AgentPort(s, 2))
        BY DEF Commuted
    <2>2. \A id, k : Plain(AgentPort(id, k))
        BY PlainConstants
    <2> HIDE DEF p
    <2>3. PlainNet(m1)
        BY <1>2, <1>6, CreatePlain
    <2> HIDE DEF m1, q
    <2>4. PlainNet(m2)
        BY <1>6, <2>3, CreatePlain
    <2> HIDE DEF m2, r
    <2>5. PlainNet(m3)
        BY <1>6, <2>4, CreatePlain
    <2> HIDE DEF m3, s
    <2>6. PlainNet(m4)
        BY <1>6, <2>5, CreatePlain
    <2> HIDE DEF m4
    <2>7. PlainNet(l1)
        BY <1>1, <2>2, <2>6, LinkPlain
    <2> HIDE DEF l1
    <2>8. PlainNet(l2)
        BY <1>1, <2>2, <2>7, LinkPlain
    <2> HIDE DEF l2
    <2>9. PlainNet(l3)
        BY <1>1, <2>2, <2>8, LinkPlain
    <2> HIDE DEF l3
    <2>10. PlainNet(l4)
        BY <1>1, <2>2, <2>9, LinkPlain
    <2> HIDE DEF l4
    <2>11. PlainNet(i1)
        BY <2>2, <2>10, ConnectPlain
    <2> HIDE DEF i1
    <2>12. PlainNet(i2)
        BY <2>2, <2>11, ConnectPlain
    <2> HIDE DEF i2
    <2>13. PlainNet(i3)
        BY <2>2, <2>12, ConnectPlain
    <2> HIDE DEF i3
    <2> QED
        BY <2>1, <2>2, <2>13, ConnectPlain
<1>11. PlainNet(interact_comm(n, a, b))
    BY <1>1, <1>2, <1>5, <1>6, <1>9, <1>10
<1> QED
    BY <1>2, <1>3, <1>7, <1>8, <1>11

(* The rule of a pair of live agents is one of the four.                   *)
LEMMA RuleIs ==
    ASSUME NEW sa \in Symbols, NEW sb \in Symbols
    PROVE  get_rule(sa, sb) \in {"Void", "Anni", "Eras", "Comm"}
<1>1. CASE sa = "Con"
    BY <1>1 DEF get_rule, Symbols
<1>2. CASE sa = "Dup"
    BY <1>2 DEF get_rule, Symbols
<1>3. CASE sa = "Era"
    BY <1>3 DEF get_rule, Symbols
<1> QED
    BY <1>1, <1>2, <1>3 DEF Symbols

(* Min is the smallest element of a set of numbers.                        *)
LEMMA SmallestIs ==
    ASSUME NEW S, S # {}, S \subseteq Nat
    PROVE  Min(S) \in S /\ \A y \in S : Min(S) <= y
<1>1. PICK x \in S : \A y \in S : ~(<<y, x>> \in OpToRel(<, Nat))
    BY NatLessThanWellFounded, WFMin
<1>2. ASSUME NEW y \in S PROVE x <= y
    <2>1. x \in Nat /\ y \in Nat /\ ~(y < x)
        BY <1>1 DEF OpToRel
    <2> QED
        BY <2>1
<1>3. Min(S) \in S /\ \A y \in S : Min(S) <= y
    BY <1>2 DEF Min
<1> QED
    BY <1>3

(* A net with another queue.                                               *)
LEMMA RequeuedPlain ==
    ASSUME NEW n, PlainNet(n), NEW q, IsSeq(q), NEW m, m = [n EXCEPT !.queue = q]
    PROVE  PlainNet(m) /\ Live(m) = Live(n)
BY DEF PlainNet, NetRecord, Live

(* One call of reduce_step.                                                *)
LEMMA StepPlain ==
    ASSUME NEW n, PlainNet(n)
    PROVE  PlainNet(reduce_step(n))
<1>1. IsSeq(n.queue)
    BY DEF PlainNet
<1>2. CASE FirstValid(n) = 0
    <2> DEFINE e == <<>>
    <2>1. reduce_step(n) = [n EXCEPT !.queue = e] /\ IsSeq(e)
        BY <1>2, NothingIn DEF reduce_step
    <2> HIDE DEF e
    <2> QED
        BY <2>1, RequeuedPlain
<1>3. CASE FirstValid(n) # 0
    <2> DEFINE k == FirstValid(n)
               I == {j \in 1 .. Len(n.queue) : is_valid_redex(n, n.queue[j][1], n.queue[j][2])}
               u == n.queue[k][1]
               v == n.queue[k][2]
               a == HeadPair(n)[1]
               b == HeadPair(n)[2]
               q == SubSeq(n.queue, k + 1, Len(n.queue))
               m == [n EXCEPT !.queue = q]
               rule == HeadRule(n)
    <2>1. k = IF I # {} THEN Min(I) ELSE 0
        BY DEF FirstValid, SelectInSeq
    <2>2. Len(n.queue) \in Nat
        BY <1>1, Positions
    <2>3. I # {} /\ I \subseteq Nat
        BY <1>3, <2>1, <2>2
    <2>4. k \in I
        <3>1. Min(I) \in I
            <4> HIDE DEF I
            <4> QED
                BY <2>3, SmallestIs
        <3> QED
            BY <2>1, <2>3, <3>1
    <2>5. u \in Live(n) /\ v \in Live(n) /\ k \in 1 .. Len(n.queue)
        BY <2>4 DEF is_valid_redex
    <2>6. HeadPair(n) = IF Rank(n.agents[u]) <= Rank(n.agents[v]) THEN <<u, v>> ELSE <<v, u>>
        BY DEF HeadPair, normalize_pair
    <2>7. reduce_step(n) = Interact(m, rule, a, b)
        BY <1>3 DEF reduce_step
    <2>8. IsSeq(q)
        <3>1. PICK S : n.queue \in Seq(S)
            BY <1>1 DEF IsSeq
        <3>2. q \in Seq(S)
            BY <2>5, <3>1
        <3> QED
            BY <3>2 DEF IsSeq
    <2> HIDE DEF I, k, u, v, q
    <2>9. a \in Live(n) /\ b \in Live(n)
        BY <2>5, <2>6
    <2>10. rule \in {"Void", "Anni", "Eras", "Comm"}
        <3>1. n.agents[a] \in Symbols /\ n.agents[b] \in Symbols
            BY <2>9 DEF Live, PlainNet
        <3> QED
            BY <3>1, RuleIs DEF HeadRule
    <2>11. PlainNet(m) /\ Live(m) = Live(n)
        BY <2>8, RequeuedPlain
    <2> HIDE DEF a, b, m, rule
    <2>12. /\ PlainNet(interact_void(m, a, b)) /\ PlainNet(interact_anni(m, a, b))
           /\ PlainNet(interact_eras(m, a, b)) /\ PlainNet(interact_comm(m, a, b))
        BY <2>9, <2>11, RulesPlain
    <2>13. CASE rule = "Void"
        BY <2>7, <2>12, <2>13 DEF Interact
    <2>14. CASE rule = "Anni"
        BY <2>7, <2>12, <2>14 DEF Interact
    <2>15. CASE rule = "Eras"
        BY <2>7, <2>12, <2>15 DEF Interact
    <2>16. CASE rule = "Comm"
        BY <2>7, <2>12, <2>16 DEF Interact
    <2> QED
        BY <2>10, <2>13, <2>14, <2>15, <2>16
<1> QED
    BY <1>2, <1>3

(* The loops are folds: the body of each, and what it preserves.           *)
Chosen(s) == CHOOSE x \in s : TRUE

KeepsNet(c, s, n) == PlainNet(n)
KeepsPart(c, s, p) == PlainPart(p)

ReduceAt(c, i, r) == ReduceOnce(r)
KeepsRun(c, s, r) == r = [net |-> r.net, count |-> r.count] /\ PlainNet(r.net)
Reductions == INSTANCE FoldRule WITH Body <- ReduceAt, Pick <- Max, Good <- KeepsRun

RemoveBorderAt(c, b, p) == RemoveBorder(p, b)
Removals == INSTANCE FoldRule WITH Body <- RemoveBorderAt, Pick <- Chosen, Good <- KeepsPart

InsertBorderAt(q, i, p) == InsertBorder(p, q[i])
Insertions == INSTANCE FoldRule WITH Body <- InsertBorderAt, Pick <- Max, Good <- KeepsPart

RepointBorderAt(q, i, p) == RepointBorder(p, q[i])
Repoints == INSTANCE FoldRule WITH Body <- RepointBorderAt, Pick <- Max, Good <- KeepsPart

ReconnectAt(q, i, n) == Reconnect(n, q[i])
Reconnects == INSTANCE FoldRule WITH Body <- ReconnectAt, Pick <- Max, Good <- KeepsNet

RewireCacheAt(q, i, n) == RewireCache(n, q[i])
Rewires == INSTANCE FoldRule WITH Body <- RewireCacheAt, Pick <- Max, Good <- KeepsNet

RemoveAgentAt(c, i, n) == remove_agent(n, i)
Consumed == INSTANCE FoldRule WITH Body <- RemoveAgentAt, Pick <- Chosen, Good <- KeepsNet

WireSlotAt(c, i, n) == WireSlot(c[1], n, c[2][i])
Wirings == INSTANCE FoldRule WITH Body <- WireSlotAt, Pick <- Max, Good <- KeepsNet

(* After the symbols at the positions s, that many ids.                    *)
MintSlotAt(q, i, acc) == MintSlot(acc, q[i])
KeepsMint(q, s, acc) ==
    /\ acc = [net |-> acc.net, ids |-> acc.ids]
    /\ PlainNet(acc.net)
    /\ IsSeq(acc.ids)
    /\ Len(acc.ids) = Cardinality(s)
Mints == INSTANCE FoldRule WITH Body <- MintSlotAt, Pick <- Max, Good <- KeepsMint

(* reduce_all on a worker.                                                 *)
LEMMA ReduceAllPlain ==
    ASSUME NEW n, PlainNet(n)
    PROVE  PlainNet(ReduceAll(n).net)
<1> DEFINE table == [k \in 1 .. MaxInteractions |-> k]
           c == 0
           items == DOMAIN table
           base == [net |-> n, count |-> 0]
<1>0. IsSeq(table)
    BY DeltaGridAssumption, TableIn
<1>1. /\ Len(table) \in Nat /\ items = 1 .. Len(table)
      /\ \A s \in SUBSET items : s # {} => Max(s) \in s
    BY <1>0, Positions
<1>2. KeepsRun(c, {}, base)
    BY DEF KeepsRun
<1>3. ASSUME NEW s \in SUBSET items, s # {}, NEW acc, KeepsRun(c, s \ {Max(s)}, acc)
      PROVE  KeepsRun(c, s, ReduceAt(c, Max(s), acc))
    BY <1>3, StepPlain DEF KeepsRun, ReduceAt, ReduceOnce
<1>4. KeepsRun(c, items, Reductions!Folded(c, base, items))
    <2> DEFINE len == Len(table)
    <2> HIDE DEF items, base, c, len
    <2> QED
        BY <1>1, <1>2, <1>3, Reductions!FoldKeeps DEF len
<1> DEFINE run == FoldLeft(LAMBDA r, k : ReduceOnce(r), [net |-> n, count |-> 0], table)
           queue == IF IsNormalForm(run.net) THEN <<>> ELSE run.net.queue
<1>5. KeepsRun(c, items, run)
    BY <1>4 DEF FoldLeft, MapThenFoldSet, Max, Reductions!Folded, ReduceAt
<1>6. ReduceAll(n) = [run EXCEPT !.net.queue = IF IsNormalForm(run.net) THEN <<>> ELSE @]
    BY DEF ReduceAll
<1> HIDE DEF run
<1>7. IsSeq(queue)
    BY <1>5, NothingIn DEF KeepsRun, PlainNet
<1>8. ReduceAll(n).net = [run.net EXCEPT !.queue = queue]
    BY <1>5, <1>6 DEF KeepsRun, PlainNet, NetRecord
<1> HIDE DEF queue
<1> QED
    BY <1>5, <1>7, <1>8, RequeuedPlain DEF KeepsRun

(* A partition with another subnet, index and border range.                *)
LEMMA PartPlain ==
    ASSUME NEW p, PlainPart(p), NEW n, PlainNet(n), NEW f, NEW e, NEW q,
           \/ q = [p EXCEPT !.subnet = n]
           \/ q = [p EXCEPT !.subnet = n, !.free_port_index = f]
           \/ q = [p EXCEPT !.subnet = n, !.free_port_index = f, !.border_end = e]
    PROVE  PlainPart(q)
BY DEF PlainPart

(* A border is cut, inserted, re-pointed.                                  *)
LEMMA CutPlain ==
    ASSUME NEW p, PlainPart(p), NEW b
    PROVE  PlainNet(Cut(p, b))
BY DisconnectPlain DEF Cut, PlainPart

(* A border is removed from a partition.                                   *)
LEMMA RemoveBorderPlain ==
    ASSUME NEW p, PlainPart(p), NEW b
    PROVE  PlainPart(RemoveBorder(p, b))
<1> DEFINE n == Cut(p, b)
           f == Without(p.free_port_index, b)
<1>1. RemoveBorder(p, b) = [p EXCEPT !.subnet = n, !.free_port_index = f]
    BY DEF RemoveBorder, PlainPart
<1>2. PlainNet(n)
    BY CutPlain
<1> HIDE DEF n, f
<1> QED
    BY <1>1, <1>2, PartPlain

(* A border is inserted in a partition.                                    *)
LEMMA InsertBorderPlain ==
    ASSUME NEW p, PlainPart(p), NEW e, Plain(e[2])
    PROVE  PlainPart(InsertBorder(p, e))
<1> DEFINE n == connect(p.subnet, e[2], FreePort(e[1]))
           f == Put(p.free_port_index, e[1], e[2])
           end == Max({p.border_end, e[1] + 1})
<1>1. InsertBorder(p, e) = [p EXCEPT !.subnet = n, !.free_port_index = f, !.border_end = end]
    BY DEF InsertBorder, PlainPart
<1>2. PlainNet(n)
    BY ConnectPlain, PlainConstants DEF PlainPart
<1> HIDE DEF n, f, end
<1> QED
    BY <1>1, <1>2, PartPlain

(* A border of the cache is re-pointed.                                    *)
LEMMA RepointPlain ==
    ASSUME NEW p, PlainPart(p), NEW d, Plain(d[2])
    PROVE  PlainPart(RepointBorder(p, d))
<1> DEFINE n == Cut(p, d[1])
           m == connect(n, d[2], FreePort(d[1]))
           f == Without(p.free_port_index, d[1])
           g == Put(p.free_port_index, d[1], d[2])
<1>1. RepointBorder(p, d) = IF d[2] = DISCONNECTED
                            THEN [p EXCEPT !.subnet = n, !.free_port_index = f]
                            ELSE [p EXCEPT !.subnet = m, !.free_port_index = g]
    BY DEF RepointBorder, PlainPart
<1>2. PlainNet(n)
    BY CutPlain
<1>3. PlainNet(m)
    <2> HIDE DEF n
    <2> QED
        BY <1>2, ConnectPlain, PlainConstants
<1> HIDE DEF n, m, f, g
<1>4. CASE d[2] = DISCONNECTED
    BY <1>1, <1>2, <1>4, PartPlain
<1>5. CASE d[2] # DISCONNECTED
    BY <1>1, <1>3, <1>5, PartPlain
<1> QED
    BY <1>4, <1>5

(* The resolved borders of a payload are removed.                          *)
LEMMA RemovalsPlain ==
    ASSUME NEW p, PlainPart(p), NEW S, IsFiniteSet(S)
    PROVE  PlainPart(FoldSet(LAMBDA b, q : RemoveBorder(q, b), p, S))
<1> DEFINE c == 0
           items == S
           base == p
<1>1. /\ IsFiniteSet(items)
      /\ \A s \in SUBSET items : s # {} => Chosen(s) \in s
    BY DEF PayloadSound, DeltasSound, Chosen
<1>2. KeepsPart(c, {}, base)
    BY DEF KeepsPart
<1>3. ASSUME NEW s \in SUBSET items, s # {}, NEW acc, KeepsPart(c, s \ {Chosen(s)}, acc)
      PROVE  KeepsPart(c, s, RemoveBorderAt(c, Chosen(s), acc))
    BY <1>3, RemoveBorderPlain DEF KeepsPart, RemoveBorderAt
<1>4. KeepsPart(c, items, Removals!Folded(c, base, items))
    <2> HIDE DEF items, base, c
    <2> QED
        BY <1>1, <1>2, <1>3, Removals!KeptByFold DEF IsFiniteSet, Removals!IsFiniteSet
<1> QED
    BY <1>4 DEF KeepsPart, FoldSet, MapThenFoldSet, Chosen, Removals!Folded, RemoveBorderAt

(* The new borders of a payload are inserted.                              *)
LEMMA InsertionsPlain ==
    ASSUME NEW p, PlainPart(p), NEW q, IsSeq(q), \A e \in ToSet(q) : Plain(e[2])
    PROVE  PlainPart(FoldLeft(InsertBorder, p, q))
<1> DEFINE c == q
           items == DOMAIN q
           base == p
<1>1. /\ Len(q) \in Nat /\ items = 1 .. Len(q)
      /\ \A s \in SUBSET items : s # {} => Max(s) \in s
    BY Positions
<1>2. KeepsPart(c, {}, base)
    BY DEF KeepsPart
<1>3. ASSUME NEW s \in SUBSET items, s # {}, NEW acc, KeepsPart(c, s \ {Max(s)}, acc)
      PROVE  KeepsPart(c, s, InsertBorderAt(c, Max(s), acc))
    BY <1>1, <1>3, InsertBorderPlain DEF KeepsPart, InsertBorderAt, ToSet
<1>4. KeepsPart(c, items, Insertions!Folded(c, base, items))
    <2> DEFINE len == Len(q)
    <2> HIDE DEF items, base, c, len
    <2> QED
        BY <1>1, <1>2, <1>3, Insertions!FoldKeeps DEF len
<1> QED
    BY <1>4 DEF KeepsPart, FoldLeft, MapThenFoldSet, Max, Insertions!Folded, InsertBorderAt

(* The deltas of a worker reach the cache.                                 *)
LEMMA RepointsPlain ==
    ASSUME NEW p, PlainPart(p), NEW q, IsSeq(q), \A d \in ToSet(q) : Plain(d[2])
    PROVE  PlainPart(FoldLeft(RepointBorder, p, q))
<1> DEFINE c == q
           items == DOMAIN q
           base == p
<1>1. /\ Len(q) \in Nat /\ items = 1 .. Len(q)
      /\ \A s \in SUBSET items : s # {} => Max(s) \in s
    BY Positions
<1>2. KeepsPart(c, {}, base)
    BY DEF KeepsPart
<1>3. ASSUME NEW s \in SUBSET items, s # {}, NEW acc, KeepsPart(c, s \ {Max(s)}, acc)
      PROVE  KeepsPart(c, s, RepointBorderAt(c, Max(s), acc))
    BY <1>1, <1>3, RepointPlain DEF KeepsPart, RepointBorderAt, ToSet
<1>4. KeepsPart(c, items, Repoints!Folded(c, base, items))
    <2> DEFINE len == Len(q)
    <2> HIDE DEF items, base, c, len
    <2> QED
        BY <1>1, <1>2, <1>3, Repoints!FoldKeeps DEF len
<1> QED
    BY <1>4 DEF KeepsPart, FoldLeft, MapThenFoldSet, Max, Repoints!Folded, RepointBorderAt

(* The wires of a payload on a worker.                                     *)
LEMMA ReconnectsPlain ==
    ASSUME NEW n, PlainNet(n), NEW q, IsSeq(q), \A ab \in ToSet(q) : Plain(ab[1]) /\ Plain(ab[2])
    PROVE  PlainNet(ReconnectAll(n, q))
<1> DEFINE c == q
           items == DOMAIN q
           base == n
<1>1. /\ Len(q) \in Nat /\ items = 1 .. Len(q)
      /\ \A s \in SUBSET items : s # {} => Max(s) \in s
    BY Positions
<1>2. KeepsNet(c, {}, base)
    BY DEF KeepsNet
<1>3. ASSUME NEW s \in SUBSET items, s # {}, NEW acc, KeepsNet(c, s \ {Max(s)}, acc)
      PROVE  KeepsNet(c, s, ReconnectAt(c, Max(s), acc))
    BY <1>1, <1>3, ConnectPlain DEF KeepsNet, ReconnectAt, Reconnect, ToSet
<1>4. KeepsNet(c, items, Reconnects!Folded(c, base, items))
    <2> DEFINE len == Len(q)
    <2> HIDE DEF items, base, c, len
    <2> QED
        BY <1>1, <1>2, <1>3, Reconnects!FoldKeeps DEF len
<1> QED
    BY <1>4 DEF KeepsNet, ReconnectAll, FoldLeft, MapThenFoldSet, Max, Reconnects!Folded, ReconnectAt

(* The wires of a payload in the cache.                                    *)
LEMMA RewiresPlain ==
    ASSUME NEW n, PlainNet(n), NEW q, IsSeq(q), \A ab \in ToSet(q) : Plain(ab[1]) /\ Plain(ab[2])
    PROVE  PlainNet(FoldLeft(RewireCache, n, q))
<1> DEFINE c == q
           items == DOMAIN q
           base == n
<1>1. /\ Len(q) \in Nat /\ items = 1 .. Len(q)
      /\ \A s \in SUBSET items : s # {} => Max(s) \in s
    BY Positions
<1>2. KeepsNet(c, {}, base)
    BY DEF KeepsNet
<1>3. ASSUME NEW s \in SUBSET items, s # {}, NEW acc, KeepsNet(c, s \ {Max(s)}, acc)
      PROVE  KeepsNet(c, s, RewireCacheAt(c, Max(s), acc))
    BY <1>1, <1>3, ConnectPlain DEF KeepsNet, RewireCacheAt, RewireCache, ToSet
<1>4. KeepsNet(c, items, Rewires!Folded(c, base, items))
    <2> DEFINE len == Len(q)
    <2> HIDE DEF items, base, c, len
    <2> QED
        BY <1>1, <1>2, <1>3, Rewires!FoldKeeps DEF len
<1> QED
    BY <1>4 DEF KeepsNet, FoldLeft, MapThenFoldSet, Max, Rewires!Folded, RewireCacheAt

(* The consumed agents leave the cache.                                    *)
LEMMA ConsumedPlain ==
    ASSUME NEW n, PlainNet(n), NEW S, IsFiniteSet(S)
    PROVE  PlainNet(FoldSet(LAMBDA i, m : remove_agent(m, i), n, S))
<1> DEFINE c == 0
           items == S
           base == n
<1>1. /\ IsFiniteSet(items)
      /\ \A s \in SUBSET items : s # {} => Chosen(s) \in s
    BY DEF PayloadSound, DeltasSound, Chosen
<1>2. KeepsNet(c, {}, base)
    BY DEF KeepsNet
<1>3. ASSUME NEW s \in SUBSET items, s # {}, NEW acc, KeepsNet(c, s \ {Chosen(s)}, acc)
      PROVE  KeepsNet(c, s, RemoveAgentAt(c, Chosen(s), acc))
    BY <1>3, RemovePlain DEF KeepsNet, RemoveAgentAt
<1>4. KeepsNet(c, items, Consumed!Folded(c, base, items))
    <2> HIDE DEF items, base, c
    <2> QED
        BY <1>1, <1>2, <1>3, Consumed!KeptByFold DEF IsFiniteSet, Consumed!IsFiniteSet
<1> QED
    BY <1>4 DEF KeepsNet, FoldSet, MapThenFoldSet, Chosen, Consumed!Folded, RemoveAgentAt

(* One agent per slot of a batch.                                          *)
LEMMA SlotsMinted ==
    ASSUME NEW n, PlainNet(n), NEW q \in Seq(Symbols), NEW minted,
           minted = FoldLeft(MintSlot, [net |-> n, ids |-> <<>>], q)
    PROVE  /\ PlainNet(minted.net)
           /\ IsSeq(minted.ids)
           /\ Len(minted.ids) = Len(q)
<1> DEFINE c == q
           items == DOMAIN q
           base == [net |-> n, ids |-> <<>>]
<1>0. IsSeq(q)
    BY DEF IsSeq
<1>1. /\ Len(q) \in Nat /\ items = 1 .. Len(q)
      /\ \A s \in SUBSET items : s # {} => Max(s) \in s
    BY <1>0, Positions
<1>2. KeepsMint(c, {}, base)
    BY NothingIn, FS_EmptySet DEF KeepsMint
<1>3. ASSUME NEW s \in SUBSET items, s # {}, NEW acc, KeepsMint(c, s \ {Max(s)}, acc)
      PROVE  KeepsMint(c, s, MintSlotAt(c, Max(s), acc))
    <2> DEFINE e == NewAgentId(acc.net)
    <2>1. Max(s) \in DOMAIN q
        BY <1>1, <1>3
    <2>2. q[Max(s)] \in Symbols
        BY <2>1
    <2>3. /\ Cardinality(s \ {Max(s)}) = Cardinality(s) - 1
          /\ Cardinality(s) \in Nat
        <3>1. IsFiniteSet(s)
            <4>1. IsFiniteSet(items)
                BY <1>0, Positions
            <4> QED
                BY <4>1, FS_Subset
        <3> QED
            BY <1>1, <1>3, <3>1, FS_RemoveElement, FS_CardinalityType
    <2>4. MintSlotAt(q, Max(s), acc) = [net |-> create_agent(acc.net, q[Max(s)]), ids |-> Append(acc.ids, e)]
        BY DEF MintSlotAt, MintSlot
    <2>5. PlainNet(create_agent(acc.net, q[Max(s)]))
        BY <1>3, <2>2, CreatePlain DEF KeepsMint
    <2> HIDE DEF e
    <2>6. IsSeq(Append(acc.ids, e)) /\ Len(Append(acc.ids, e)) = Len(acc.ids) + 1
        BY <1>3, AppendIn DEF KeepsMint
    <2> QED
        BY <1>3, <2>3, <2>4, <2>5, <2>6 DEF KeepsMint
<1>4. KeepsMint(c, items, Mints!Folded(c, base, items))
    <2> DEFINE len == Len(q)
    <2> HIDE DEF items, base, c, len
    <2> QED
        BY <1>1, <1>2, <1>3, Mints!FoldKeeps DEF len
<1>5. KeepsMint(c, items, minted)
    BY <1>4 DEF FoldLeft, MapThenFoldSet, Max, Mints!Folded, MintSlotAt
<1>6. Cardinality(items) = Len(q)
    <2> DEFINE len == Len(q)
    <2>1. len \in Nat /\ items = 1 .. len
        BY <1>1
    <2> HIDE DEF items, len
    <2>2. Cardinality(items) = len
        BY <2>1, FS_Interval
    <2> QED
        BY <2>2 DEF len
<1> QED
    BY <1>5, <1>6 DEF KeepsMint

WiredAll(ids, n, wiring) == FoldLeft(LAMBDA m, h : WireSlot(ids, m, h), n, wiring)

MintedAll(range, n, batches) ==
    FoldLeft(LAMBDA acc, x : MintBatch(range, acc, x), [ok |-> TRUE, net |-> n, echoes |-> <<>>],
             batches)

(* The wires of a batch.                                                   *)
LEMMA WiringPlain ==
    ASSUME NEW n, PlainNet(n), NEW ids, NEW q, IsSeq(q),
           \A h \in ToSet(q) : h[3][1] = "slot" \/ Plain(h[3])
    PROVE  PlainNet(WiredAll(ids, n, q))
<1> DEFINE c == <<ids, q>>
           items == DOMAIN q
           base == n
<1>1. /\ Len(q) \in Nat /\ items = 1 .. Len(q)
      /\ \A s \in SUBSET items : s # {} => Max(s) \in s
    BY Positions
<1>2. KeepsNet(c, {}, base)
    BY DEF KeepsNet
<1>3. ASSUME NEW s \in SUBSET items, s # {}, NEW acc, KeepsNet(c, s \ {Max(s)}, acc)
      PROVE  KeepsNet(c, s, WireSlotAt(c, Max(s), acc))
    <2> DEFINE h == q[Max(s)]
               near == AgentPort(ids[h[1] + 1], h[2])
               far == SlotEnd(ids, h[3])
    <2>1. h \in ToSet(q)
        BY <1>1, <1>3 DEF ToSet
    <2>2. Plain(near) /\ Plain(far)
        <3> HIDE DEF h
        <3> QED
            BY <2>1, PlainConstants DEF SlotEnd
    <2>3. WireSlotAt(c, Max(s), acc) = connect(acc, near, far)
        BY DEF WireSlotAt, WireSlot
    <2> HIDE DEF near, far
    <2> QED
        BY <1>3, <2>2, <2>3, ConnectPlain DEF KeepsNet
<1>4. KeepsNet(c, items, Wirings!Folded(c, base, items))
    <2> DEFINE len == Len(q)
    <2> HIDE DEF items, base, c, len
    <2> QED
        BY <1>1, <1>2, <1>3, Wirings!FoldKeeps DEF len
<1> QED
    BY <1>4 DEF KeepsNet, WiredAll, FoldLeft, MapThenFoldSet, Max, Wirings!Folded, WireSlotAt

(* apply_pending_commutation echoes every slot of the batch.               *)
LEMMA BatchApplied ==
    ASSUME NEW n, PlainNet(n), NEW x, BatchSound(x), NEW done,
           done = apply_pending_commutation(n, x)
    PROVE  /\ PlainNet(done.net)
           /\ IsSeq(done.echoes)
           /\ \A r : MintsFor(x, r) => Echoed(done.echoes, r)
<1> DEFINE minted == FoldLeft(MintSlot, [net |-> n, ids |-> <<>>], x.symbols)
           wired == WiredAll(minted.ids, minted.net, x.wiring)
           echoes == [k \in DOMAIN minted.ids |-> <<x.cid % CidSpace, k - 1, minted.ids[k]>>]
<1>1. done = [net |-> wired, echoes |-> echoes]
    BY DEF apply_pending_commutation, WiredAll
<1>2. PlainNet(minted.net) /\ IsSeq(minted.ids) /\ Len(minted.ids) = Len(x.symbols)
    BY SlotsMinted DEF BatchSound
<1> HIDE DEF minted
<1>3. PlainNet(wired)
    BY <1>2, WiringPlain DEF BatchSound
<1> HIDE DEF wired
<1>4. Len(x.symbols) \in Nat /\ DOMAIN minted.ids = 1 .. Len(x.symbols)
    BY <1>2, Positions
<1>5. IsSeq(echoes)
    <2>1. echoes = [k \in 1 .. Len(x.symbols) |-> echoes[k]]
        BY <1>4
    <2> HIDE DEF echoes
    <2> QED
        BY <1>4, <2>1, TableIn
<1>6. ASSUME NEW r, MintsFor(x, r) PROVE Echoed(echoes, r)
    <2> DEFINE k == r[3] + 1
    <2>1. k \in DOMAIN minted.ids /\ k - 1 = r[3] /\ x.cid = r[2]
        BY <1>4, <1>6 DEF MintsFor
    <2>2. echoes[k] \in ToSet(echoes) /\ echoes[k] = <<x.cid % CidSpace, k - 1, minted.ids[k]>>
        BY <2>1 DEF ToSet
    <2>3. <<echoes[k][1], echoes[k][2]>> = MintKey(r[2], r[3])
        BY <2>1, <2>2 DEF MintKey
    <2> HIDE DEF echoes, k
    <2> QED
        BY <2>2, <2>3 DEF Echoed
<1> HIDE DEF echoes
<1> QED
    BY <1>1, <1>3, <1>5, <1>6

(* After the batches at the positions s, all of them are echoed.           *)
MintBatchAt(c, i, acc) == MintBatch(c[1], acc, c[2][i])
KeepsBatches(c, s, acc) ==
    /\ acc = [ok |-> acc.ok, net |-> acc.net, echoes |-> acc.echoes]
    /\ PlainNet(acc.net)
    /\ IsSeq(acc.echoes)
    /\ acc.ok => \A j \in s : \A r : MintsFor(c[2][j], r) => Echoed(acc.echoes, r)
Batches == INSTANCE FoldRule WITH Body <- MintBatchAt, Pick <- Max, Good <- KeepsBatches

(* All batches of a payload.                                               *)
LEMMA BatchesMinted ==
    ASSUME NEW n, PlainNet(n), NEW range, NEW q, IsSeq(q), \A x \in ToSet(q) : BatchSound(x), NEW minted,
           minted = MintedAll(range, n, q)
    PROVE  /\ PlainNet(minted.net)
           /\ IsSeq(minted.echoes)
           /\ minted.ok => \A x \in ToSet(q) : \A r : MintsFor(x, r) => Echoed(minted.echoes, r)
<1> DEFINE c == <<range, q>>
           items == DOMAIN q
           base == [ok |-> TRUE, net |-> n, echoes |-> <<>>]
<1>1. /\ Len(q) \in Nat /\ items = 1 .. Len(q)
      /\ \A s \in SUBSET items : s # {} => Max(s) \in s
    BY Positions
<1>2. KeepsBatches(c, {}, base)
    BY NothingIn DEF KeepsBatches
<1>3. ASSUME NEW s \in SUBSET items, s # {}, NEW acc, KeepsBatches(c, s \ {Max(s)}, acc)
      PROVE  KeepsBatches(c, s, MintBatchAt(c, Max(s), acc))
    <2> DEFINE x == q[Max(s)]
               done == apply_pending_commutation(acc.net, x)
               next == MintBatch(range, acc, x)
               bad == ~acc.ok \/ acc.net.next_id >= range.end \/ Malformed(x)
    <2>1. BatchSound(x) /\ Max(s) \in s
        BY <1>1, <1>3 DEF ToSet
    <2>2. next = IF bad THEN [acc EXCEPT !.ok = FALSE]
                 ELSE [ok |-> TRUE, net |-> done.net, echoes |-> acc.echoes \o done.echoes]
        BY DEF MintBatch
    <2>3. MintBatchAt(c, Max(s), acc) = next
        BY DEF MintBatchAt
    <2>4. \A j \in s : j = Max(s) \/ j \in s \ {Max(s)}
        OBVIOUS
    <2>5. /\ acc = [ok |-> acc.ok, net |-> acc.net, echoes |-> acc.echoes]
          /\ PlainNet(acc.net) /\ IsSeq(acc.echoes)
          /\ acc.ok => \A j \in s \ {Max(s)} : \A r : MintsFor(q[j], r) => Echoed(acc.echoes, r)
        BY <1>3 DEF KeepsBatches
    <2>6. PlainNet(done.net) /\ IsSeq(done.echoes) /\ \A r : MintsFor(x, r) => Echoed(done.echoes, r)
        <3> HIDE DEF x
        <3> QED
            BY <2>1, <2>5, BatchApplied
    <2>7. CASE bad
        <3>1. next = [acc EXCEPT !.ok = FALSE]
            BY <2>2, <2>7
        <3>2. next = [ok |-> FALSE, net |-> acc.net, echoes |-> acc.echoes]
            BY <2>5, <3>1
        <3> HIDE DEF next
        <3>3. KeepsBatches(c, s, next)
            BY <2>5, <3>2 DEF KeepsBatches
        <3> QED
            BY <2>3, <3>3
    <2>8. CASE ~bad
        <3> DEFINE both == acc.echoes \o done.echoes
        <3>1. next = [ok |-> TRUE, net |-> done.net, echoes |-> both] /\ acc.ok
            BY <2>2, <2>8
        <3> HIDE DEF done, next
        <3>2. IsSeq(both) /\ ToSet(both) = ToSet(acc.echoes) \cup ToSet(done.echoes)
            BY <2>5, <2>6, ConcatIn
        <3> HIDE DEF both, bad
        <3>3. ASSUME NEW j \in s, NEW r, MintsFor(q[j], r) PROVE Echoed(both, r)
            <4>1. CASE j = Max(s)
                BY <2>6, <3>2, <3>3, <4>1 DEF Echoed
            <4>2. CASE j \in s \ {Max(s)}
                BY <2>5, <3>1, <3>2, <3>3, <4>2 DEF Echoed
            <4> QED
                BY <2>4, <4>1, <4>2
        <3>4. KeepsBatches(c, s, next)
            BY <2>6, <3>1, <3>2, <3>3 DEF KeepsBatches
        <3> QED
            BY <2>3, <3>4
    <2> QED
        BY <2>7, <2>8
<1>4. KeepsBatches(c, items, Batches!Folded(c, base, items))
    <2> DEFINE len == Len(q)
    <2> HIDE DEF items, base, c, len
    <2> QED
        BY <1>1, <1>2, <1>3, Batches!FoldKeeps DEF len
<1>5. KeepsBatches(c, items, minted)
    BY <1>4 DEF MintedAll, FoldLeft, MapThenFoldSet, Max, Batches!Folded, MintBatchAt
<1>6. c[2] = q
    OBVIOUS
<1> HIDE DEF c
<1> QED
    BY <1>5, <1>6 DEF KeepsBatches, ToSet

(* apply_payload_borders.                                                  *)
LEMMA PayloadPlain ==
    ASSUME NEW p, PlainPart(p), NEW d, PayloadSound(d)
    PROVE  PlainPart(apply_payload_borders(p, d))
<1> DEFINE cut == FoldSet(LAMBDA b, q : RemoveBorder(q, b), p, d.resolved)
<1>1. PlainPart(cut)
    BY RemovalsPlain DEF PayloadSound
<1>2. apply_payload_borders(p, d) = FoldLeft(InsertBorder, cut, d.new)
    BY DEF apply_payload_borders
<1> HIDE DEF cut
<1> QED
    BY <1>1, <1>2, InsertionsPlain DEF PayloadSound

(* What a worker has minted before it reduces.                             *)
LEMMA MintAllSound ==
    ASSUME NEW p, PlainPart(p), NEW d, PayloadSound(d), NEW minted, minted = MintAll(p, d)
    PROVE  /\ PlainNet(minted.net)
           /\ IsSeq(minted.echoes)
           /\ minted.ok => \A x \in ToSet(d.batches) : \A r :
                               MintsFor(x, r) => Echoed(minted.echoes, r)
<1> DEFINE prepared == apply_payload_borders(p, d)
           n == ReconnectAll(prepared.subnet, d.reconnect)
<1>1. minted = MintedAll(p.id_range, n, d.batches)
    BY DEF MintAll, MintedAll
<1>2. PlainPart(prepared)
    BY PayloadPlain
<1>3. PlainNet(n)
    <2> HIDE DEF prepared
    <2> QED
        BY <1>2, ReconnectsPlain DEF PayloadSound, PlainPart
<1> HIDE DEF n, prepared
<1> QED
    BY <1>1, <1>3, BatchesMinted DEF PayloadSound

(* rebuild_free_port_index: one entry per border held or redirected.       *)
LEMMA IndexPlain ==
    ASSUME NEW p, PlainPart(p)
    PROVE  PlainIndex(rebuild_free_port_index(p))
<1> DEFINE n == p.subnet
           range == p.border_start .. p.border_end - 1
           holders(b) == {ip \in LivePorts(n) : n.ports[ip[1]][ip[2]] = FreePort(b)}
           held == {b \in range : holders(b) # {}}
           redirected == (range \cap DOMAIN n.redirects) \ held
           end(b) == IF b \in held
                     THEN LET ip == CHOOSE x \in holders(b) : \A y \in holders(b) : ~ScanBefore(x, y)
                          IN  AgentPort(ip[1], ip[2])
                     ELSE n.redirects[b]
           index == [b \in held \cup redirected |-> end(b)]
<1>1. rebuild_free_port_index(p) = index
    BY DEF rebuild_free_port_index
<1>2. PlainRedirects(n.redirects)
    BY DEF PlainPart, PlainNet
<1>3. \A b \in held : Plain(end(b))
    BY PlainConstants
<1>4. IsFiniteSet(held)
    <2> DEFINE P == {ip \in LivePorts(n) : \E b \in range : n.ports[ip[1]][ip[2]] = FreePort(b)}
               f == [ip \in P |-> n.ports[ip[1]][ip[2]][2]]
    <2>1. IsFiniteSet(AgentIds \X PortIds)
        <3>1. IsFiniteSet(AgentIds) /\ IsFiniteSet(PortIds)
            <4> DEFINE last == ArenaSize - 1
            <4>1. last \in Int /\ AgentIds = 0 .. last
                BY NetAssumption DEF AgentIds
            <4> HIDE DEF last
            <4>2. 0 \in Int /\ 2 \in Int
                OBVIOUS
            <4>3. IsFiniteSet(0 .. last)
                BY <4>1, <4>2, FS_Interval
            <4>4. IsFiniteSet(0 .. 2)
                BY <4>2, FS_Interval
            <4> QED
                BY <4>1, <4>3, <4>4 DEF PortIds
        <3> QED
            BY <3>1, FS_Product
    <2>2. P \subseteq AgentIds \X PortIds
        BY DEF LivePorts
    <2>3. IsFiniteSet(P)
        BY <2>1, <2>2, FS_Subset
    <2>4. \A ip \in P : \E b \in held : f[ip] = b
        BY DEF FreePort
    <2>5. ASSUME NEW b \in held PROVE \E ip \in P : f[ip] = b
        <3>1. PICK ip \in LivePorts(n) : n.ports[ip[1]][ip[2]] = FreePort(b)
            OBVIOUS
        <3>2. ip \in P /\ f[ip] = b
            <4>1. b \in range
                OBVIOUS
            <4>2. ip \in P
                BY <3>1, <4>1
            <4>3. f[ip] = n.ports[ip[1]][ip[2]][2]
                BY <4>2
            <4>4. FreePort(b)[2] = b
                BY DEF FreePort
            <4> QED
                BY <3>1, <4>2, <4>3, <4>4
        <3> QED
            BY <3>2
    <2> HIDE DEF P
    <2>6. f \in [P -> held]
        BY <2>4
    <2> HIDE DEF f, held
    <2>7. f \in Surjection(P, held)
        BY <2>5, <2>6 DEF Surjection
    <2> QED
        BY <2>3, <2>7, FS_Surjection
<1>5. IsFiniteSet(redirected)
    <2>1. redirected \subseteq DOMAIN n.redirects
        OBVIOUS
    <2> HIDE DEF redirected
    <2> QED
        BY <1>2, <2>1, FS_Subset DEF PlainRedirects
<1>6. \A b \in redirected : b \notin held /\ end(b) = n.redirects[b] /\ b \in DOMAIN n.redirects
    OBVIOUS
<1> HIDE DEF held, redirected, end
<1>7. IsFiniteSet(held \cup redirected)
    BY <1>4, <1>5, FS_Union
<1>8. \A b \in redirected : Plain(end(b))
    BY <1>2, <1>6 DEF PlainRedirects
<1>9. DOMAIN index = held \cup redirected /\ \A b \in held \cup redirected : index[b] = end(b)
    OBVIOUS
<1> HIDE DEF index
<1> QED
    BY <1>1, <1>3, <1>7, <1>8, <1>9 DEF PlainIndex

(* The deltas a worker reports are few and tell the new ends.              *)
LEMMA DeltasReported ==
    ASSUME NEW f, PlainIndex(f), NEW g, PlainIndex(g), NEW D, D = compute_outgoing_deltas(f, g)
    PROVE  /\ DeltasSound(D)
           /\ \A d \in D : d[2] = End(g, d[1])
           /\ \A b : (\A d \in D : d[1] # b) => End(f, b) = End(g, b)
<1> DEFINE moved == {c \in DOMAIN g : c \notin DOMAIN f \/ f[c] # g[c]}
           gone == DOMAIN f \ DOMAIN g
           table == [b \in moved \cup gone |-> <<b, End(g, b)>>]
<1>1. D = {<<b, g[b]>> : b \in moved} \cup {<<b, DISCONNECTED>> : b \in gone}
    BY DEF compute_outgoing_deltas
<1>2. \A d \in D : d[2] = End(g, d[1]) /\ d = <<d[1], d[2]>> /\ d[1] \in moved \cup gone
    BY <1>1 DEF End
<1>3. \A b \in moved \cup gone : <<b, End(g, b)>> \in D
    BY <1>1 DEF End
<1>4. \A b : b \notin moved \cup gone => End(f, b) = End(g, b)
    BY DEF End
<1>5. \A d \in D : Plain(d[2])
    BY <1>2, PlainConstants DEF End, PlainIndex
<1>6. IsFiniteSet(moved \cup gone)
    <2>1. moved \subseteq DOMAIN g /\ gone \subseteq DOMAIN f
        OBVIOUS
    <2> HIDE DEF moved, gone
    <2>2. IsFiniteSet(moved) /\ IsFiniteSet(gone)
        BY <2>1, FS_Subset DEF PlainIndex
    <2> QED
        BY <2>2, FS_Union
<1> DEFINE K == moved \cup gone
<1> HIDE DEF K, moved, gone
<1>7. IsFiniteSet(D)
    <2>1. \A d \in D : d[1] \in K /\ table[d[1]] = d
        BY <1>2 DEF K
    <2>2. table \in [K -> D]
        BY <1>3 DEF K
    <2> HIDE DEF table
    <2>3. table \in Surjection(K, D)
        BY <2>1, <2>2 DEF Surjection
    <2>4. IsFiniteSet(K)
        BY <1>6 DEF K
    <2> QED
        BY <2>3, <2>4, FS_Surjection
<1>8. ASSUME NEW b, \A d \in D : d[1] # b PROVE End(f, b) = End(g, b)
    <2>1. b \notin moved \cup gone
        BY <1>3, <1>8
    <2> QED
        BY <1>4, <2>1
<1> QED
    BY <1>2, <1>5, <1>7, <1>8 DEF DeltasSound

-----------------------------------------------------------------------------
(* The border graph.  SomeBorders(g, h): h has some of the borders of g,   *)
(* as they are in g, and the same queue and mints.                         *)
SameQueue(g, h) == h.pending = g.pending /\ h.mints = g.mints

SomeBorders(g, h) ==
    /\ DOMAIN h.borders \subseteq DOMAIN g.borders
    /\ \A b \in DOMAIN h.borders : h.borders[b] = g.borders[b]
    /\ SameQueue(g, h)

(* remove_border takes its border out of the active set, too.              *)
LEMMA RemoveBorderSound ==
    ASSUME NEW g, GraphBorders(g), NEW b, NEW h, h = remove_border(g, b)
    PROVE  /\ GraphBorders(h)
           /\ SomeBorders(g, h)
           /\ b \notin DOMAIN h.borders
<1>1. CASE b \notin DOMAIN g.borders
    <2>1. h = g
        BY <1>1 DEF remove_border
    <2> QED
        BY <1>1, <2>1 DEF SomeBorders, SameQueue
<1>2. CASE b \in DOMAIN g.borders
    <2> DEFINE left == Without(g.borders, b)
               active == IF g.borders[b].is_redex THEN g.active \ {b} ELSE g.active
    <2>1. h = [g EXCEPT !.borders = left, !.active = active]
        BY <1>2 DEF remove_border, GraphBorders
    <2>2. h = [borders |-> left, active |-> active, pending |-> g.pending, mints |-> g.mints]
        <3> HIDE DEF left, active
        <3> QED
            BY <2>1 DEF GraphBorders
    <2>3. /\ DOMAIN left = DOMAIN g.borders \ {b}
          /\ \A x \in DOMAIN left : left[x] = g.borders[x]
          /\ left = [x \in DOMAIN left |-> left[x]]
        BY DEF Without
    <2>4. active = {x \in DOMAIN left : left[x].is_redex}
        <3> HIDE DEF left
        <3>1. g.active = {x \in DOMAIN g.borders : g.borders[x].is_redex}
            BY DEF GraphBorders
        <3>2. \A x : x \in active <=> x \in g.active /\ x # b
            BY <1>2, <3>1
        <3> HIDE DEF active
        <3> QED
            BY <2>3, <3>1, <3>2
    <2> HIDE DEF left, active
    <2>5. GraphBorders(h)
        BY <2>2, <2>3, <2>4 DEF GraphBorders
    <2> QED
        BY <2>2, <2>3, <2>5 DEF SomeBorders, SameQueue
<1> QED
    BY <1>1, <1>2

(* add_border_state on a new id.                                           *)
LEMMA AddBorderSound ==
    ASSUME NEW g, GraphBorders(g), NEW b, b \notin DOMAIN g.borders, NEW st, PlainState(st),
           NEW h, h = add_border_state(g, b, st)
    PROVE  /\ GraphBorders(h)
           /\ DOMAIN h.borders = DOMAIN g.borders \cup {b}
           /\ SameQueue(g, h)
<1> DEFINE more == Put(g.borders, b, st)
           active == IF st.is_redex THEN g.active \cup {b} ELSE g.active
<1>1. h = [g EXCEPT !.borders = more, !.active = active]
    BY DEF add_border_state, GraphBorders
<1>2. h = [borders |-> more, active |-> active, pending |-> g.pending, mints |-> g.mints]
    <2> HIDE DEF more, active
    <2> QED
        BY <1>1 DEF GraphBorders
<1>3. /\ DOMAIN more = DOMAIN g.borders \cup {b}
      /\ more[b] = st
      /\ \A x \in DOMAIN g.borders : more[x] = g.borders[x]
      /\ more = [x \in DOMAIN more |-> more[x]]
    BY DEF Put
<1>4. active = {x \in DOMAIN more : more[x].is_redex}
    <2> HIDE DEF more
    <2>1. g.active = {x \in DOMAIN g.borders : g.borders[x].is_redex}
        BY DEF GraphBorders
    <2>2. \A x : x \in active <=> x \in g.active \/ (x = b /\ st.is_redex)
        OBVIOUS
    <2> HIDE DEF active
    <2> QED
        BY <1>3, <2>1, <2>2
<1> HIDE DEF more, active
<1> QED
    BY <1>2, <1>3, <1>4 DEF GraphBorders, SameQueue

(* apply_delta moves the side of the worker that sent it, and the active   *)
(* set follows.                                                            *)
LEMMA ApplyDeltaSound ==
    ASSUME NEW g, GraphBorders(g), NEW w, NEW d, Plain(d[2]), NEW h, h = apply_delta(g, w, d)
    PROVE  /\ GraphBorders(h)
           /\ SameQueue(g, h)
           /\ DOMAIN h.borders \subseteq DOMAIN g.borders
           /\ \A b \in DOMAIN h.borders :
                 /\ h.borders[b].worker_a = g.borders[b].worker_a
                 /\ h.borders[b].worker_b = g.borders[b].worker_b
                 /\ h.borders[b].side_a =
                        IF b = d[1] /\ w = g.borders[b].worker_a THEN d[2] ELSE g.borders[b].side_a
                 /\ g.borders[b].worker_a # g.borders[b].worker_b =>
                    h.borders[b].side_b =
                        IF b = d[1] /\ w = g.borders[b].worker_b THEN d[2] ELSE g.borders[b].side_b
<1> DEFINE b == d[1]
           st == g.borders[b]
           moved == IF st.worker_a = w THEN [st EXCEPT !.side_a = d[2]]
                    ELSE [st EXCEPT !.side_b = d[2]]
           redex == is_principal_pair(moved.side_a, moved.side_b)
           end == [moved EXCEPT !.is_redex = redex]
           borders == [g.borders EXCEPT ![b] = end]
           active == IF redex THEN g.active \cup {b} ELSE g.active \ {b}
           both == moved.side_a = DISCONNECTED /\ moved.side_b = DISCONNECTED
<1>1. CASE b \notin DOMAIN g.borders
    <2>1. h = g
        BY <1>1 DEF apply_delta
    <2> QED
        BY <1>1, <2>1 DEF SameQueue
<1>2. CASE b \in DOMAIN g.borders /\ w \notin {st.worker_a, st.worker_b}
    <2>1. h = g
        BY <1>2 DEF apply_delta
    <2> QED
        BY <1>2, <2>1 DEF SameQueue
<1>3. CASE b \in DOMAIN g.borders /\ w \in {st.worker_a, st.worker_b} /\ both
    <2>1. h = remove_border(g, b)
        BY <1>3 DEF apply_delta
    <2>2. GraphBorders(h) /\ SomeBorders(g, h) /\ b \notin DOMAIN h.borders
        BY <2>1, RemoveBorderSound
    <2> QED
        BY <2>2 DEF SomeBorders
<1>4. CASE b \in DOMAIN g.borders /\ w \in {st.worker_a, st.worker_b} /\ ~both
    <2>1. h = [g EXCEPT !.borders[b] = end, !.active = active]
        BY <1>4 DEF apply_delta, GraphBorders
    <2>2. PlainState(st)
        BY <1>4 DEF GraphBorders
    <2>3. /\ end = BorderState(moved.side_a, moved.side_b, st.worker_a, st.worker_b)
          /\ moved.side_a = IF st.worker_a = w THEN d[2] ELSE st.side_a
          /\ moved.side_b = IF st.worker_a = w THEN st.side_b ELSE d[2]
        <3> HIDE DEF st
        <3> QED
            BY <2>2 DEF PlainState, BorderState
    <2> HIDE DEF moved, end
    <2>4. /\ end.side_a = IF st.worker_a = w THEN d[2] ELSE st.side_a
          /\ end.side_b = IF st.worker_a = w THEN st.side_b ELSE d[2]
          /\ end.worker_a = st.worker_a /\ end.worker_b = st.worker_b
          /\ end.is_redex = redex
          /\ PlainState(end)
        <3> HIDE DEF st
        <3> QED
            BY <2>2, <2>3 DEF PlainState, BorderState
    <2> HIDE DEF redex
    <2>5. h = [borders |-> borders, active |-> active, pending |-> g.pending, mints |-> g.mints]
        <3> HIDE DEF active, st, b
        <3> QED
            BY <2>1 DEF GraphBorders
    <2>6. /\ DOMAIN borders = DOMAIN g.borders
          /\ borders[b] = end
          /\ \A x \in DOMAIN g.borders : x # b => borders[x] = g.borders[x]
          /\ borders = [x \in DOMAIN borders |-> borders[x]]
        <3> HIDE DEF b
        <3> QED
            BY <1>4 DEF GraphBorders
    <2>7. active = {x \in DOMAIN borders : borders[x].is_redex}
        <3> HIDE DEF borders, st
        <3>1. g.active = {x \in DOMAIN g.borders : g.borders[x].is_redex}
            BY DEF GraphBorders
        <3>2. \A x : x \in active <=> (x \in g.active /\ x # b) \/ (x = b /\ redex)
            OBVIOUS
        <3> HIDE DEF active, b
        <3> QED
            BY <1>4, <2>4, <2>6, <3>1, <3>2
    <2> HIDE DEF borders, active
    <2>8. GraphBorders(h)
        <3> HIDE DEF b, st
        <3> QED
            BY <2>4, <2>5, <2>6, <2>7 DEF GraphBorders
    <2>9. h.borders = borders /\ SameQueue(g, h)
        BY <2>5 DEF SameQueue
    <2>10. ASSUME NEW x \in DOMAIN h.borders
           PROVE  /\ h.borders[x].worker_a = g.borders[x].worker_a
                  /\ h.borders[x].worker_b = g.borders[x].worker_b
                  /\ h.borders[x].side_a =
                         IF x = d[1] /\ w = g.borders[x].worker_a THEN d[2] ELSE g.borders[x].side_a
                  /\ g.borders[x].worker_a # g.borders[x].worker_b =>
                     h.borders[x].side_b =
                         IF x = d[1] /\ w = g.borders[x].worker_b THEN d[2] ELSE g.borders[x].side_b
        <3>1. CASE x = b
            <4>1. h.borders[x] = end /\ g.borders[x] = st /\ x = d[1]
                BY <2>6, <2>9, <3>1
            <4> HIDE DEF b, st
            <4> QED
                BY <1>4, <2>4, <4>1
        <3>2. CASE x # b
            BY <2>6, <2>9, <3>2
        <3> QED
            BY <3>1, <3>2
    <2> QED
        BY <2>6, <2>8, <2>9, <2>10
<1> QED
    BY <1>1, <1>2, <1>3, <1>4

(* The loops over promoted borders and over the borders that stay inside a *)
(* worker.                                                                 *)
ReplaceNth(c, i, h) == remove_border(h, c[2][i][1])
KeepsReplaced(c, s, h) ==
    /\ GraphBorders(h)
    /\ SomeBorders(c[1], h)
    /\ \A j \in s : c[2][j][1] \notin DOMAIN h.borders
    /\ s = {} => h = c[1]
Replacing == INSTANCE FoldRule WITH Body <- ReplaceNth, Pick <- Max, Good <- KeepsReplaced

AddAt(c, i, h) == add_border_state(h, c[2][i][1], c[2][i][2])
KeepsAdded(c, s, h) ==
    /\ GraphBorders(h)
    /\ SameQueue(c[1], h)
    /\ DOMAIN h.borders = DOMAIN c[1].borders \cup {c[2][j][1] : j \in s}
    /\ s = {} => h = c[1]
Adding == INSTANCE FoldRule WITH Body <- AddAt, Pick <- Max, Good <- KeepsAdded

PruneAt(c, i, h) == Prune(h, c[2][i])
KeepsPruned(c, s, h) == GraphBorders(h) /\ SomeBorders(c[1], h) /\ (s = {} => h = c[1])
Pruning == INSTANCE FoldRule WITH Body <- PruneAt, Pick <- Max, Good <- KeepsPruned

(* Removals in a row.                                                      *)
LEMMA SomeAgain ==
    ASSUME NEW g, NEW h, NEW i, SomeBorders(g, h), SomeBorders(h, i)
    PROVE  SomeBorders(g, i)
BY DEF SomeBorders, SameQueue

(* The promoted ids make room.                                             *)
LEMMA ReplacedSound ==
    ASSUME NEW g, GraphBorders(g), NEW q, IsSeq(q), NEW h, h = Replaced(g, q)
    PROVE  /\ GraphBorders(h)
           /\ SomeBorders(g, h)
           /\ \A j \in DOMAIN q : q[j][1] \notin DOMAIN h.borders
           /\ q = <<>> => h = g
<1> DEFINE c == <<g, q>>
           items == DOMAIN q
           base == g
<1>1. /\ Len(q) \in Nat /\ items = 1 .. Len(q)
      /\ \A s \in SUBSET items : s # {} => Max(s) \in s
    BY Positions
<1>2. KeepsReplaced(c, {}, base)
    BY DEF KeepsReplaced, SomeBorders, SameQueue
<1>3. ASSUME NEW s \in SUBSET items, s # {}, NEW acc, KeepsReplaced(c, s \ {Max(s)}, acc)
      PROVE  KeepsReplaced(c, s, ReplaceNth(c, Max(s), acc))
    <2> DEFINE i == remove_border(acc, q[Max(s)][1])
    <2>1. GraphBorders(acc) /\ SomeBorders(g, acc)
          /\ \A j \in s \ {Max(s)} : q[j][1] \notin DOMAIN acc.borders
        BY <1>3 DEF KeepsReplaced
    <2>2. GraphBorders(i) /\ SomeBorders(acc, i) /\ q[Max(s)][1] \notin DOMAIN i.borders
        BY <2>1, RemoveBorderSound
    <2>3. ReplaceNth(c, Max(s), acc) = i
        BY DEF ReplaceNth
    <2> HIDE DEF i
    <2>4. SomeBorders(g, i)
        BY <2>1, <2>2, SomeAgain
    <2>5. \A j \in s : q[j][1] \notin DOMAIN i.borders
        BY <2>1, <2>2 DEF SomeBorders
    <2> QED
        BY <1>3, <2>2, <2>3, <2>4, <2>5 DEF KeepsReplaced
<1>4. KeepsReplaced(c, items, Replacing!Folded(c, base, items))
    <2> DEFINE len == Len(q)
    <2> HIDE DEF items, base, c, len
    <2> QED
        BY <1>1, <1>2, <1>3, Replacing!FoldKeeps DEF len
<1>5. KeepsReplaced(c, items, h)
    BY <1>4 DEF Replaced, FoldLeft, MapThenFoldSet, Max, Replacing!Folded, ReplaceNth
<1>6. c[1] = g /\ c[2] = q /\ (q = <<>> => items = {})
    BY NothingIn
<1> HIDE DEF c
<1> QED
    BY <1>5, <1>6 DEF KeepsReplaced

(* The promoted borders are added.                                         *)
LEMMA AddedSound ==
    ASSUME NEW g, GraphBorders(g), NEW q, IsSeq(q), NEW h, h = Added(g, q),
           \A j \in DOMAIN q : q[j][1] \notin DOMAIN g.borders /\ PlainState(q[j][2]),
           \A j, k \in DOMAIN q : q[j][1] = q[k][1] => j = k
    PROVE  /\ GraphBorders(h)
           /\ SameQueue(g, h)
           /\ q = <<>> => h = g
<1> DEFINE c == <<g, q>>
           items == DOMAIN q
           base == g
<1>1. /\ Len(q) \in Nat /\ items = 1 .. Len(q)
      /\ \A s \in SUBSET items : s # {} => Max(s) \in s
    BY Positions
<1>2. KeepsAdded(c, {}, base)
    BY DEF KeepsAdded, SameQueue
<1>3. ASSUME NEW s \in SUBSET items, s # {}, NEW acc, KeepsAdded(c, s \ {Max(s)}, acc)
      PROVE  KeepsAdded(c, s, AddAt(c, Max(s), acc))
    <2> DEFINE j == Max(s)
               i == add_border_state(acc, q[j][1], q[j][2])
    <2>1. j \in s /\ s \subseteq DOMAIN q
        BY <1>1, <1>3
    <2>2. GraphBorders(acc) /\ SameQueue(g, acc)
          /\ DOMAIN acc.borders = DOMAIN g.borders \cup {q[k][1] : k \in s \ {j}}
        BY <1>3 DEF KeepsAdded
    <2>3. AddAt(c, Max(s), acc) = i
        BY DEF AddAt
    <2> HIDE DEF j
    <2>4. q[j][1] \notin DOMAIN acc.borders /\ PlainState(q[j][2])
        BY <2>1, <2>2
    <2>5. GraphBorders(i) /\ SameQueue(acc, i) /\ DOMAIN i.borders = DOMAIN acc.borders \cup {q[j][1]}
        BY <2>2, <2>4, AddBorderSound
    <2> HIDE DEF i
    <2>6. DOMAIN i.borders = DOMAIN g.borders \cup {q[k][1] : k \in s}
        BY <2>1, <2>2, <2>5
    <2> QED
        BY <1>3, <2>2, <2>3, <2>5, <2>6 DEF KeepsAdded, SameQueue
<1>4. KeepsAdded(c, items, Adding!Folded(c, base, items))
    <2> DEFINE len == Len(q)
    <2> HIDE DEF items, base, c, len
    <2> QED
        BY <1>1, <1>2, <1>3, Adding!FoldKeeps DEF len
<1>5. KeepsAdded(c, items, h)
    BY <1>4 DEF Added, FoldLeft, MapThenFoldSet, Max, Adding!Folded, AddAt
<1>6. c[1] = g /\ c[2] = q /\ (q = <<>> => items = {})
    BY NothingIn
<1> HIDE DEF c
<1> QED
    BY <1>5, <1>6 DEF KeepsAdded

(* The borders that stay inside a worker are dropped.                      *)
LEMMA PrunedSound ==
    ASSUME NEW g, GraphBorders(g), NEW q, IsSeq(q), NEW h, h = FoldLeft(Prune, g, q)
    PROVE  /\ GraphBorders(h)
           /\ SomeBorders(g, h)
           /\ q = <<>> => h = g
<1> DEFINE c == <<g, q>>
           items == DOMAIN q
           base == g
<1>1. /\ Len(q) \in Nat /\ items = 1 .. Len(q)
      /\ \A s \in SUBSET items : s # {} => Max(s) \in s
    BY Positions
<1>2. KeepsPruned(c, {}, base)
    BY DEF KeepsPruned, SomeBorders, SameQueue
<1>3. ASSUME NEW s \in SUBSET items, s # {}, NEW acc, KeepsPruned(c, s \ {Max(s)}, acc)
      PROVE  KeepsPruned(c, s, PruneAt(c, Max(s), acc))
    <2> DEFINE i == Prune(acc, q[Max(s)])
    <2>1. GraphBorders(acc) /\ SomeBorders(g, acc)
        BY <1>3 DEF KeepsPruned
    <2>2. GraphBorders(i) /\ SomeBorders(acc, i)
        <3>1. CASE Lafont(q[Max(s)])
            <4>1. i = remove_border(acc, q[Max(s)][1])
                BY <3>1 DEF Prune
            <4> QED
                BY <2>1, <4>1, RemoveBorderSound
        <3>2. CASE ~Lafont(q[Max(s)])
            BY <2>1, <3>2 DEF Prune, SomeBorders, SameQueue
        <3> QED
            BY <3>1, <3>2
    <2>3. PruneAt(c, Max(s), acc) = i
        BY DEF PruneAt
    <2> HIDE DEF i
    <2>4. SomeBorders(g, i)
        BY <2>1, <2>2, SomeAgain
    <2> QED
        BY <1>3, <2>2, <2>3, <2>4 DEF KeepsPruned
<1>4. KeepsPruned(c, items, Pruning!Folded(c, base, items))
    <2> DEFINE len == Len(q)
    <2> HIDE DEF items, base, c, len
    <2> QED
        BY <1>1, <1>2, <1>3, Pruning!FoldKeeps DEF len
<1>5. KeepsPruned(c, items, h)
    BY <1>4 DEF FoldLeft, MapThenFoldSet, Max, Pruning!Folded, PruneAt
<1>6. c[1] = g /\ c[2] = q /\ (q = <<>> => items = {})
    BY NothingIn
<1> HIDE DEF c
<1> QED
    BY <1>5, <1>6 DEF KeepsPruned

-----------------------------------------------------------------------------
(***************************************************************************)
(* register_minted_agents.  The three loops: the echoes are recorded, the  *)
(* borders whose ends are known are promoted, the others wait.             *)
(***************************************************************************)
RecordAt(c, i, f) == Record(f, c[2][i])
KeepsMints(c, s, f) == DOMAIN f = DOMAIN c[1] \cup {<<c[2][j][1], c[2][j][2]>> : j \in s}
Recording == INSTANCE FoldRule WITH Body <- RecordAt, Pick <- Max, Good <- KeepsMints

ReadyOf(mints, q) == FoldLeft(LAMBDA r, p : PushReady(mints, r, p), <<>>, q)
PushReadyAt(c, i, r) == PushReady(c[1], r, c[2][i])
KeepsReady(c, s, r) ==
    /\ IsSeq(r)
    /\ \A p \in ToSet(r) : PromotionSound(p)
    /\ (\A j \in s : ~IsReady(c[1], c[2][j])) => r = <<>>
Promoting == INSTANCE FoldRule WITH Body <- PushReadyAt, Pick <- Max, Good <- KeepsReady

WaitingOf(mints, q) == FoldLeft(LAMBDA r, p : PushWaiting(mints, r, p), <<>>, q)
PushWaitingAt(c, i, r) == PushWaiting(c[1], r, c[2][i])
KeepsWaiting(c, s, r) ==
    IsSeq(r) /\ \A p \in ToSet(r) : ~IsReady(c[1], p) /\ \E j \in s : p = c[2][j]
Queueing == INSTANCE FoldRule WITH Body <- PushWaitingAt, Pick <- Max, Good <- KeepsWaiting

(* Every echo is recorded and nothing is forgotten.                        *)
LEMMA RecordedKeys ==
    ASSUME NEW f, NEW q, IsSeq(q), NEW h, h = FoldLeft(Record, f, q)
    PROVE  DOMAIN h = DOMAIN f \cup {<<q[j][1], q[j][2]>> : j \in DOMAIN q}
<1> DEFINE c == <<f, q>>
           items == DOMAIN q
           base == f
<1>1. /\ Len(q) \in Nat /\ items = 1 .. Len(q)
      /\ \A s \in SUBSET items : s # {} => Max(s) \in s
    BY Positions
<1>2. KeepsMints(c, {}, base)
    BY DEF KeepsMints
<1>3. ASSUME NEW s \in SUBSET items, s # {}, NEW acc, KeepsMints(c, s \ {Max(s)}, acc)
      PROVE  KeepsMints(c, s, RecordAt(c, Max(s), acc))
    <2> DEFINE j == Max(s)
               g == Record(acc, q[j])
    <2>1. j \in s
        BY <1>1, <1>3
    <2>2. DOMAIN acc = DOMAIN f \cup {<<q[k][1], q[k][2]>> : k \in s \ {j}}
        BY <1>3 DEF KeepsMints
    <2>3. RecordAt(c, Max(s), acc) = g
        BY DEF RecordAt
    <2>4. DOMAIN g = DOMAIN acc \cup {<<q[j][1], q[j][2]>>}
        BY PutEntry DEF Record
    <2> HIDE DEF j, g
    <2>5. DOMAIN g = DOMAIN f \cup {<<q[k][1], q[k][2]>> : k \in s}
        BY <2>1, <2>2, <2>4
    <2> QED
        BY <2>3, <2>5 DEF KeepsMints
<1>4. KeepsMints(c, items, Recording!Folded(c, base, items))
    <2> DEFINE len == Len(q)
    <2> HIDE DEF items, base, c, len
    <2> QED
        BY <1>1, <1>2, <1>3, Recording!FoldKeeps DEF len
<1>5. KeepsMints(c, items, h)
    BY <1>4 DEF FoldLeft, MapThenFoldSet, Max, Recording!Folded, RecordAt
<1>6. c[1] = f /\ c[2] = q /\ (q = <<>> => items = {})
    BY NothingIn
<1> HIDE DEF c
<1> QED
    BY <1>5, <1>6 DEF KeepsMints

(* What is promoted has two known ends.                                    *)
LEMMA ReadySound ==
    ASSUME NEW mints, NEW q, IsSeq(q), \A p \in ToSet(q) : Queued(p), NEW h, h = ReadyOf(mints, q)
    PROVE  /\ IsSeq(h)
           /\ \A p \in ToSet(h) : PromotionSound(p)
           /\ (\A j \in DOMAIN q : ~IsReady(mints, q[j])) => h = <<>>
<1> DEFINE c == <<mints, q>>
           items == DOMAIN q
           base == <<>>
<1>1. /\ Len(q) \in Nat /\ items = 1 .. Len(q)
      /\ \A s \in SUBSET items : s # {} => Max(s) \in s
    BY Positions
<1>2. KeepsReady(c, {}, base)
    BY NothingIn DEF KeepsReady
<1>3. ASSUME NEW s \in SUBSET items, s # {}, NEW acc, KeepsReady(c, s \ {Max(s)}, acc)
      PROVE  KeepsReady(c, s, PushReadyAt(c, Max(s), acc))
    <2> DEFINE p == q[Max(s)]
               st == BorderState(try_resolve_port_ref(mints, p.side_a),
                                 try_resolve_port_ref(mints, p.side_b), p.worker_a, p.worker_b)
               r == PushReady(mints, acc, p)
    <2>1. Max(s) \in s /\ Max(s) \in DOMAIN q /\ Queued(p)
        BY <1>1, <1>3 DEF ToSet
    <2>2. IsSeq(acc) /\ \A e \in ToSet(acc) : PromotionSound(e)
        BY <1>3 DEF KeepsReady
    <2>3. PushReadyAt(c, Max(s), acc) = r
        BY DEF PushReadyAt
    <2>4. CASE ~IsReady(mints, p)
        <3>1. r = acc
            BY <2>4 DEF PushReady
        <3>2. (\A j \in s : ~IsReady(mints, q[j])) => acc = <<>>
            BY <1>3 DEF KeepsReady
        <3> HIDE DEF r
        <3> QED
            BY <2>2, <2>3, <3>1, <3>2 DEF KeepsReady
    <2>5. CASE IsReady(mints, p)
        <3>1. r = Append(acc, <<p.border_id, st>>)
            BY <2>5 DEF PushReady
        <3> HIDE DEF p
        <3>2. Plain(try_resolve_port_ref(mints, p.side_a)) /\ Plain(try_resolve_port_ref(mints, p.side_b))
            BY <2>1, PlainConstants DEF Queued, QueuedEnd, try_resolve_port_ref
        <3>3. PlainState(st)
            <4> DEFINE ra == try_resolve_port_ref(mints, p.side_a)
                       rb == try_resolve_port_ref(mints, p.side_b)
            <4>1. p.worker_a \in WorkerIds /\ p.worker_b \in WorkerIds
                BY <2>1 DEF Queued
            <4> HIDE DEF ra, rb
            <4>2. PlainState(BorderState(ra, rb, p.worker_a, p.worker_b))
                BY <3>2, <4>1 DEF PlainState, BorderState, ra, rb
            <4> QED
                BY <4>2 DEF ra, rb
        <3> HIDE DEF st
        <3>4. PromotionSound(<<p.border_id, st>>)
            BY <3>3 DEF PromotionSound
        <3>5. IsSeq(r) /\ ToSet(r) = ToSet(acc) \cup {<<p.border_id, st>>}
            BY <2>2, <3>1, AppendIn
        <3>6. ~ \A j \in s : ~IsReady(c[1], c[2][j])
            BY <2>1, <2>5 DEF p
        <3> HIDE DEF r, c
        <3> QED
            BY <2>2, <2>3, <3>4, <3>5, <3>6 DEF KeepsReady
    <2> QED
        BY <2>4, <2>5
<1>4. KeepsReady(c, items, Promoting!Folded(c, base, items))
    <2> DEFINE len == Len(q)
    <2> HIDE DEF items, base, c, len
    <2> QED
        BY <1>1, <1>2, <1>3, Promoting!FoldKeeps DEF len
<1>5. KeepsReady(c, items, h)
    BY <1>4 DEF ReadyOf, FoldLeft, MapThenFoldSet, Max, Promoting!Folded, PushReadyAt
<1>6. c[1] = mints /\ c[2] = q /\ (q = <<>> => items = {})
    BY NothingIn
<1> HIDE DEF c
<1> QED
    BY <1>5, <1>6 DEF KeepsReady

(* What waits was queued, and an end of it is not known.                   *)
LEMMA WaitingSound ==
    ASSUME NEW mints, NEW q, IsSeq(q), NEW h, h = WaitingOf(mints, q)
    PROVE  IsSeq(h) /\ \A p \in ToSet(h) : ~IsReady(mints, p) /\ p \in ToSet(q)
<1> DEFINE c == <<mints, q>>
           items == DOMAIN q
           base == <<>>
<1>1. /\ Len(q) \in Nat /\ items = 1 .. Len(q)
      /\ \A s \in SUBSET items : s # {} => Max(s) \in s
    BY Positions
<1>2. KeepsWaiting(c, {}, base)
    BY NothingIn DEF KeepsWaiting
<1>3. ASSUME NEW s \in SUBSET items, s # {}, NEW acc, KeepsWaiting(c, s \ {Max(s)}, acc)
      PROVE  KeepsWaiting(c, s, PushWaitingAt(c, Max(s), acc))
    <2> DEFINE p == q[Max(s)]
               r == PushWaiting(mints, acc, p)
    <2>1. Max(s) \in s
        BY <1>1, <1>3
    <2>2. IsSeq(acc) /\ \A e \in ToSet(acc) : ~IsReady(mints, e) /\ \E j \in s \ {Max(s)} : e = q[j]
        BY <1>3 DEF KeepsWaiting
    <2>3. PushWaitingAt(c, Max(s), acc) = r
        BY DEF PushWaitingAt
    <2>4. IsSeq(r) /\ (ToSet(r) = ToSet(acc) \/ (ToSet(r) = ToSet(acc) \cup {p} /\ ~IsReady(mints, p)))
        BY <2>2, AppendIn DEF PushWaiting
    <2>5. \A e \in ToSet(r) : ~IsReady(mints, e) /\ \E j \in s : e = q[j]
        <3> HIDE DEF r
        <3> QED
            BY <2>1, <2>2, <2>4
    <2> HIDE DEF r, p
    <2> QED
        BY <2>3, <2>4, <2>5 DEF KeepsWaiting
<1>4. KeepsWaiting(c, items, Queueing!Folded(c, base, items))
    <2> DEFINE len == Len(q)
    <2> HIDE DEF items, base, c, len
    <2> QED
        BY <1>1, <1>2, <1>3, Queueing!FoldKeeps DEF len
<1>5. KeepsWaiting(c, items, h)
    BY <1>4 DEF WaitingOf, FoldLeft, MapThenFoldSet, Max, Queueing!Folded, PushWaitingAt
<1>6. c[1] = mints /\ c[2] = q /\ (q = <<>> => items = {})
    BY NothingIn
<1> HIDE DEF c
<1> QED
    BY <1>5, <1>6 DEF KeepsWaiting, ToSet

(* One worker's echoes.  The promoted borders replace those of the same    *)
(* id, and what keeps waiting lacks an agent.                              *)
LEMMA RegisterSound ==
    ASSUME NEW g, GraphSound(g), NEW echoes, IsSeq(echoes), NEW q, q = Promoted(g, echoes),
           ~DuplicatePromotion(q), NEW h, h = register_minted_agents(g, echoes)
    PROVE  /\ GraphSound(h)
           /\ IsSeq(q)
           /\ \A p \in ToSet(q) : PromotionSound(p)
           /\ DOMAIN h.mints = DOMAIN g.mints \cup {<<m[1], m[2]>> : m \in ToSet(echoes)}
           /\ \A p \in ToSet(h.pending) : p \in ToSet(g.pending) /\ ~IsReady(h.mints, p)
           /\ DOMAIN h.mints = {} => h.borders = g.borders /\ q = <<>>
<1> DEFINE mints == Recorded(g, echoes)
           waiting == Waiting(g, echoes)
           bare == Replaced(g, q)
           full == Added(bare, q)
<1>1. GraphBorders(g) /\ IsSeq(g.pending) /\ \A p \in ToSet(g.pending) : Queued(p)
    BY DEF GraphSound, GraphQueue
<1>2. DOMAIN mints = DOMAIN g.mints \cup {<<m[1], m[2]>> : m \in ToSet(echoes)}
    <2>1. DOMAIN mints = DOMAIN g.mints \cup {<<echoes[j][1], echoes[j][2]>> : j \in DOMAIN echoes}
        BY RecordedKeys DEF Recorded
    <2> HIDE DEF mints
    <2> QED
        BY <2>1 DEF ToSet
<1>3. /\ IsSeq(q)
      /\ \A p \in ToSet(q) : PromotionSound(p)
      /\ (\A j \in DOMAIN g.pending : ~IsReady(mints, g.pending[j])) => q = <<>>
    <2>1. q = ReadyOf(mints, g.pending)
        BY DEF Promoted, ReadyOf
    <2> HIDE DEF mints
    <2> QED
        BY <1>1, <2>1, ReadySound
<1>4. IsSeq(waiting) /\ \A p \in ToSet(waiting) : ~IsReady(mints, p) /\ p \in ToSet(g.pending)
    <2>1. waiting = WaitingOf(mints, g.pending)
        BY DEF Waiting, WaitingOf
    <2> HIDE DEF mints, waiting
    <2> QED
        BY <1>1, <2>1, WaitingSound
<1>5. h = [full EXCEPT !.mints = mints, !.pending = waiting]
    BY DEF register_minted_agents
<1> HIDE DEF mints, waiting
<1>6. /\ GraphBorders(bare)
      /\ \A j \in DOMAIN q : q[j][1] \notin DOMAIN bare.borders
      /\ q = <<>> => bare = g
    BY <1>1, <1>3, ReplacedSound
<1> HIDE DEF bare
<1>7. /\ \A j \in DOMAIN q : PlainState(q[j][2])
      /\ \A j, k \in DOMAIN q : q[j][1] = q[k][1] => j = k
    BY <1>3 DEF PromotionSound, ToSet, DuplicatePromotion
<1>8. GraphBorders(full) /\ (q = <<>> => full = bare)
    BY <1>3, <1>6, <1>7, AddedSound
<1> HIDE DEF full
<1>9. h = [borders |-> full.borders, active |-> full.active, pending |-> waiting, mints |-> mints]
    BY <1>5, <1>8 DEF GraphBorders
<1>10. GraphBorders(h)
    BY <1>8, <1>9 DEF GraphBorders
<1>11. GraphSound(h)
    BY <1>1, <1>4, <1>9, <1>10 DEF GraphSound, GraphQueue
<1>12. ASSUME DOMAIN mints = {} PROVE q = <<>>
    <2>1. ASSUME NEW j \in DOMAIN g.pending PROVE ~IsReady(mints, g.pending[j])
        <3>1. Queued(g.pending[j])
            BY <1>1 DEF ToSet
        <3> QED
            BY <1>12, <3>1 DEF Queued, IsReady, IsKnown
    <2> QED
        BY <1>3, <2>1
<1> QED
    BY <1>2, <1>3, <1>4, <1>6, <1>8, <1>9, <1>11, <1>12

(* The echoes of all results of a round, in order of arrival.              *)
RegisterAt(c, i, acc) == Register(acc, c[2][i])
AllRegistered(c, s, acc) ==
    /\ GraphSound(acc.graph)
    /\ IsSeq(acc.promoted)
    /\ \A p \in ToSet(acc.promoted) : PromotionSound(p)
    /\ DOMAIN c[1].mints \subseteq DOMAIN acc.graph.mints
    /\ \A j \in s : \A m \in ToSet(c[2][j].echoes) : <<m[1], m[2]>> \in DOMAIN acc.graph.mints
    /\ \A p \in ToSet(acc.graph.pending) :
           p \in ToSet(c[1].pending) /\ (s # {} => ~IsReady(acc.graph.mints, p))
    /\ DOMAIN acc.graph.mints = {} => acc.graph.borders = c[1].borders /\ acc.promoted = <<>>
KeepsRegistered(c, s, acc) ==
    /\ acc = [graph |-> acc.graph, fault |-> acc.fault, promoted |-> acc.promoted]
    /\ acc.fault \in {"none", "failed", "panic"}
    /\ acc.fault = "none" => AllRegistered(c, s, acc)
Registering == INSTANCE FoldRule WITH Body <- RegisterAt, Pick <- Max, Good <- KeepsRegistered

(* The registration of a round.                                            *)
LEMMA RegisteredSound ==
    ASSUME NEW g, GraphSound(g), NEW q, IsSeq(q), \A k \in DOMAIN q : ResultSound(q[k]), NEW h,
           h = FoldLeft(Register, [graph |-> g, fault |-> "none", promoted |-> <<>>], q)
    PROVE  /\ h.fault \in {"none", "failed", "panic"}
           /\ h.fault = "none" => AllRegistered(<<g, q>>, DOMAIN q, h)
<1> DEFINE c == <<g, q>>
           items == DOMAIN q
           base == [graph |-> g, fault |-> "none", promoted |-> <<>>]
<1>1. /\ Len(q) \in Nat /\ items = 1 .. Len(q)
      /\ \A s \in SUBSET items : s # {} => Max(s) \in s
    BY Positions
<1>2. KeepsRegistered(c, {}, base)
    BY NothingIn DEF KeepsRegistered, AllRegistered
<1>3. ASSUME NEW s \in SUBSET items, s # {}, NEW acc, KeepsRegistered(c, s \ {Max(s)}, acc)
      PROVE  KeepsRegistered(c, s, RegisterAt(c, Max(s), acc))
    <2> DEFINE j == Max(s)
               r == q[j]
               wave == Promoted(acc.graph, r.echoes)
               grown == register_minted_agents(acc.graph, r.echoes)
               next == Register(acc, r)
    <2>1. j \in s /\ ResultSound(r)
        BY <1>1, <1>3
    <2>2. /\ acc = [graph |-> acc.graph, fault |-> acc.fault, promoted |-> acc.promoted]
          /\ acc.fault \in {"none", "failed", "panic"}
          /\ acc.fault = "none" => AllRegistered(c, s \ {j}, acc)
        BY <1>3 DEF KeepsRegistered
    <2>3. RegisterAt(c, Max(s), acc) = next
        BY DEF RegisterAt
    <2>4. CASE acc.fault # "none"
        <3>1. next = acc
            BY <2>4 DEF Register
        <3> HIDE DEF next
        <3> QED
            BY <2>2, <2>3, <2>4, <3>1 DEF KeepsRegistered
    <2>5. CASE \E f \in {"failed", "panic"} : next = [acc EXCEPT !.fault = f]
        <3> HIDE DEF next
        <3>1. PICK f \in {"failed", "panic"} : next = [acc EXCEPT !.fault = f]
            BY <2>5
        <3>2. next = [graph |-> acc.graph, fault |-> f, promoted |-> acc.promoted]
            BY <2>2, <3>1
        <3> QED
            BY <2>3, <3>2 DEF KeepsRegistered
    <2>6. CASE /\ acc.fault = "none"
               /\ ~DuplicatePromotion(wave)
               /\ next = [graph |-> grown, fault |-> "none", promoted |-> acc.promoted \o wave]
        <3> HIDE DEF next
        <3> DEFINE old == s \ {j}
        <3>1. /\ GraphSound(acc.graph)
              /\ IsSeq(acc.promoted)
              /\ \A p \in ToSet(acc.promoted) : PromotionSound(p)
              /\ DOMAIN g.mints \subseteq DOMAIN acc.graph.mints
              /\ \A i \in old : \A m \in ToSet(q[i].echoes) : <<m[1], m[2]>> \in DOMAIN acc.graph.mints
              /\ \A p \in ToSet(acc.graph.pending) : p \in ToSet(g.pending)
              /\ DOMAIN acc.graph.mints = {} => acc.graph.borders = g.borders /\ acc.promoted = <<>>
            BY <2>2, <2>6 DEF AllRegistered
        <3>2. IsSeq(r.echoes)
            BY <2>1 DEF ResultSound
        <3> HIDE DEF r, j
        <3>3. /\ GraphSound(grown)
              /\ IsSeq(wave)
              /\ \A p \in ToSet(wave) : PromotionSound(p)
              /\ DOMAIN grown.mints = DOMAIN acc.graph.mints \cup {<<m[1], m[2]>> : m \in ToSet(r.echoes)}
              /\ \A p \in ToSet(grown.pending) : p \in ToSet(acc.graph.pending) /\ ~IsReady(grown.mints, p)
              /\ DOMAIN grown.mints = {} => grown.borders = acc.graph.borders /\ wave = <<>>
            BY <2>6, <3>1, <3>2, RegisterSound
        <3> HIDE DEF grown, wave
        <3>4. IsSeq(acc.promoted \o wave) /\ ToSet(acc.promoted \o wave) = ToSet(acc.promoted) \cup ToSet(wave)
            BY <3>1, <3>3, ConcatIn
        <3>5. \A i \in s : \A m \in ToSet(q[i].echoes) : <<m[1], m[2]>> \in DOMAIN grown.mints
            BY <3>1, <3>3 DEF r
        <3>6. DOMAIN grown.mints = {} => grown.borders = g.borders /\ acc.promoted \o wave = <<>>
            BY <3>1, <3>3
        <3>7. AllRegistered(c, s, next)
            BY <2>6, <3>1, <3>3, <3>4, <3>5, <3>6 DEF AllRegistered
        <3> QED
            BY <2>3, <2>6, <3>7 DEF KeepsRegistered
    <2>7. next = IF acc.fault # "none" THEN acc
                 ELSE IF \E k \in DOMAIN r.echoes : Stray(acc.graph, r.echoes[k])
                 THEN [acc EXCEPT !.fault = "failed"]
                 ELSE IF DuplicatePromotion(wave) THEN [acc EXCEPT !.fault = "panic"]
                 ELSE [graph |-> grown, fault |-> "none", promoted |-> acc.promoted \o wave]
        BY DEF Register
    <2> HIDE DEF next, wave, grown, r, j
    <2> QED
        BY <2>4, <2>5, <2>6, <2>7
<1>4. KeepsRegistered(c, items, Registering!Folded(c, base, items))
    <2> DEFINE len == Len(q)
    <2> HIDE DEF items, base, c, len
    <2> QED
        BY <1>1, <1>2, <1>3, Registering!FoldKeeps DEF len
<1>5. KeepsRegistered(c, items, h)
    BY <1>4 DEF FoldLeft, MapThenFoldSet, Max, Registering!Folded, RegisterAt
<1> QED
    BY <1>5 DEF KeepsRegistered

-----------------------------------------------------------------------------
(***************************************************************************)
(* apply_deltas.  A worker's deltas name the ends of its index f, so a     *)
(* side of the graph is the end in f if a delta tells, else what it was.   *)
(***************************************************************************)
Tells(D, b) == \E d \in D : d[1] = b

MovedBy(g, h, w, D, f) ==
    /\ DOMAIN h.borders \subseteq DOMAIN g.borders
    /\ \A b \in DOMAIN h.borders :
           LET old == g.borders[b]
               new == h.borders[b]
           IN  /\ new.worker_a = old.worker_a
               /\ new.worker_b = old.worker_b
               /\ old.worker_a # old.worker_b =>
                     /\ new.side_a = IF w = old.worker_a /\ Tells(D, b) THEN End(f, b) ELSE old.side_a
                     /\ new.side_b = IF w = old.worker_b /\ Tells(D, b) THEN End(f, b) ELSE old.side_b

ApplyDeltaAt(c, d, h) == apply_delta(h, c[2], d)
KeepsDeltas(c, s, h) == GraphBorders(h) /\ SameQueue(c[1], h) /\ MovedBy(c[1], h, c[2], s, c[3])
Moving == INSTANCE FoldRule WITH Body <- ApplyDeltaAt, Pick <- Chosen, Good <- KeepsDeltas

(* One delta after some others.                                            *)
LEMMA MovedAgain ==
    ASSUME NEW g, NEW h, NEW w, NEW s, NEW d \in s, NEW f, d[2] = End(f, d[1]),
           GraphBorders(h), Plain(d[2]), MovedBy(g, h, w, s \ {d}, f),
           NEW i, i = apply_delta(h, w, d)
    PROVE  MovedBy(g, i, w, s, f)
<1>1. /\ DOMAIN i.borders \subseteq DOMAIN h.borders
      /\ \A b \in DOMAIN i.borders :
            /\ i.borders[b].worker_a = h.borders[b].worker_a
            /\ i.borders[b].worker_b = h.borders[b].worker_b
            /\ i.borders[b].side_a =
                   IF b = d[1] /\ w = h.borders[b].worker_a THEN d[2] ELSE h.borders[b].side_a
            /\ h.borders[b].worker_a # h.borders[b].worker_b =>
               i.borders[b].side_b =
                   IF b = d[1] /\ w = h.borders[b].worker_b THEN d[2] ELSE h.borders[b].side_b
    BY ApplyDeltaSound
<1>2. \A b : Tells(s, b) <=> Tells(s \ {d}, b) \/ d[1] = b
    BY DEF Tells
<1>3. DOMAIN i.borders \subseteq DOMAIN g.borders
    BY <1>1 DEF MovedBy
<1>4. ASSUME NEW b \in DOMAIN i.borders
      PROVE  /\ i.borders[b].worker_a = g.borders[b].worker_a
             /\ i.borders[b].worker_b = g.borders[b].worker_b
             /\ g.borders[b].worker_a # g.borders[b].worker_b =>
                   /\ i.borders[b].side_a = IF w = g.borders[b].worker_a /\ Tells(s, b)
                                            THEN End(f, b) ELSE g.borders[b].side_a
                   /\ i.borders[b].side_b = IF w = g.borders[b].worker_b /\ Tells(s, b)
                                            THEN End(f, b) ELSE g.borders[b].side_b
    <2>1. b \in DOMAIN h.borders
        BY <1>1
    <2>2. /\ h.borders[b].worker_a = g.borders[b].worker_a
          /\ h.borders[b].worker_b = g.borders[b].worker_b
          /\ g.borders[b].worker_a # g.borders[b].worker_b =>
                /\ h.borders[b].side_a = IF w = g.borders[b].worker_a /\ Tells(s \ {d}, b)
                                         THEN End(f, b) ELSE g.borders[b].side_a
                /\ h.borders[b].side_b = IF w = g.borders[b].worker_b /\ Tells(s \ {d}, b)
                                         THEN End(f, b) ELSE g.borders[b].side_b
        BY <2>1 DEF MovedBy
    <2> QED
        BY <1>1, <1>2, <2>2
<1> QED
    BY <1>3, <1>4 DEF MovedBy

(* The deltas of one worker.                                               *)
LEMMA DeltasApplied ==
    ASSUME NEW g, GraphBorders(g), NEW w, NEW D, DeltasSound(D), NEW f,
           \A d \in D : d[2] = End(f, d[1]), NEW h, h = apply_deltas(g, w, D)
    PROVE  GraphBorders(h) /\ SameQueue(g, h) /\ MovedBy(g, h, w, D, f)
<1> DEFINE c == <<g, w, f>>
           items == D
           base == g
<1>1. /\ IsFiniteSet(items)
      /\ \A s \in SUBSET items : s # {} => Chosen(s) \in s
    BY DEF PayloadSound, DeltasSound, Chosen
<1>2. KeepsDeltas(c, {}, base)
    BY DEF KeepsDeltas, SameQueue, MovedBy, Tells
<1>3. ASSUME NEW s \in SUBSET items, s # {}, NEW acc, KeepsDeltas(c, s \ {Chosen(s)}, acc)
      PROVE  KeepsDeltas(c, s, ApplyDeltaAt(c, Chosen(s), acc))
    <2> DEFINE d == Chosen(s)
               i == apply_delta(acc, w, d)
    <2>1. d \in s /\ Plain(d[2]) /\ d[2] = End(f, d[1])
        BY <1>1, <1>3 DEF DeltasSound
    <2>2. GraphBorders(acc) /\ SameQueue(g, acc) /\ MovedBy(g, acc, w, s \ {d}, f)
        BY <1>3 DEF KeepsDeltas
    <2>3. ApplyDeltaAt(c, Chosen(s), acc) = i
        BY DEF ApplyDeltaAt
    <2> HIDE DEF d
    <2>4. GraphBorders(i) /\ SameQueue(acc, i)
        BY <2>1, <2>2, ApplyDeltaSound
    <2>5. MovedBy(g, i, w, s, f)
        BY <2>1, <2>2, MovedAgain
    <2> HIDE DEF i
    <2> QED
        BY <2>2, <2>3, <2>4, <2>5 DEF KeepsDeltas, SameQueue
<1>4. KeepsDeltas(c, items, Moving!Folded(c, base, items))
    <2> HIDE DEF items, base, c
    <2> QED
        BY <1>1, <1>2, <1>3, Moving!KeptByFold DEF IsFiniteSet, Moving!IsFiniteSet
<1>5. KeepsDeltas(c, items, h)
    BY <1>4 DEF apply_deltas, FoldSet, MapThenFoldSet, Chosen, Moving!Folded, ApplyDeltaAt
<1>6. c[1] = g /\ c[2] = w /\ c[3] = f /\ (D = {} => items = {})
    BY NothingIn
<1> HIDE DEF c
<1> QED
    BY <1>5, <1>6 DEF KeepsDeltas

(* The results of all workers.                                             *)
Told(q, s, w, b) == \E j \in s : q[j].worker = w /\ Tells(q[j].deltas, b)

MovedByAll(g, h, q, s, f) ==
    /\ DOMAIN h.borders \subseteq DOMAIN g.borders
    /\ \A b \in DOMAIN h.borders :
           LET old == g.borders[b]
               new == h.borders[b]
           IN  /\ new.worker_a = old.worker_a
               /\ new.worker_b = old.worker_b
               /\ old.worker_a # old.worker_b =>
                     /\ new.side_a = IF Told(q, s, old.worker_a, b)
                                     THEN End(f[old.worker_a], b) ELSE old.side_a
                     /\ new.side_b = IF Told(q, s, old.worker_b, b)
                                     THEN End(f[old.worker_b], b) ELSE old.side_b

UpdateAt(c, i, h) == apply_deltas(h, c[2][i].worker, c[2][i].deltas)
KeepsUpdated(c, s, h) ==
    GraphBorders(h) /\ SameQueue(c[1], h) /\ MovedByAll(c[1], h, c[2], s, c[3])
Updating == INSTANCE FoldRule WITH Body <- UpdateAt, Pick <- Max, Good <- KeepsUpdated

(* One result after some others.                                           *)
LEMMA MovedOnceMore ==
    ASSUME NEW g, NEW h, NEW q, NEW s, NEW j \in s, NEW f, MovedByAll(g, h, q, s \ {j}, f),
           NEW i, MovedBy(h, i, q[j].worker, q[j].deltas, f[q[j].worker])
    PROVE  MovedByAll(g, i, q, s, f)
<1> DEFINE w == q[j].worker
<1>1. \A x, b : Told(q, s, x, b) <=> Told(q, s \ {j}, x, b) \/ (w = x /\ Tells(q[j].deltas, b))
    BY DEF Told
<1>2. DOMAIN i.borders \subseteq DOMAIN g.borders
    BY DEF MovedBy, MovedByAll
<1>3. ASSUME NEW b \in DOMAIN i.borders
      PROVE  /\ i.borders[b].worker_a = g.borders[b].worker_a
             /\ i.borders[b].worker_b = g.borders[b].worker_b
             /\ g.borders[b].worker_a # g.borders[b].worker_b =>
                   /\ i.borders[b].side_a = IF Told(q, s, g.borders[b].worker_a, b)
                                            THEN End(f[g.borders[b].worker_a], b) ELSE g.borders[b].side_a
                   /\ i.borders[b].side_b = IF Told(q, s, g.borders[b].worker_b, b)
                                            THEN End(f[g.borders[b].worker_b], b) ELSE g.borders[b].side_b
    <2>1. b \in DOMAIN h.borders
        BY DEF MovedBy
    <2>2. /\ h.borders[b].worker_a = g.borders[b].worker_a
          /\ h.borders[b].worker_b = g.borders[b].worker_b
          /\ g.borders[b].worker_a # g.borders[b].worker_b =>
                /\ h.borders[b].side_a = IF Told(q, s \ {j}, g.borders[b].worker_a, b)
                                         THEN End(f[g.borders[b].worker_a], b) ELSE g.borders[b].side_a
                /\ h.borders[b].side_b = IF Told(q, s \ {j}, g.borders[b].worker_b, b)
                                         THEN End(f[g.borders[b].worker_b], b) ELSE g.borders[b].side_b
        BY <2>1 DEF MovedByAll
    <2>3. /\ i.borders[b].worker_a = h.borders[b].worker_a
          /\ i.borders[b].worker_b = h.borders[b].worker_b
          /\ h.borders[b].worker_a # h.borders[b].worker_b =>
                /\ i.borders[b].side_a = IF w = h.borders[b].worker_a /\ Tells(q[j].deltas, b)
                                         THEN End(f[w], b) ELSE h.borders[b].side_a
                /\ i.borders[b].side_b = IF w = h.borders[b].worker_b /\ Tells(q[j].deltas, b)
                                         THEN End(f[w], b) ELSE h.borders[b].side_b
        BY DEF MovedBy
    <2> HIDE DEF w
    <2> QED
        BY <1>1, <2>2, <2>3
<1> QED
    BY <1>2, <1>3 DEF MovedByAll

(* The deltas of a round.                                                  *)
LEMMA ResultsApplied ==
    ASSUME NEW g, GraphBorders(g), NEW q, IsSeq(q), \A k \in DOMAIN q : ResultSound(q[k]), NEW f,
           \A k \in DOMAIN q : \A d \in q[k].deltas : d[2] = End(f[q[k].worker], d[1]),
           NEW h, h = FoldLeft(LAMBDA i, r : apply_deltas(i, r.worker, r.deltas), g, q)
    PROVE  GraphBorders(h) /\ SameQueue(g, h) /\ MovedByAll(g, h, q, DOMAIN q, f)
<1> DEFINE c == <<g, q, f>>
           items == DOMAIN q
           base == g
<1>1. /\ Len(q) \in Nat /\ items = 1 .. Len(q)
      /\ \A s \in SUBSET items : s # {} => Max(s) \in s
    BY Positions
<1>2. KeepsUpdated(c, {}, base)
    BY DEF KeepsUpdated, SameQueue, MovedByAll, Told
<1>3. ASSUME NEW s \in SUBSET items, s # {}, NEW acc, KeepsUpdated(c, s \ {Max(s)}, acc)
      PROVE  KeepsUpdated(c, s, UpdateAt(c, Max(s), acc))
    <2> DEFINE j == Max(s)
               i == apply_deltas(acc, q[j].worker, q[j].deltas)
    <2>1. /\ j \in s /\ DeltasSound(q[j].deltas)
          /\ \A d \in q[j].deltas : d[2] = End(f[q[j].worker], d[1])
        BY <1>1, <1>3 DEF ResultSound
    <2>2. GraphBorders(acc) /\ SameQueue(g, acc) /\ MovedByAll(g, acc, q, s \ {j}, f)
        BY <1>3 DEF KeepsUpdated
    <2>3. UpdateAt(c, Max(s), acc) = i
        BY DEF UpdateAt
    <2> HIDE DEF j
    <2>4. GraphBorders(i) /\ SameQueue(acc, i) /\ MovedBy(acc, i, q[j].worker, q[j].deltas, f[q[j].worker])
        BY <2>1, <2>2, DeltasApplied
    <2> HIDE DEF i
    <2>5. MovedByAll(g, i, q, s, f)
        BY <2>1, <2>2, <2>4, MovedOnceMore
    <2> QED
        BY <2>2, <2>3, <2>4, <2>5 DEF KeepsUpdated, SameQueue
<1>4. KeepsUpdated(c, items, Updating!Folded(c, base, items))
    <2> DEFINE len == Len(q)
    <2> HIDE DEF items, base, c, len
    <2> QED
        BY <1>1, <1>2, <1>3, Updating!FoldKeeps DEF len
<1>5. KeepsUpdated(c, items, h)
    BY <1>4 DEF FoldLeft, MapThenFoldSet, Max, Updating!Folded, UpdateAt
<1>6. c[1] = g /\ c[2] = q /\ c[3] = f /\ (q = <<>> => items = {})
    BY NothingIn
<1> HIDE DEF c
<1> QED
    BY <1>5, <1>6 DEF KeepsUpdated

-----------------------------------------------------------------------------
(* The cache follows the deltas, in some order.                            *)
LEMMA CacheUpdated ==
    ASSUME NEW p, PlainPart(p), NEW D, DeltasSound(D), NEW q \in CacheUpdate(p, D)
    PROVE  PlainPart(q)
<1>1. PICK s \in SetToSeqs(D) : q = FoldLeft(RepointBorder, p, s)
    BY DEF CacheUpdate
<1>2. s \in [1 .. Cardinality(D) -> D]
    BY <1>1 DEF SetToSeqs
<1>3. Cardinality(D) \in Nat
    BY FS_CardinalityType DEF DeltasSound
<1> DEFINE n == Cardinality(D)
<1> HIDE DEF n
<1>4. s \in Seq(D)
    BY <1>2, <1>3 DEF n
<1>5. IsSeq(s) /\ ToSet(s) \subseteq D
    BY <1>4 DEF IsSeq, ToSet
<1> QED
    BY <1>1, <1>5, RepointsPlain DEF DeltasSound

(* And it follows the resolutions.                                         *)
LEMMA CacheMaintained ==
    ASSUME NEW p, PlainPart(p), NEW d, PayloadSound(d)
    PROVE  PlainPart(MaintainCache(p, d))
<1> DEFINE used == {b \in d.resolved : b \in DOMAIN p.free_port_index /\ IsPrincipal(p.free_port_index[b])}
           consumed == {p.free_port_index[b][2] : b \in used}
           cut == apply_payload_borders(p, d)
           wired == FoldLeft(RewireCache, cut.subnet, d.reconnect)
           left == FoldSet(LAMBDA i, n : remove_agent(n, i), wired, consumed)
<1>1. PlainPart(cut)
    BY PayloadPlain
<1>2. MaintainCache(p, d) = [cut EXCEPT !.subnet = left]
    BY DEF MaintainCache
<1> HIDE DEF cut
<1>3. PlainNet(wired)
    BY <1>1, RewiresPlain DEF PayloadSound, PlainPart
<1> HIDE DEF wired
<1>4. IsFiniteSet(used)
    BY FS_Subset DEF PayloadSound
<1>5. IsFiniteSet(consumed)
    <2> DEFINE f == [b \in used |-> p.free_port_index[b][2]]
    <2>1. f \in Surjection(used, consumed)
        <3> HIDE DEF used
        <3> QED
            BY DEF Surjection
    <2> HIDE DEF f, used, consumed
    <2> QED
        BY <1>4, <2>1, FS_Surjection
<1> HIDE DEF consumed
<1>6. PlainNet(left)
    BY <1>3, <1>5, ConsumedPlain
<1> HIDE DEF left
<1> QED
    BY <1>1, <1>2, <1>6, PartPlain

-----------------------------------------------------------------------------
(***************************************************************************)
(* The resolver: what it sends to the workers and queues is well formed,   *)
(* and an agent a queued border waits for is in a batch of the same        *)
(* resolution.                                                             *)
(***************************************************************************)
(* The elements of a tuple of four.                                        *)
LEMMA FourIn ==
    ASSUME NEW x, NEW y, NEW z, NEW u
    PROVE  IsSeq(<<x, y, z, u>>) /\ ToSet(<<x, y, z, u>>) = {x, y, z, u}
<1> DEFINE q == <<x, y, z, u>>
<1>1. q \in Seq({x, y, z, u})
    OBVIOUS
<1>2. DOMAIN q = {1, 2, 3, 4} /\ q[1] = x /\ q[2] = y /\ q[3] = z /\ q[4] = u
    OBVIOUS
<1> HIDE DEF q
<1>3. IsSeq(q) /\ ToSet(q) = {x, y, z, u}
    BY <1>1, <1>2 DEF IsSeq, ToSet
<1> QED
    BY <1>3 DEF q

PushCrossingAt(c, i, r) == PushCrossing(r, c[i])
KeepsCrossing(c, s, r) == IsSeq(r) /\ \A e \in ToSet(r) : \E j \in s : e = c[j]
Crossing == INSTANCE FoldRule WITH Body <- PushCrossingAt, Pick <- Max, Good <- KeepsCrossing

LocalOf(id, q) == FoldLeft(LAMBDA r, e : PushLocal(id, r, e), <<>>, q)
PushLocalAt(c, i, r) == PushLocal(c[1], r, c[2][i])
KeepsLocal(c, s, r) ==
    IsSeq(r) /\ \A h \in ToSet(r) : \E j \in s : h = <<c[2][j][3], 0, c[2][j][1]>>
Locals == INSTANCE FoldRule WITH Body <- PushLocalAt, Pick <- Max, Good <- KeepsLocal

(* The principal ports that need a border.                                 *)
LEMMA CrossingFound ==
    ASSUME NEW q, IsSeq(q), NEW h, h = FoldLeft(PushCrossing, <<>>, q)
    PROVE  IsSeq(h) /\ ToSet(h) \subseteq ToSet(q)
<1> DEFINE c == q
           items == DOMAIN q
           base == <<>>
<1>1. /\ Len(q) \in Nat /\ items = 1 .. Len(q)
      /\ \A s \in SUBSET items : s # {} => Max(s) \in s
    BY Positions
<1>2. KeepsCrossing(c, {}, base)
    BY NothingIn DEF KeepsCrossing
<1>3. ASSUME NEW s \in SUBSET items, s # {}, NEW acc, KeepsCrossing(c, s \ {Max(s)}, acc)
      PROVE  KeepsCrossing(c, s, PushCrossingAt(c, Max(s), acc))
    <2> DEFINE e == q[Max(s)]
               r == PushCrossing(acc, e)
    <2>1. Max(s) \in s
        BY <1>1, <1>3
    <2>2. IsSeq(acc) /\ \A x \in ToSet(acc) : \E j \in s \ {Max(s)} : x = q[j]
        BY <1>3 DEF KeepsCrossing
    <2>3. PushCrossingAt(c, Max(s), acc) = r
        BY DEF PushCrossingAt
    <2>4. IsSeq(r) /\ (ToSet(r) = ToSet(acc) \/ ToSet(r) = ToSet(acc) \cup {e})
        BY <2>2, AppendIn DEF PushCrossing
    <2>5. \A x \in ToSet(r) : \E j \in s : x = q[j]
        <3> HIDE DEF r
        <3> QED
            BY <2>1, <2>2, <2>4
    <2> HIDE DEF r, e
    <2> QED
        BY <2>3, <2>4, <2>5 DEF KeepsCrossing
<1>4. KeepsCrossing(c, items, Crossing!Folded(c, base, items))
    <2> DEFINE len == Len(q)
    <2> HIDE DEF items, base, c, len
    <2> QED
        BY <1>1, <1>2, <1>3, Crossing!FoldKeeps DEF len
<1>5. KeepsCrossing(c, items, h)
    BY <1>4 DEF FoldLeft, MapThenFoldSet, Max, Crossing!Folded, PushCrossingAt
<1>6. c = q /\ (q = <<>> => items = {})
    BY NothingIn
<1> HIDE DEF c
<1> QED
    BY <1>5, <1>6 DEF KeepsCrossing, ToSet

(* The principal ports that are wired inside a worker.                     *)
LEMMA LocalFound ==
    ASSUME NEW id, NEW q, IsSeq(q), NEW h, h = LocalOf(id, q)
    PROVE  IsSeq(h) /\ \A x \in ToSet(h) : \E e \in ToSet(q) : x = <<e[3], 0, e[1]>>
<1> DEFINE c == <<id, q>>
           items == DOMAIN q
           base == <<>>
<1>1. /\ Len(q) \in Nat /\ items = 1 .. Len(q)
      /\ \A s \in SUBSET items : s # {} => Max(s) \in s
    BY Positions
<1>2. KeepsLocal(c, {}, base)
    BY NothingIn DEF KeepsLocal
<1>3. ASSUME NEW s \in SUBSET items, s # {}, NEW acc, KeepsLocal(c, s \ {Max(s)}, acc)
      PROVE  KeepsLocal(c, s, PushLocalAt(c, Max(s), acc))
    <2> DEFINE e == q[Max(s)]
               r == PushLocal(id, acc, e)
    <2>1. Max(s) \in s
        BY <1>1, <1>3
    <2>2. IsSeq(acc) /\ \A x \in ToSet(acc) : \E j \in s \ {Max(s)} : x = <<q[j][3], 0, q[j][1]>>
        BY <1>3 DEF KeepsLocal
    <2>3. PushLocalAt(c, Max(s), acc) = r
        BY DEF PushLocalAt
    <2>4. IsSeq(r) /\ (ToSet(r) = ToSet(acc) \/ ToSet(r) = ToSet(acc) \cup {<<e[3], 0, e[1]>>})
        BY <2>2, AppendIn DEF PushLocal
    <2>5. \A x \in ToSet(r) : \E j \in s : x = <<q[j][3], 0, q[j][1]>>
        <3> HIDE DEF r
        <3> QED
            BY <2>1, <2>2, <2>4
    <2> HIDE DEF r, e
    <2> QED
        BY <2>3, <2>4, <2>5 DEF KeepsLocal
<1>4. KeepsLocal(c, items, Locals!Folded(c, base, items))
    <2> DEFINE len == Len(q)
    <2> HIDE DEF items, base, c, len
    <2> QED
        BY <1>1, <1>2, <1>3, Locals!FoldKeeps DEF len
<1>5. KeepsLocal(c, items, h)
    BY <1>4 DEF LocalOf, FoldLeft, MapThenFoldSet, Max, Locals!Folded, PushLocalAt
<1>6. c[1] = id /\ c[2] = q /\ (q = <<>> => items = {})
    BY NothingIn
<1> HIDE DEF c
<1> QED
    BY <1>5, <1>6 DEF KeepsLocal, ToSet

(* A border with a pending end, or with two.                               *)
LEMMA PendingQueued ==
    ASSUME NEW b, NEW id, NEW slot, NEW p, NEW r, QueuedEnd(r), NEW wa \in WorkerIds, NEW wb \in WorkerIds,
           NEW x, x = PendingBorder(b, Pending(id, slot, p), r, wa, wb)
    PROVE  /\ Queued(x)
           /\ x.side_a = <<"pending", id, slot, p>>
           /\ x.side_b = r
<1>1. /\ x.side_a = Pending(id, slot, p)
      /\ x.side_b = r
      /\ x.worker_a = wa
      /\ x.worker_b = wb
    BY DEF PendingBorder
<1> QED
    BY <1>1, PlainConstants DEF Queued, QueuedEnd, Pending

(* A batch of two agents mints for its commutation id and two slots.       *)
LEMMA TwoSlots ==
    ASSUME NEW id, NEW w \in WorkerIds, NEW sa \in Symbols, NEW sb \in Symbols, NEW wiring, IsSeq(wiring),
           \A h \in ToSet(wiring) : h[3][1] = "slot" \/ Plain(h[3]),
           NEW x, x = Batch(id, w, <<sa, sb>>, wiring)
    PROVE  /\ BatchSound(x)
           /\ \A slot \in {0, 1} : \A p : MintsFor(x, <<"pending", id, slot, p>>)
<1>1. x.cid = id /\ x.worker = w /\ x.symbols = <<sa, sb>> /\ x.wiring = wiring
    BY DEF Batch
<1>2. <<sa, sb>> \in Seq(Symbols) /\ Len(<<sa, sb>>) = 2
    OBVIOUS
<1>3. BatchSound(x)
    BY <1>1, <1>2 DEF BatchSound
<1>4. ASSUME NEW slot \in {0, 1}, NEW p PROVE MintsFor(x, <<"pending", id, slot, p>>)
    <2> DEFINE r == <<"pending", id, slot, p>>
    <2>1. r[2] = id /\ r[3] = slot
        OBVIOUS
    <2>2. slot \in 0 .. Len(x.symbols) - 1
        <3>1. Len(x.symbols) = 2
            BY <1>1, <1>2
        <3>2. slot \in 0 .. 2 - 1
            OBVIOUS
        <3> QED
            BY <3>1, <3>2
    <2> HIDE DEF r
    <2>3. MintsFor(x, r)
        BY <1>1, <2>1, <2>2 DEF MintsFor
    <2> QED
        BY <2>3 DEF r
<1> QED
    BY <1>3, <1>4

(* resolve_same: the four neighbours are paired.                           *)
LEMMA SameSound ==
    ASSUME NEW st, NEW store, NEW bb, NEW cc,
           PlainNet(store[st.worker_a].subnet), PlainNet(store[st.worker_b].subnet),
           st.side_a[2] \in Live(store[st.worker_a].subnet),
           st.side_b[2] \in Live(store[st.worker_b].subnet)
    PROVE  ResolutionSound(resolve_same(st, store, bb, cc))
<1> DEFINE na == store[st.worker_a].subnet
           nb == store[st.worker_b].subnet
           a == st.side_a[2]
           b == st.side_b[2]
           res == resolve_same(st, store, bb, cc)
<1>1. 1 \in PortIds /\ 2 \in PortIds
    BY DEF PortIds
<1>2. /\ Plain(Aux(na, a, 1)) /\ Plain(Aux(na, a, 2))
      /\ Plain(Aux(nb, b, 1)) /\ Plain(Aux(nb, b, 2))
    <2> HIDE DEF na, nb, a, b
    <2> QED
        BY <1>1, AuxPlain DEF na, nb, a, b
<1> DEFINE a1 == Aux(na, a, 1)
           a2 == Aux(na, a, 2)
           b1 == Aux(nb, b, 1)
           b2 == Aux(nb, b, 2)
<1>3. PICK wires : /\ wires \in {<< <<a1, b2>>, <<a2, b1>> >>, << <<a1, b1>>, <<a2, b2>> >>, <<>>}
                   /\ res = [reconnect |-> wires, batches |-> <<>>, pending |-> <<>>, bid |-> bb, cid |-> cc]
    BY DEF resolve_same, Annihilated
<1> HIDE DEF a1, a2, b1, b2, res
<1>4. IsSeq(wires) /\ \A ab \in ToSet(wires) : Plain(ab[1]) /\ Plain(ab[2])
    <2>1. CASE wires = << <<a1, b2>>, <<a2, b1>> >>
        BY <1>2, <2>1, TwoIn DEF a1, a2, b1, b2
    <2>2. CASE wires = << <<a1, b1>>, <<a2, b2>> >>
        BY <1>2, <2>2, TwoIn DEF a1, a2, b1, b2
    <2>3. CASE wires = <<>>
        BY <2>3, NothingIn
    <2> QED
        BY <1>3, <2>1, <2>2, <2>3
<1>5. ResolutionSound(res)
    <2>1. /\ res.reconnect = wires /\ res.batches = <<>> /\ res.pending = <<>>
          /\ IsSeq(<<>>) /\ ToSet(<<>>) = {}
        BY <1>3, NothingIn
    <2> QED
        BY <1>4, <2>1 DEF ResolutionSound
<1> QED
    BY <1>5 DEF res

(* resolve_con_dup: four agents in two batches, two to six new borders.    *)
LEMMA ConDupSound ==
    ASSUME NEW con, NEW dup, NEW wc \in WorkerIds, NEW wd \in WorkerIds, NEW store, NEW bb, NEW cc,
           PlainNet(store[wc].subnet), PlainNet(store[wd].subnet),
           con \in Live(store[wc].subnet), dup \in Live(store[wd].subnet)
    PROVE  ResolutionSound(resolve_con_dup(con, dup, wc, wd, store, bb, cc))
<1> DEFINE c1 == Aux(store[wc].subnet, con, 1)
           c2 == Aux(store[wc].subnet, con, 2)
           d1 == Aux(store[wd].subnet, dup, 1)
           d2 == Aux(store[wd].subnet, dup, 2)
           e1 == <<c1, wc, 0, wc, cc>>
           e2 == <<c2, wc, 0, wd, cc + 1>>
           e3 == <<d1, wd, 1, wc, cc>>
           e4 == <<d2, wd, 1, wd, cc + 1>>
           ends == <<e1, e2, e3, e4>>
           crossing == FoldLeft(PushCrossing, <<>>, ends)
           Queue(k) == PendingBorder(bb + k - 1, Pending(crossing[k][5], crossing[k][3], 0),
                                     crossing[k][1], crossing[k][4], crossing[k][2])
           external == [k \in DOMAIN crossing |-> Queue(k)]
           next == bb + Len(crossing)
           i1 == PendingBorder(next, Pending(cc, 0, 2), Pending(cc + 1, 1, 1), wc, wd)
           i2 == PendingBorder(next + 1, Pending(cc + 1, 0, 1), Pending(cc, 1, 2), wd, wc)
           wires1 == Append(LocalOf(cc, ends), <<0, 1, SlotMarker(1, 1)>>)
           wires2 == Append(LocalOf(cc + 1, ends), <<0, 2, SlotMarker(1, 2)>>)
           x1 == Batch(cc, wc, <<"Dup", "Con">>, wires1)
           x2 == Batch(cc + 1, wd, <<"Dup", "Con">>, wires2)
           res == resolve_con_dup(con, dup, wc, wd, store, bb, cc)
<1>1. Plain(c1) /\ Plain(c2) /\ Plain(d1) /\ Plain(d2)
    BY AuxPlain DEF PortIds
<1>2. res = [reconnect |-> <<>>, batches |-> <<x1, x2>>, pending |-> external \o <<i1, i2>>,
             bid |-> next + 2, cid |-> cc + 2]
    BY DEF resolve_con_dup, LocalOf
<1> HIDE DEF c1, c2, d1, d2, res
<1> DEFINE EndSound(e) == /\ Plain(e[1])
                          /\ e[2] \in WorkerIds /\ e[4] \in WorkerIds
                          /\ e[3] \in {0, 1}
                          /\ e[5] \in {cc, cc + 1}
<1>3. IsSeq(ends) /\ ToSet(ends) = {e1, e2, e3, e4}
    <2> HIDE DEF e1, e2, e3, e4
    <2> QED
        BY FourIn
<1>4. \A e \in ToSet(ends) : EndSound(e)
    <2>1. EndSound(e1) /\ EndSound(e2) /\ EndSound(e3) /\ EndSound(e4)
        BY <1>1
    <2> HIDE DEF e1, e2, e3, e4, EndSound, ends
    <2> QED
        BY <1>3, <2>1
<1> HIDE DEF ends
<1>5. IsSeq(crossing) /\ \A e \in ToSet(crossing) : EndSound(e)
    <2> HIDE DEF EndSound
    <2> QED
        BY <1>3, <1>4, CrossingFound
<1>6. ASSUME NEW id
      PROVE  IsSeq(LocalOf(id, ends)) /\ \A h \in ToSet(LocalOf(id, ends)) : Plain(h[3])
    <2>1. /\ IsSeq(LocalOf(id, ends))
          /\ \A h \in ToSet(LocalOf(id, ends)) : \E e \in ToSet(ends) : h = <<e[3], 0, e[1]>>
        BY <1>3, LocalFound
    <2> QED
        BY <1>4, <2>1
<1> HIDE DEF crossing
<1>7. /\ BatchSound(x1) /\ \A slot \in {0, 1} : \A p : MintsFor(x1, <<"pending", cc, slot, p>>)
      /\ BatchSound(x2) /\ \A slot \in {0, 1} : \A p : MintsFor(x2, <<"pending", cc + 1, slot, p>>)
    <2>1. /\ IsSeq(wires1) /\ \A h \in ToSet(wires1) : h[3][1] = "slot" \/ Plain(h[3])
          /\ IsSeq(wires2) /\ \A h \in ToSet(wires2) : h[3][1] = "slot" \/ Plain(h[3])
        BY <1>6, AppendIn DEF SlotMarker
    <2>2. "Dup" \in Symbols /\ "Con" \in Symbols
        BY DEF Symbols
    <2> HIDE DEF wires1, wires2
    <2>3. BatchSound(x1) /\ \A slot \in {0, 1} : \A p : MintsFor(x1, <<"pending", cc, slot, p>>)
        BY <2>1, <2>2, TwoSlots
    <2>4. BatchSound(x2) /\ \A slot \in {0, 1} : \A p : MintsFor(x2, <<"pending", cc + 1, slot, p>>)
        BY <2>1, <2>2, TwoSlots
    <2> QED
        BY <2>3, <2>4
<1> HIDE DEF x1, x2
<1> DEFINE Served(r) == IsPending(r) => \E x \in {x1, x2} : MintsFor(x, r)
           Fine(p) == Queued(p) /\ Served(p.side_a) /\ Served(p.side_b)
<1>8. Fine(i1) /\ Fine(i2)
    <2>1. Queued(i1) /\ i1.side_a = <<"pending", cc, 0, 2>> /\ i1.side_b = <<"pending", cc + 1, 1, 1>>
        <3> DEFINE r == Pending(cc + 1, 1, 1)
        <3>1. QueuedEnd(r)
            BY PlainConstants DEF QueuedEnd
        <3> HIDE DEF r
        <3>2. Queued(i1) /\ i1.side_a = <<"pending", cc, 0, 2>> /\ i1.side_b = r
            BY <3>1, PendingQueued DEF r
        <3> QED
            BY <3>2 DEF r, Pending
    <2>2. Queued(i2) /\ i2.side_a = <<"pending", cc + 1, 0, 1>> /\ i2.side_b = <<"pending", cc, 1, 2>>
        <3> DEFINE r == Pending(cc, 1, 2)
        <3>1. QueuedEnd(r)
            BY PlainConstants DEF QueuedEnd
        <3> HIDE DEF r
        <3>2. Queued(i2) /\ i2.side_a = <<"pending", cc + 1, 0, 1>> /\ i2.side_b = r
            BY <3>1, PendingQueued DEF r
        <3> QED
            BY <3>2 DEF r, Pending
    <2> HIDE DEF i1, i2
    <2> QED
        BY <1>7, <2>1, <2>2
<1>9. IsSeq(external) /\ \A p \in ToSet(external) : Fine(p)
    <2>1. Len(crossing) \in Nat /\ DOMAIN crossing = 1 .. Len(crossing)
        BY <1>5, Positions
    <2>2. IsSeq(external)
        <3> DEFINE n == Len(crossing)
        <3> HIDE DEF n, Queue
        <3>1. external = [k \in 1 .. n |-> external[k]]
            BY <2>1 DEF n
        <3> HIDE DEF external
        <3> QED
            BY <2>1, <3>1, TableIn DEF n
    <2>3. ASSUME NEW k \in DOMAIN crossing PROVE Fine(Queue(k))
        <3> DEFINE e == crossing[k]
                   p == Queue(k)
        <3>1. EndSound(e)
            BY <1>5 DEF ToSet
        <3> HIDE DEF e
        <3>2. p = PendingBorder(bb + k - 1, Pending(e[5], e[3], 0), e[1], e[4], e[2])
            BY DEF e
        <3> HIDE DEF p
        <3>3. Queued(p) /\ p.side_a = <<"pending", e[5], e[3], 0>> /\ p.side_b = e[1]
            <4>1. QueuedEnd(e[1]) /\ e[2] \in WorkerIds /\ e[4] \in WorkerIds
                BY <3>1 DEF QueuedEnd
            <4> DEFINE slot == e[3]
                       id == e[5]
                       r == e[1]
                       wa == e[4]
                       wb == e[2]
                       b == bb + k - 1
            <4> HIDE DEF slot, id, r, wa, wb, b
            <4>2. p = PendingBorder(b, Pending(id, slot, 0), r, wa, wb)
                BY <3>2 DEF slot, id, r, wa, wb, b
            <4>3. QueuedEnd(r) /\ wa \in WorkerIds /\ wb \in WorkerIds
                BY <4>1 DEF r, wa, wb
            <4>4. Queued(p) /\ p.side_a = <<"pending", id, slot, 0>> /\ p.side_b = r
                BY <4>2, <4>3, PendingQueued
            <4> QED
                BY <4>4 DEF id, slot, r
        <3>4. ~IsPending(e[1])
            BY <3>1, PlainConstants
        <3>5. Fine(p)
            BY <1>7, <3>1, <3>3, <3>4
        <3> QED
            BY <3>5 DEF p
    <2> HIDE DEF Queue, Fine
    <2> QED
        BY <2>2, <2>3 DEF ToSet
<1> HIDE DEF i1, i2, external
<1>10. /\ IsSeq(external \o <<i1, i2>>)
       /\ ToSet(external \o <<i1, i2>>) = ToSet(external) \cup {i1, i2}
    BY <1>9, TwoIn, ConcatIn
<1>11. IsSeq(<<x1, x2>>) /\ ToSet(<<x1, x2>>) = {x1, x2}
    BY TwoIn
<1>12. \A p \in ToSet(external \o <<i1, i2>>) : Fine(p)
    <2> HIDE DEF Fine
    <2> QED
        BY <1>8, <1>9, <1>10
<1>13. /\ res.reconnect = <<>> /\ res.batches = <<x1, x2>> /\ res.pending = external \o <<i1, i2>>
       /\ IsSeq(<<>>) /\ ToSet(<<>>) = {}
    BY <1>2, NothingIn
<1> DEFINE queue == external \o <<i1, i2>>
           batches == <<x1, x2>>
<1> HIDE DEF queue, batches
<1>14. ResolutionSound(res)
    <2>1. /\ res.reconnect = <<>> /\ res.batches = batches /\ res.pending = queue
          /\ IsSeq(queue) /\ \A p \in ToSet(queue) : Fine(p)
          /\ IsSeq(batches) /\ ToSet(batches) = {x1, x2}
        BY <1>10, <1>11, <1>12, <1>13 DEF queue, batches
    <2>2. \A p \in ToSet(queue) : \A r \in {p.side_a, p.side_b} :
              IsPending(r) => \E x \in ToSet(batches) : MintsFor(x, r)
        BY <2>1
    <2>3. \A p \in ToSet(queue) : Queued(p)
        BY <2>1
    <2> HIDE DEF Fine
    <2> QED
        BY <1>7, <1>13, <2>1, <2>2, <2>3 DEF ResolutionSound
<1> QED
    BY <1>14 DEF res

(* PreservedBorder: the eraser replaces the end w had.                     *)
LEMMA PreservedSound ==
    ASSUME NEW g, GraphBorders(g), NEW target, Plain(target), NEW cc, NEW slot, NEW w \in WorkerIds,
           NEW x, x = PreservedBorder(g, target, cc, slot, w)
    PROVE  /\ Queued(x)
           /\ x.side_a = <<"pending", cc, slot, 0>>
           /\ ~IsPending(x.side_b)
<1> DEFINE b == target[2]
<1>1. ASSUME b \in DOMAIN g.borders PROVE PlainState(g.borders[b])
    BY <1>1 DEF GraphBorders
<1>2. PICK r, wb : Plain(r) /\ wb \in WorkerIds /\ x = PendingBorder(b, Pending(cc, slot, 0), r, w, wb)
    <2>1. CASE b \notin DOMAIN g.borders
        <3>1. x = PendingBorder(b, Pending(cc, slot, 0), target, w, w)
            BY <2>1 DEF PreservedBorder
        <3> QED
            BY <3>1
    <2>2. CASE b \in DOMAIN g.borders /\ g.borders[b].worker_a = w
        <3>1. x = PendingBorder(b, Pending(cc, slot, 0), g.borders[b].side_b, w, g.borders[b].worker_b)
            BY <2>2 DEF PreservedBorder
        <3> QED
            BY <1>1, <2>2, <3>1 DEF PlainState
    <2>3. CASE b \in DOMAIN g.borders /\ g.borders[b].worker_a # w
        <3>1. x = PendingBorder(b, Pending(cc, slot, 0), g.borders[b].side_a, w, g.borders[b].worker_a)
            BY <2>3 DEF PreservedBorder
        <3> QED
            BY <1>1, <2>3, <3>1 DEF PlainState
    <2> QED
        BY <2>1, <2>2, <2>3
<1> QED
    BY <1>2, PendingQueued, PlainConstants DEF QueuedEnd

(* resolve_non_era_era: two erasers in one batch.                          *)
LEMMA EraserSound ==
    ASSUME NEW g, GraphBorders(g), NEW node, NEW w \in WorkerIds, NEW store, NEW bb, NEW cc,
           PlainNet(store[w].subnet), node \in Live(store[w].subnet)
    PROVE  ResolutionSound(resolve_non_era_era(g, node, w, store, bb, cc))
<1> DEFINE t1 == Aux(store[w].subnet, node, 1)
           t2 == Aux(store[w].subnet, node, 2)
           e1 == <<t1, w, 0, w, cc>>
           e2 == <<t2, w, 1, w, cc>>
           ends == <<e1, e2>>
           cross == FoldLeft(PushCrossing, <<>>, ends)
           queue == [k \in DOMAIN cross |-> PreservedBorder(g, cross[k][1], cc, cross[k][3], w)]
           wires == LocalOf(cc, ends)
           x1 == Batch(cc, w, <<"Era", "Era">>, wires)
           res == resolve_non_era_era(g, node, w, store, bb, cc)
<1>1. Plain(t1) /\ Plain(t2)
    BY AuxPlain DEF PortIds
<1>2. res = [reconnect |-> <<>>, batches |-> <<x1>>, pending |-> queue, bid |-> bb, cid |-> cc + 1]
    BY DEF resolve_non_era_era, LocalOf
<1> HIDE DEF t1, t2, res
<1> DEFINE EndSound(e) == Plain(e[1]) /\ e[3] \in {0, 1}
<1>3. IsSeq(ends) /\ ToSet(ends) = {e1, e2}
    <2> HIDE DEF e1, e2
    <2> QED
        BY TwoIn
<1>4. \A e \in ToSet(ends) : EndSound(e)
    <2>1. EndSound(e1) /\ EndSound(e2)
        BY <1>1
    <2> HIDE DEF e1, e2, EndSound, ends
    <2> QED
        BY <1>3, <2>1
<1> HIDE DEF ends
<1>5. IsSeq(cross) /\ \A e \in ToSet(cross) : EndSound(e)
    <2> HIDE DEF EndSound
    <2> QED
        BY <1>3, <1>4, CrossingFound
<1>6. IsSeq(wires) /\ \A h \in ToSet(wires) : Plain(h[3])
    <2>1. IsSeq(wires) /\ \A h \in ToSet(wires) : \E e \in ToSet(ends) : h = <<e[3], 0, e[1]>>
        BY <1>3, LocalFound
    <2> HIDE DEF wires
    <2> QED
        BY <1>4, <2>1
<1> HIDE DEF cross, wires
<1>7. BatchSound(x1) /\ \A slot \in {0, 1} : \A p : MintsFor(x1, <<"pending", cc, slot, p>>)
    <2>1. "Era" \in Symbols
        BY DEF Symbols
    <2> QED
        BY <1>6, <2>1, TwoSlots
<1> HIDE DEF x1
<1> DEFINE Fine(p) == Queued(p) /\ MintsFor(x1, p.side_a) /\ ~IsPending(p.side_b)
<1>8. IsSeq(queue) /\ \A p \in ToSet(queue) : Fine(p)
    <2>1. Len(cross) \in Nat /\ DOMAIN cross = 1 .. Len(cross)
        BY <1>5, Positions
    <2>2. IsSeq(queue)
        <3> DEFINE n == Len(cross)
        <3> HIDE DEF n
        <3>1. queue = [k \in 1 .. n |-> queue[k]]
            BY <2>1 DEF n
        <3> HIDE DEF queue
        <3> QED
            BY <2>1, <3>1, TableIn DEF n
    <2>3. ASSUME NEW k \in DOMAIN cross PROVE Fine(PreservedBorder(g, cross[k][1], cc, cross[k][3], w))
        <3> DEFINE e == cross[k]
                   p == PreservedBorder(g, e[1], cc, e[3], w)
        <3>1. EndSound(e)
            BY <1>5 DEF ToSet
        <3> HIDE DEF e
        <3>2. Queued(p) /\ p.side_a = <<"pending", cc, e[3], 0>> /\ ~IsPending(p.side_b)
            BY <3>1, PreservedSound
        <3> HIDE DEF p
        <3>3. Fine(p)
            BY <1>7, <3>1, <3>2
        <3> QED
            BY <3>3 DEF p, e
    <2> HIDE DEF Fine
    <2> QED
        BY <2>2, <2>3 DEF ToSet
<1> HIDE DEF queue
<1>9. /\ IsSeq(<<x1>>) /\ ToSet(<<x1>>) = {x1}
      /\ res.reconnect = <<>> /\ res.batches = <<x1>> /\ res.pending = queue
      /\ IsSeq(<<>>) /\ ToSet(<<>>) = {}
    BY <1>2, OneIn, NothingIn
<1>10. ResolutionSound(res)
    BY <1>7, <1>8, <1>9 DEF ResolutionSound
<1> QED
    BY <1>10 DEF res

(* resolve_border_redex of a border whose two agents the cache has.        *)
LEMMA ResolverSound ==
    ASSUME NEW g, GraphBorders(g), NEW b \in DOMAIN g.borders, NEW store, NEW bb, NEW cc,
           \A w \in WorkerIds : PlainPart(store[w]),
           HasAgent(store[g.borders[b].worker_a], g.borders[b].side_a),
           HasAgent(store[g.borders[b].worker_b], g.borders[b].side_b)
    PROVE  ResolutionSound(Resolution(g, store, b, bb, cc))
<1> DEFINE st == g.borders[b]
           sa == store[st.worker_a].subnet.agents[st.side_a[2]]
           sb == store[st.worker_b].subnet.agents[st.side_b[2]]
           res == Resolution(g, store, b, bb, cc)
<1>1. st.worker_a \in WorkerIds /\ st.worker_b \in WorkerIds
    BY DEF GraphBorders, PlainState
<1>2. PlainNet(store[st.worker_a].subnet) /\ PlainNet(store[st.worker_b].subnet)
    BY <1>1 DEF PlainPart
<1>3. st.side_a[2] \in Live(store[st.worker_a].subnet) /\ st.side_b[2] \in Live(store[st.worker_b].subnet)
    BY DEF HasAgent
<1>4. res \in {resolve_same(st, store, bb, cc),
               resolve_con_dup(st.side_a[2], st.side_b[2], st.worker_a, st.worker_b, store, bb, cc),
               resolve_con_dup(st.side_b[2], st.side_a[2], st.worker_b, st.worker_a, store, bb, cc),
               resolve_non_era_era(g, st.side_a[2], st.worker_a, store, bb, cc),
               resolve_non_era_era(g, st.side_b[2], st.worker_b, store, bb, cc)}
    <2>1. res = CASE sa = sb -> resolve_same(st, store, bb, cc)
                  [] sa = "Con" /\ sb = "Dup" ->
                        resolve_con_dup(st.side_a[2], st.side_b[2], st.worker_a, st.worker_b, store, bb, cc)
                  [] sa = "Dup" /\ sb = "Con" ->
                        resolve_con_dup(st.side_b[2], st.side_a[2], st.worker_b, st.worker_a, store, bb, cc)
                  [] sa # "Era" /\ sb = "Era" ->
                        resolve_non_era_era(g, st.side_a[2], st.worker_a, store, bb, cc)
                  [] OTHER ->
                        resolve_non_era_era(g, st.side_b[2], st.worker_b, store, bb, cc)
        BY DEF Resolution
    <2> HIDE DEF res, st, sa, sb
    <2> QED
        BY <2>1
<1> HIDE DEF st, res
<1>5. /\ ResolutionSound(resolve_same(st, store, bb, cc))
      /\ ResolutionSound(resolve_con_dup(st.side_a[2], st.side_b[2], st.worker_a, st.worker_b, store, bb, cc))
      /\ ResolutionSound(resolve_con_dup(st.side_b[2], st.side_a[2], st.worker_b, st.worker_a, store, bb, cc))
      /\ ResolutionSound(resolve_non_era_era(g, st.side_a[2], st.worker_a, store, bb, cc))
      /\ ResolutionSound(resolve_non_era_era(g, st.side_b[2], st.worker_b, store, bb, cc))
    BY <1>1, <1>2, <1>3, SameSound, ConDupSound, EraserSound
<1>6. ResolutionSound(res)
    BY <1>4, <1>5
<1> QED
    BY <1>6 DEF res

-----------------------------------------------------------------------------
(***************************************************************************)
(* package_resolutions: the payloads are well formed, and every batch of   *)
(* a resolution is in the payload of its worker.                           *)
(***************************************************************************)
OwnOf(w, q, batches) == FoldLeft(LAMBDA r, x : PushOwn(w, r, x), q, batches)
PushOwnAt(c, i, r) == PushOwn(c[1], r, c[3][i])
KeepsOwn(c, s, r) ==
    /\ IsSeq(r)
    /\ ToSet(r) \subseteq ToSet(c[2]) \cup ToSet(c[3])
    /\ ToSet(c[2]) \subseteq ToSet(r)
    /\ \A j \in s : c[3][j].worker = c[1] => c[3][j] \in ToSet(r)
Owning == INSTANCE FoldRule WITH Body <- PushOwnAt, Pick <- Max, Good <- KeepsOwn

PackagedAll(w, q) == FoldLeft(LAMBDA d, r : PackageResolution(w, d, r), EmptyPayload, q)
PackageAt(c, i, d) == PackageResolution(c[1], d, c[2][i])
KeepsPackage(c, s, d) ==
    /\ PayloadSound(d)
    /\ \A j \in s : \A x \in ToSet(c[2][j][3].batches) : x.worker = c[1] => x \in ToSet(d.batches)
Packaging == INSTANCE FoldRule WITH Body <- PackageAt, Pick <- Max, Good <- KeepsPackage

PromotionsPackaged(w, d, q) == FoldLeft(LAMBDA e, p : PackagePromotion(w, e, p), d, q)
PackagePromotionAt(c, i, d) == PackagePromotion(c[1], d, c[2][i])
KeepsBatchesOf(c, s, d) == PayloadSound(d) /\ d.batches = c[3].batches
Promotions == INSTANCE FoldRule WITH Body <- PackagePromotionAt, Pick <- Max, Good <- KeepsBatchesOf

ConcatAt(c, i, q) == QueuePending(q, c[2][i])
KeepsConcat(c, s, q) ==
    /\ IsSeq(q)
    /\ \A p \in ToSet(q) : p \in ToSet(c[1]) \/ \E j \in s : p \in ToSet(c[2][j][3].pending)
Concats == INSTANCE FoldRule WITH Body <- ConcatAt, Pick <- Max, Good <- KeepsConcat

(* A worker gets its own batches.                                          *)
LEMMA OwnPushed ==
    ASSUME NEW w, NEW q, IsSeq(q), NEW r, IsSeq(r), NEW h, h = OwnOf(w, q, r)
    PROVE  /\ IsSeq(h)
           /\ ToSet(h) \subseteq ToSet(q) \cup ToSet(r)
           /\ ToSet(q) \subseteq ToSet(h)
           /\ \A x \in ToSet(r) : x.worker = w => x \in ToSet(h)
<1> DEFINE c == <<w, q, r>>
           items == DOMAIN r
           base == q
<1>1. /\ Len(r) \in Nat /\ items = 1 .. Len(r)
      /\ \A s \in SUBSET items : s # {} => Max(s) \in s
    BY Positions
<1>2. KeepsOwn(c, {}, base)
    BY DEF KeepsOwn
<1>3. ASSUME NEW s \in SUBSET items, s # {}, NEW acc, KeepsOwn(c, s \ {Max(s)}, acc)
      PROVE  KeepsOwn(c, s, PushOwnAt(c, Max(s), acc))
    <2> DEFINE x == r[Max(s)]
               t == PushOwn(w, acc, x)
    <2>1. Max(s) \in s /\ x \in ToSet(r)
        BY <1>1, <1>3 DEF ToSet
    <2>2. /\ IsSeq(acc)
          /\ ToSet(acc) \subseteq ToSet(q) \cup ToSet(r)
          /\ ToSet(q) \subseteq ToSet(acc)
          /\ \A j \in s \ {Max(s)} : r[j].worker = w => r[j] \in ToSet(acc)
        BY <1>3 DEF KeepsOwn
    <2>3. PushOwnAt(c, Max(s), acc) = t
        BY DEF PushOwnAt
    <2>4. IsSeq(t) /\ ToSet(t) = IF x.worker = w THEN ToSet(acc) \cup {x} ELSE ToSet(acc)
        BY <2>2, AppendIn DEF PushOwn
    <2>5. \A j \in s : r[j].worker = w => r[j] \in ToSet(t)
        <3> HIDE DEF t
        <3> QED
            BY <2>2, <2>4
    <2> HIDE DEF t, x
    <2> QED
        BY <2>1, <2>2, <2>3, <2>4, <2>5 DEF KeepsOwn
<1>4. KeepsOwn(c, items, Owning!Folded(c, base, items))
    <2> DEFINE len == Len(r)
    <2> HIDE DEF items, base, c, len
    <2> QED
        BY <1>1, <1>2, <1>3, Owning!FoldKeeps DEF len
<1>5. KeepsOwn(c, items, h)
    BY <1>4 DEF OwnOf, FoldLeft, MapThenFoldSet, Max, Owning!Folded, PushOwnAt
<1>6. c[1] = w /\ c[2] = q /\ c[3] = r /\ (r = <<>> => items = {})
    BY NothingIn
<1> HIDE DEF c
<1> QED
    BY <1>5, <1>6 DEF KeepsOwn, ToSet

(* What a promotion sends to a worker.                                     *)
LEMMA PromotionSends ==
    ASSUME NEW p, PromotionSound(p), NEW w
    PROVE  /\ IsSeq(NewBordersOf(p, w))
           /\ \A e \in ToSet(NewBordersOf(p, w)) : Plain(e[2])
           /\ IsSeq(LafontWireOf(p, w))
           /\ \A ab \in ToSet(LafontWireOf(p, w)) : Plain(ab[1]) /\ Plain(ab[2])
<1> DEFINE a == p[2].side_a
           b == p[2].side_b
           ea == <<p[1], a>>
           eb == <<p[1], b>>
<1>1. Plain(a) /\ Plain(b)
    BY DEF PromotionSound, PlainState
<1>2. PICK q1, q2 : /\ q1 \in {<<>>, <<ea>>} /\ q2 \in {<<>>, <<eb>>}
                    /\ NewBordersOf(p, w) = q1 \o q2
    BY DEF NewBordersOf
<1>3. LafontWireOf(p, w) \in {<<>>, << <<b, a>> >>, << <<a, b>> >>}
    BY DEF LafontWireOf
<1> HIDE DEF a, b
<1>4. /\ IsSeq(q1) /\ \A e \in ToSet(q1) : Plain(e[2])
      /\ IsSeq(q2) /\ \A e \in ToSet(q2) : Plain(e[2])
    <2>1. Plain(ea[2]) /\ Plain(eb[2])
        BY <1>1
    <2> HIDE DEF ea, eb
    <2> QED
        BY <1>2, <2>1, NothingIn, OneIn
<1>5. IsSeq(q1 \o q2) /\ ToSet(q1 \o q2) = ToSet(q1) \cup ToSet(q2)
    BY <1>4, ConcatIn
<1>6. /\ IsSeq(LafontWireOf(p, w))
      /\ \A ab \in ToSet(LafontWireOf(p, w)) : Plain(ab[1]) /\ Plain(ab[2])
    <2> DEFINE wire == LafontWireOf(p, w)
    <2> HIDE DEF wire
    <2>1. CASE wire = <<>>
        BY <2>1, NothingIn DEF wire
    <2>2. CASE wire = << <<b, a>> >>
        <3>1. IsSeq(wire) /\ ToSet(wire) = {<<b, a>>}
            BY <2>2, OneIn
        <3> QED
            BY <1>1, <3>1 DEF wire
    <2>3. CASE wire = << <<a, b>> >>
        <3>1. IsSeq(wire) /\ ToSet(wire) = {<<a, b>>}
            BY <2>3, OneIn
        <3> QED
            BY <1>1, <3>1 DEF wire
    <2> QED
        BY <1>3, <2>1, <2>2, <2>3 DEF wire
<1> QED
    BY <1>2, <1>4, <1>5, <1>6

(* The payload of a worker.                                                *)
LEMMA ResolutionsPackaged ==
    ASSUME NEW w, NEW q, IsSeq(q), \A r \in ToSet(q) : ResolutionSound(r[3]), NEW h, h = PackagedAll(w, q)
    PROVE  /\ PayloadSound(h)
           /\ \A r \in ToSet(q) : \A x \in ToSet(r[3].batches) : x.worker = w => x \in ToSet(h.batches)
<1> DEFINE c == <<w, q>>
           items == DOMAIN q
           base == EmptyPayload
<1>1. /\ Len(q) \in Nat /\ items = 1 .. Len(q)
      /\ \A s \in SUBSET items : s # {} => Max(s) \in s
    BY Positions
<1>2. KeepsPackage(c, {}, base)
    <2>1. IsFiniteSet({})
        BY FS_EmptySet
    <2> QED
        BY <2>1, NothingIn DEF KeepsPackage, PayloadSound, EmptyPayload
<1>3. ASSUME NEW s \in SUBSET items, s # {}, NEW acc, KeepsPackage(c, s \ {Max(s)}, acc)
      PROVE  KeepsPackage(c, s, PackageAt(c, Max(s), acc))
    <2> DEFINE r == q[Max(s)]
               res == r[3]
               d == PackageResolution(w, acc, r)
               cut == IF w \in {r[2].worker_a, r[2].worker_b} THEN acc.resolved \cup {r[1]} ELSE acc.resolved
               wires == IF r[2].worker_a = w THEN acc.reconnect \o res.reconnect ELSE acc.reconnect
               own == OwnOf(w, acc.batches, res.batches)
    <2>1. Max(s) \in s /\ ResolutionSound(res)
        BY <1>1, <1>3 DEF ToSet
    <2>2. /\ PayloadSound(acc)
          /\ \A j \in s \ {Max(s)} : \A x \in ToSet(q[j][3].batches) :
                 x.worker = w => x \in ToSet(acc.batches)
        BY <1>3 DEF KeepsPackage
    <2>3. PackageAt(c, Max(s), acc) = d
        BY DEF PackageAt
    <2>4. d = [acc EXCEPT !.resolved = cut, !.reconnect = wires, !.batches = own]
        BY <2>2 DEF PackageResolution, OwnOf, PayloadSound
    <2>5. IsFiniteSet(cut)
        BY <2>2, FS_AddElement DEF PayloadSound
    <2>6. IsSeq(wires) /\ \A ab \in ToSet(wires) : Plain(ab[1]) /\ Plain(ab[2])
        <3>1. /\ IsSeq(acc.reconnect) /\ \A ab \in ToSet(acc.reconnect) : Plain(ab[1]) /\ Plain(ab[2])
              /\ IsSeq(res.reconnect) /\ \A ab \in ToSet(res.reconnect) : Plain(ab[1]) /\ Plain(ab[2])
            BY <2>1, <2>2 DEF PayloadSound, ResolutionSound
        <3> HIDE DEF r, res
        <3>2. /\ IsSeq(acc.reconnect \o res.reconnect)
              /\ ToSet(acc.reconnect \o res.reconnect) = ToSet(acc.reconnect) \cup ToSet(res.reconnect)
            BY <3>1, ConcatIn
        <3> QED
            BY <3>1, <3>2
    <2>7. /\ IsSeq(own)
          /\ \A x \in ToSet(own) : BatchSound(x)
          /\ ToSet(acc.batches) \subseteq ToSet(own)
          /\ \A x \in ToSet(res.batches) : x.worker = w => x \in ToSet(own)
        <3>1. /\ IsSeq(acc.batches) /\ \A x \in ToSet(acc.batches) : BatchSound(x)
              /\ IsSeq(res.batches) /\ \A x \in ToSet(res.batches) : BatchSound(x)
            BY <2>1, <2>2 DEF PayloadSound, ResolutionSound
        <3> HIDE DEF r, res
        <3>2. /\ IsSeq(own)
              /\ ToSet(own) \subseteq ToSet(acc.batches) \cup ToSet(res.batches)
              /\ ToSet(acc.batches) \subseteq ToSet(own)
              /\ \A x \in ToSet(res.batches) : x.worker = w => x \in ToSet(own)
            BY <3>1, OwnPushed
        <3> QED
            BY <3>1, <3>2
    <2> HIDE DEF cut, wires, own, d
    <2>8. d = [resolved |-> cut, new |-> acc.new, reconnect |-> wires, batches |-> own]
        BY <2>2, <2>4 DEF PayloadSound
    <2>9. PayloadSound(d)
        BY <2>2, <2>5, <2>6, <2>7, <2>8 DEF PayloadSound
    <2>10. \A j \in s : \A x \in ToSet(q[j][3].batches) : x.worker = w => x \in ToSet(d.batches)
        BY <2>2, <2>7, <2>8
    <2> QED
        BY <2>3, <2>9, <2>10 DEF KeepsPackage
<1>4. KeepsPackage(c, items, Packaging!Folded(c, base, items))
    <2> DEFINE len == Len(q)
    <2> HIDE DEF items, base, c, len
    <2> QED
        BY <1>1, <1>2, <1>3, Packaging!FoldKeeps DEF len
<1>5. KeepsPackage(c, items, h)
    BY <1>4 DEF PackagedAll, FoldLeft, MapThenFoldSet, Max, Packaging!Folded, PackageAt
<1>6. c[1] = w /\ c[2] = q /\ (q = <<>> => items = {})
    BY NothingIn
<1> HIDE DEF c
<1> QED
    BY <1>5, <1>6 DEF KeepsPackage, ToSet

(* The promotions of the round join the payload.                           *)
LEMMA PromotedPackaged ==
    ASSUME NEW w, NEW d, PayloadSound(d), NEW q, IsSeq(q), \A p \in ToSet(q) : PromotionSound(p),
           NEW h, h = PromotionsPackaged(w, d, q)
    PROVE  PayloadSound(h) /\ h.batches = d.batches
<1> DEFINE c == <<w, q, d>>
           items == DOMAIN q
           base == d
<1>1. /\ Len(q) \in Nat /\ items = 1 .. Len(q)
      /\ \A s \in SUBSET items : s # {} => Max(s) \in s
    BY Positions
<1>2. KeepsBatchesOf(c, {}, base)
    BY DEF KeepsBatchesOf
<1>3. ASSUME NEW s \in SUBSET items, s # {}, NEW acc, KeepsBatchesOf(c, s \ {Max(s)}, acc)
      PROVE  KeepsBatchesOf(c, s, PackagePromotionAt(c, Max(s), acc))
    <2> DEFINE p == q[Max(s)]
               e == PackagePromotion(w, acc, p)
               new == acc.new \o NewBordersOf(p, w)
               wires == acc.reconnect \o LafontWireOf(p, w)
    <2>1. Max(s) \in s /\ PromotionSound(p)
        BY <1>1, <1>3 DEF ToSet
    <2>2. PayloadSound(acc) /\ acc.batches = d.batches
        BY <1>3 DEF KeepsBatchesOf
    <2>3. PackagePromotionAt(c, Max(s), acc) = e
        BY DEF PackagePromotionAt
    <2>4. e = [acc EXCEPT !.new = new, !.reconnect = wires]
        BY <2>2 DEF PackagePromotion, PayloadSound
    <2> HIDE DEF p
    <2>5. /\ IsSeq(NewBordersOf(p, w))
          /\ \A x \in ToSet(NewBordersOf(p, w)) : Plain(x[2])
          /\ IsSeq(LafontWireOf(p, w))
          /\ \A ab \in ToSet(LafontWireOf(p, w)) : Plain(ab[1]) /\ Plain(ab[2])
        BY <2>1, PromotionSends
    <2>6. /\ IsSeq(new) /\ ToSet(new) = ToSet(acc.new) \cup ToSet(NewBordersOf(p, w))
          /\ IsSeq(wires) /\ ToSet(wires) = ToSet(acc.reconnect) \cup ToSet(LafontWireOf(p, w))
        BY <2>2, <2>5, ConcatIn DEF PayloadSound
    <2> HIDE DEF new, wires, e
    <2>7. e = [resolved |-> acc.resolved, new |-> new, reconnect |-> wires, batches |-> acc.batches]
        BY <2>2, <2>4 DEF PayloadSound
    <2>8. PayloadSound(e)
        BY <2>2, <2>5, <2>6, <2>7 DEF PayloadSound
    <2>9. e.batches = d.batches
        BY <2>2, <2>7
    <2> QED
        BY <2>3, <2>8, <2>9 DEF KeepsBatchesOf
<1>4. KeepsBatchesOf(c, items, Promotions!Folded(c, base, items))
    <2> DEFINE len == Len(q)
    <2> HIDE DEF items, base, c, len
    <2> QED
        BY <1>1, <1>2, <1>3, Promotions!FoldKeeps DEF len
<1>5. KeepsBatchesOf(c, items, h)
    BY <1>4 DEF PromotionsPackaged, FoldLeft, MapThenFoldSet, Max, Promotions!Folded, PackagePromotionAt
<1>6. c[1] = w /\ c[2] = q /\ c[3] = d /\ (q = <<>> => items = {})
    BY NothingIn
<1> HIDE DEF c
<1> QED
    BY <1>5, <1>6 DEF KeepsBatchesOf

(* The borders the resolutions queue.                                      *)
LEMMA PendingQueue ==
    ASSUME NEW base0, IsSeq(base0), NEW q, IsSeq(q), \A r \in ToSet(q) : ResolutionSound(r[3]),
           NEW h, h = FoldLeft(QueuePending, base0, q)
    PROVE  /\ IsSeq(h)
           /\ \A p \in ToSet(h) : p \in ToSet(base0) \/ \E r \in ToSet(q) : p \in ToSet(r[3].pending)
<1> DEFINE c == <<base0, q>>
           items == DOMAIN q
           base == base0
<1>1. /\ Len(q) \in Nat /\ items = 1 .. Len(q)
      /\ \A s \in SUBSET items : s # {} => Max(s) \in s
    BY Positions
<1>2. KeepsConcat(c, {}, base)
    BY DEF KeepsConcat
<1>3. ASSUME NEW s \in SUBSET items, s # {}, NEW acc, KeepsConcat(c, s \ {Max(s)}, acc)
      PROVE  KeepsConcat(c, s, ConcatAt(c, Max(s), acc))
    <2> DEFINE more == q[Max(s)][3].pending
               t == acc \o more
    <2>1. Max(s) \in s /\ IsSeq(more)
        BY <1>1, <1>3 DEF ToSet, ResolutionSound
    <2>2. /\ IsSeq(acc)
          /\ \A p \in ToSet(acc) : p \in ToSet(base0) \/ \E j \in s \ {Max(s)} : p \in ToSet(q[j][3].pending)
        BY <1>3 DEF KeepsConcat
    <2>3. ConcatAt(c, Max(s), acc) = t
        BY DEF ConcatAt, QueuePending
    <2>4. IsSeq(t) /\ ToSet(t) = ToSet(acc) \cup ToSet(more)
        <3> HIDE DEF more
        <3> QED
            BY <2>1, <2>2, ConcatIn
    <2> HIDE DEF t
    <2>5. \A p \in ToSet(t) : p \in ToSet(base0) \/ \E j \in s : p \in ToSet(q[j][3].pending)
        BY <2>1, <2>2, <2>4
    <2> HIDE DEF more
    <2> QED
        BY <2>3, <2>4, <2>5 DEF KeepsConcat
<1>4. KeepsConcat(c, items, Concats!Folded(c, base, items))
    <2> DEFINE len == Len(q)
    <2> HIDE DEF items, base, c, len
    <2> QED
        BY <1>1, <1>2, <1>3, Concats!FoldKeeps DEF len
<1>5. KeepsConcat(c, items, h)
    BY <1>4 DEF FoldLeft, MapThenFoldSet, Max, Concats!Folded, ConcatAt
<1>6. c[1] = base0 /\ c[2] = q /\ (q = <<>> => items = {})
    BY NothingIn
<1> HIDE DEF c
<1>7. /\ IsSeq(h)
      /\ \A p \in ToSet(h) : p \in ToSet(base0) \/ \E j \in DOMAIN q : p \in ToSet(q[j][3].pending)
    BY <1>5, <1>6 DEF KeepsConcat
<1>8. \A j \in DOMAIN q : q[j] \in ToSet(q)
    BY DEF ToSet
<1> QED
    BY <1>7, <1>8

-----------------------------------------------------------------------------
(***************************************************************************)
(* split: the border ids are the ranks of the wires that cross, so that    *)
(* every id belongs to a wire, with one end in each of two workers.        *)
(***************************************************************************)
BoundedSizes ==
    {k \in Nat : \A S \in SUBSET Nat : IsFiniteSet(S) /\ Cardinality(S) = k =>
                     \E top \in Nat : \A y \in S : y <= top}

(* A finite set of numbers has a bound.                                    *)
LEMMA FiniteBounded ==
    ASSUME NEW S \in SUBSET Nat, IsFiniteSet(S)
    PROVE  \E top \in Nat : \A y \in S : y <= top
<1>1. 0 \in BoundedSizes
    BY FS_EmptySet DEF BoundedSizes
<1>2. ASSUME NEW k \in Nat, k \in BoundedSizes PROVE k + 1 \in BoundedSizes
    <2>1. ASSUME NEW T \in SUBSET Nat, IsFiniteSet(T), Cardinality(T) = k + 1
          PROVE  \E top \in Nat : \A y \in T : y <= top
        <3>1. T # {}
            BY <2>1, FS_EmptySet
        <3>2. PICK x \in T : TRUE
            BY <3>1
        <3>3. IsFiniteSet(T \ {x}) /\ Cardinality(T \ {x}) = k
            BY <2>1, FS_RemoveElement
        <3>4. T \ {x} \in SUBSET Nat
            OBVIOUS
        <3>5. PICK t \in Nat : \A y \in T \ {x} : y <= t
            BY <1>2, <3>3, <3>4 DEF BoundedSizes
        <3>6. x \in Nat
            BY <2>1
        <3>7. \A y \in T : y <= t + x
            BY <2>1, <3>5, <3>6
        <3>8. t + x \in Nat
            BY <3>5, <3>6
        <3> DEFINE top == t + x
        <3> HIDE DEF top
        <3>9. top \in Nat /\ \A y \in T : y <= top
            BY <3>7, <3>8 DEF top
        <3> QED
            BY <3>9
    <2>2. k + 1 \in Nat
        OBVIOUS
    <2> DEFINE j == k + 1
    <2> HIDE DEF j
    <2>3. j \in BoundedSizes
        BY <2>1, <2>2 DEF BoundedSizes, j
    <2> QED
        BY <2>3 DEF j
<1>3. \A k \in Nat : k \in BoundedSizes
    <2> DEFINE Q == BoundedSizes
    <2> HIDE DEF Q
    <2>1. 0 \in Q /\ \A k \in Nat : k \in Q => k + 1 \in Q
        BY <1>1, <1>2 DEF Q
    <2>2. \A k \in Nat : k \in Q
        BY <2>1, Mints!AllNumbers
    <2> QED
        BY <2>2 DEF Q
<1> QED
    BY <1>3, FS_CardinalityType DEF BoundedSizes

(* An input net is plain.                                                  *)
LEMMA InputPlain ==
    ASSUME NEW n \in InitialNets
    PROVE  /\ PlainNet(n)
           /\ n.queue \in Seq(AgentIds \X AgentIds)
           /\ RefsValid(n)
           /\ \A i \in AgentIds, p \in PortIds : n.ports[i][p] \in PortRefs
<1>1. /\ NetType(n) /\ RefsValid(n) /\ IsFiniteSet(DOMAIN n.redirects)
      /\ \A k \in DOMAIN n.redirects : n.redirects[k] \in PortRefs
    BY DeltaInputAssumption
<1>2. \A r \in PortRefs : Plain(r)
    BY DEF PortRefs, Plain, IsAgentPort, IsFreePort
<1>3. NetRecord(n) /\ n.agents \in [AgentIds -> Symbols \cup {None}]
      /\ n.ports \in [AgentIds -> [PortIds -> PortRefs]] /\ n.queue \in Seq(AgentIds \X AgentIds)
    BY <1>1 DEF NetType, NetRecord
<1>4. \A i \in AgentIds : n.ports[i] \in [PortIds -> PortRefs]
    BY <1>3
<1>5. \A i \in AgentIds, p \in PortIds : n.ports[i][p] \in PortRefs
    BY <1>4
<1>6. PlainPorts(n.ports)
    <2>1. n.ports = [i \in AgentIds |-> n.ports[i]]
        BY <1>3
    <2>2. \A i \in AgentIds : n.ports[i] = [p \in PortIds |-> n.ports[i][p]]
        BY <1>4
    <2> QED
        BY <1>2, <1>5, <2>1, <2>2 DEF PlainPorts
<1>7. PlainRedirects(n.redirects)
    BY <1>1, <1>2 DEF PlainRedirects
<1>8. IsSeq(n.queue)
    BY <1>3 DEF IsSeq
<1> QED
    BY <1>1, <1>3, <1>5, <1>6, <1>7, <1>8 DEF PlainNet

(* The ports of the arena are finitely many.                               *)
LEMMA ArenaFinite == IsFiniteSet(AgentIds \X PortIds)
<1> DEFINE top == ArenaSize - 1
<1>1. 0 \in Int /\ top \in Int /\ 2 \in Int
    BY NetAssumption
<1> HIDE DEF top
<1>2. IsFiniteSet(0 .. top) /\ IsFiniteSet(0 .. 2)
    BY <1>1, FS_Interval
<1>3. IsFiniteSet(AgentIds) /\ IsFiniteSet(PortIds)
    BY <1>2 DEF AgentIds, PortIds, top
<1> QED
    BY <1>3, FS_Product

(* Borders are numbered behind the FreePorts of the input.                 *)
LEMMA StartIsNat ==
    ASSUME NEW n \in InitialNets
    PROVE  BorderIdStart(n) \in Nat
<1> DEFINE P == {jq \in AgentIds \X PortIds : /\ IsFreePort(n.ports[jq[1]][jq[2]])
                                              /\ n.ports[jq[1]][jq[2]] # DISCONNECTED}
           S == {n.ports[ip[1]][ip[2]][2] : ip \in P}
           f == [ip \in P |-> n.ports[ip[1]][ip[2]][2]]
<1>1. S = FreePortIds(n)
    BY DEF FreePortIds
<1>2. IsFiniteSet(P)
    BY ArenaFinite, FS_Subset
<1>3. \A ip \in P : n.ports[ip[1]][ip[2]][2] \in Nat
    <2> SUFFICES ASSUME NEW ip \in P PROVE n.ports[ip[1]][ip[2]][2] \in Nat
        OBVIOUS
    <2>1. ip[1] \in AgentIds /\ ip[2] \in PortIds /\ IsFreePort(n.ports[ip[1]][ip[2]])
        OBVIOUS
    <2>2. n.ports[ip[1]][ip[2]] \in PortRefs
        BY <2>1, InputPlain
    <2> HIDE DEF P
    <2> QED
        BY <2>1, <2>2 DEF PortRefs, IsFreePort
<1>4. f \in Surjection(P, S)
    <2> HIDE DEF P
    <2> QED
        BY DEF Surjection
<1>5. S \in SUBSET Nat
    BY <1>3
<1> HIDE DEF P, S, f
<1>6. IsFiniteSet(S)
    BY <1>2, <1>4, FS_Surjection
<1>7. PICK top \in Nat : \A y \in S : y <= top
    BY <1>5, <1>6, FiniteBounded
<1>8. S \subseteq 0 .. top
    BY <1>5, <1>7
<1>9. S # {} => Max(S) \in Nat
    BY <1>5, <1>8, LargestIs
<1> QED
    BY <1>1, <1>9 DEF BorderIdStart

RankIn(scan, ip) == Cardinality({jq \in scan : ScanBefore(jq, ip)})

(* Every rank is the rank of a port.                                       *)
LEMMA EveryRank ==
    ASSUME NEW scan \in SUBSET (AgentIds \X PortIds), NEW k \in 0 .. Cardinality(scan) - 1
    PROVE  \E ip \in scan : RankIn(scan, ip) = k
<1> DEFINE Before(ip) == {jq \in scan : ScanBefore(jq, ip)}
           size == Cardinality(scan)
           f == [ip \in scan |-> RankIn(scan, ip)]
<1>1. IsFiniteSet(scan) /\ size \in Nat
    BY ArenaFinite, FS_Subset, FS_CardinalityType
<1>2. \A ip \in scan : ip[1] \in Nat /\ ip[2] \in Nat /\ ip = <<ip[1], ip[2]>>
    BY NetAssumption DEF AgentIds, PortIds
<1>3. \A ip, jq \in scan : ScanBefore(ip, jq) \/ ScanBefore(jq, ip) \/ ip = jq
    BY <1>2 DEF ScanBefore
<1>4. \A ip, jq, kr \in scan : ScanBefore(ip, jq) /\ ScanBefore(jq, kr) => ScanBefore(ip, kr)
    BY <1>2 DEF ScanBefore
<1>5. \A ip \in scan : ~ScanBefore(ip, ip)
    BY <1>2 DEF ScanBefore
<1>6. \A ip \in scan : IsFiniteSet(Before(ip)) /\ Cardinality(Before(ip)) \in Nat
    <2> TAKE ip \in scan
    <2>1. Before(ip) \in SUBSET scan
        OBVIOUS
    <2> HIDE DEF Before
    <2> QED
        BY <1>1, <2>1, FS_Subset, FS_CardinalityType
<1>7. ASSUME NEW ip \in scan, NEW T \in SUBSET scan, Before(ip) \subseteq T, ip \in T
      PROVE  Cardinality(Before(ip)) < Cardinality(T)
    <2>1. IsFiniteSet(T) /\ Cardinality(T) \in Nat
        BY <1>1, FS_Subset, FS_CardinalityType
    <2>2. Before(ip) \in SUBSET (T \ {ip})
        BY <1>5, <1>7
    <2>3. IsFiniteSet(T \ {ip}) /\ Cardinality(T \ {ip}) = Cardinality(T) - 1
        BY <1>7, <2>1, FS_RemoveElement
    <2> HIDE DEF Before
    <2>4. Cardinality(Before(ip)) <= Cardinality(T) - 1
        BY <2>2, <2>3, FS_Subset
    <2> QED
        BY <1>6, <2>1, <2>4
<1>8. \A ip \in scan : f[ip] = Cardinality(Before(ip)) /\ f[ip] \in 0 .. size - 1
    <2> TAKE ip \in scan
    <2>1. f[ip] = Cardinality(Before(ip))
        BY DEF RankIn
    <2>2. Cardinality(Before(ip)) < size
        BY <1>7
    <2> HIDE DEF Before, f
    <2> QED
        BY <1>1, <1>6, <2>1, <2>2
<1>9. ASSUME NEW ip \in scan, NEW jq \in scan, ScanBefore(ip, jq)
      PROVE  f[ip] < f[jq]
    <2>1. Before(ip) \subseteq Before(jq) /\ ip \in Before(jq) /\ Before(jq) \in SUBSET scan
        BY <1>4, <1>9
    <2> HIDE DEF Before, f
    <2> QED
        BY <1>7, <1>8, <2>1
<1>10. f \in Injection(scan, 0 .. size - 1)
    <2>1. f \in [scan -> 0 .. size - 1]
        BY <1>8
    <2>2. ASSUME NEW ip \in scan, NEW jq \in scan, f[ip] = f[jq] PROVE ip = jq
        <3> HIDE DEF f
        <3>1. f[ip] \in Nat /\ f[jq] \in Nat
            <4>1. f[ip] \in 0 .. size - 1 /\ f[jq] \in 0 .. size - 1
                BY <1>8
            <4> QED
                BY <1>1, <4>1
        <3> QED
            BY <1>3, <1>9, <2>2, <3>1
    <2> HIDE DEF f
    <2> QED
        BY <2>1, <2>2 DEF Injection, IsInjective
<1> DEFINE top == size - 1
           R == 0 .. top
<1>11. IsFiniteSet(R) /\ Cardinality(R) = size
    <2>1. 0 \in Int /\ top \in Int
        BY <1>1
    <2>2. top >= 0
        BY <1>1
    <2> HIDE DEF top
    <2>3. IsFiniteSet(R) /\ Cardinality(R) = IF 0 > top THEN 0 ELSE top - 0 + 1
        BY <2>1, FS_Interval
    <2> QED
        BY <1>1, <2>1, <2>2, <2>3 DEF top
<1>12. f \in Injection(scan, R) /\ k \in R
    BY <1>10
<1> HIDE DEF f, R
<1>13. f \in Surjection(scan, R)
    BY <1>11, <1>12, FS_Injection
<1>14. PICK ip \in scan : f[ip] = k
    BY <1>12, <1>13 DEF Surjection
<1> QED
    BY <1>14 DEF f

(* The wire of a border: two agents, of two workers.                       *)
Crosses(sigma, wire) ==
    /\ IsAgentPort(wire[1]) /\ IsAgentPort(wire[2])
    /\ sigma[wire[1][2]] \in WorkerIds /\ sigma[wire[2][2]] \in WorkerIds
    /\ sigma[wire[1][2]] # sigma[wire[2][2]]

(* Every border is such a wire.                                            *)
LEMMA BordersCross ==
    ASSUME NEW n \in InitialNets, NEW sigma \in Allocations(n), NEW bs, bs = Borders(n, sigma)
    PROVE  /\ IsFiniteSet(DOMAIN bs)
           /\ \A b \in DOMAIN bs : Crosses(sigma, bs[b])
<1> DEFINE scan == BorderPorts(n, sigma)
           base == BorderIdStart(n)
           At(b) == CHOOSE jq \in scan : RankIn(scan, jq) = b - base
<1>1. base \in Nat
    BY StartIsNat
<1>2. scan \in SUBSET (AgentIds \X PortIds) /\ scan \subseteq LivePorts(n)
    BY DEF BorderPorts, LivePorts
<1>3. Cardinality(scan) \in Nat
    BY <1>2, ArenaFinite, FS_Subset, FS_CardinalityType
<1>4. bs = [b \in base .. base + Cardinality(scan) - 1 |->
               <<AgentPort(At(b)[1], At(b)[2]), n.ports[At(b)[1]][At(b)[2]]>>]
    BY DEF Borders, RankIn
<1> DEFINE size == Cardinality(scan)
           last == base + size - 1
<1>5. IsFiniteSet(base .. last)
    <2>1. base \in Int /\ last \in Int
        BY <1>1, <1>3
    <2> HIDE DEF base, last
    <2> QED
        BY <2>1, FS_Interval
<1>6. ASSUME NEW b \in base .. last
      PROVE  Crosses(sigma, bs[b])
    <2> DEFINE ip == At(b)
               target == n.ports[ip[1]][ip[2]]
    <2>1. b - base \in 0 .. size - 1
        <3> HIDE DEF base, size
        <3> QED
            BY <1>1, <1>3 DEF size
    <2>2. \E jq \in scan : RankIn(scan, jq) = b - base
        <3> DEFINE k == b - base
        <3> HIDE DEF k, scan
        <3>1. \E jq \in scan : RankIn(scan, jq) = k
            BY <1>2, <2>1, EveryRank DEF k, size
        <3> QED
            BY <3>1 DEF k
    <2>3. ip \in scan
        <3> HIDE DEF scan, base
        <3> QED
            BY <2>2
    <2>4. bs[b] = <<AgentPort(ip[1], ip[2]), target>>
        <3> HIDE DEF At
        <3> QED
            BY <1>4
    <2> HIDE DEF ip
    <2>5. ip \in LivePorts(n) /\ IsAgentPort(target) /\ sigma[ip[1]] # sigma[target[2]]
        BY <2>3 DEF BorderPorts
    <2>6. <<target[2], target[3]>> \in LivePorts(n)
        BY <2>5, InputPlain DEF RefsValid
    <2> HIDE DEF target
    <2>7. ip[1] \in Live(n) /\ target[2] \in Live(n)
        BY <2>5, <2>6 DEF LivePorts, Live
    <2>8. sigma[ip[1]] \in WorkerIds /\ sigma[target[2]] \in WorkerIds
        BY <2>7 DEF Allocations
    <2>9. IsAgentPort(AgentPort(ip[1], ip[2])) /\ AgentPort(ip[1], ip[2])[2] = ip[1]
        BY DEF IsAgentPort, AgentPort
    <2>10. bs[b][1] = AgentPort(ip[1], ip[2]) /\ bs[b][2] = target
        BY <2>4
    <2> QED
        BY <2>5, <2>8, <2>9, <2>10 DEF Crosses
<1>7. DOMAIN bs = base .. last
    BY <1>4
<1> HIDE DEF last, base
<1> QED
    BY <1>5, <1>6, <1>7

(* The entries of a worker: the borders with an end there.                 *)
LEMMA EntriesPlain ==
    ASSUME NEW n \in InitialNets, NEW sigma \in Allocations(n), NEW w,
           NEW entries, entries = BorderEntries(n, sigma, w), NEW bs, bs = Borders(n, sigma)
    PROVE  /\ PlainIndex(entries)
           /\ DOMAIN entries = {b \in DOMAIN bs : w \in {sigma[bs[b][1][2]], sigma[bs[b][2][2]]}}
<1> DEFINE Mine(b) == {k \in {1, 2} : sigma[bs[b][k][2]] = w}
           own == {c \in DOMAIN bs : Mine(c) # {}}
<1>1. entries = [b \in own |-> bs[b][CHOOSE k \in {1, 2} : k \in Mine(b)]]
    BY DEF BorderEntries
<1>2. IsFiniteSet(DOMAIN bs) /\ \A b \in DOMAIN bs : Crosses(sigma, bs[b])
    BY BordersCross
<1>3. IsFiniteSet(own)
    BY <1>2, FS_Subset
<1>4. ASSUME NEW b \in own PROVE Plain(entries[b])
    <2>1. (CHOOSE k \in {1, 2} : k \in Mine(b)) \in {1, 2}
        OBVIOUS
    <2>2. entries[b] \in {bs[b][1], bs[b][2]}
        BY <1>1, <2>1
    <2> QED
        BY <1>2, <2>2 DEF Crosses, Plain
<1>5. own = {b \in DOMAIN bs : w \in {sigma[bs[b][1][2]], sigma[bs[b][2][2]]}}
    OBVIOUS
<1>6. DOMAIN entries = own
    BY <1>1
<1> HIDE DEF own
<1> QED
    BY <1>3, <1>4, <1>5, <1>6 DEF PlainIndex

InternalOf(mine, q) == FoldLeft(LAMBDA r, ab : PushInternal(mine, r, ab), <<>>, q)
PushInternalAt(c, i, r) == PushInternal(c[1], r, c[2][i])
KeepsSeq(c, s, r) == IsSeq(r)
Internals == INSTANCE FoldRule WITH Body <- PushInternalAt, Pick <- Max, Good <- KeepsSeq

(* The queue of a worker.                                                  *)
LEMMA InternalSeq ==
    ASSUME NEW mine, NEW q, IsSeq(q), NEW h, h = InternalOf(mine, q)
    PROVE  IsSeq(h)
<1> DEFINE c == <<mine, q>>
           items == DOMAIN q
           base == <<>>
<1>1. /\ Len(q) \in Nat /\ items = 1 .. Len(q)
      /\ \A s \in SUBSET items : s # {} => Max(s) \in s
    BY Positions
<1>2. KeepsSeq(c, {}, base)
    BY NothingIn DEF KeepsSeq
<1>3. ASSUME NEW s \in SUBSET items, s # {}, NEW acc, KeepsSeq(c, s \ {Max(s)}, acc)
      PROVE  KeepsSeq(c, s, PushInternalAt(c, Max(s), acc))
    <2>1. IsSeq(acc)
        BY <1>3 DEF KeepsSeq
    <2>2. IsSeq(PushInternal(mine, acc, q[Max(s)]))
        BY <2>1, AppendIn DEF PushInternal
    <2> QED
        BY <2>2 DEF KeepsSeq, PushInternalAt
<1>4. KeepsSeq(c, items, Internals!Folded(c, base, items))
    <2> DEFINE len == Len(q)
    <2> HIDE DEF items, base, c, len
    <2> QED
        BY <1>1, <1>2, <1>3, Internals!FoldKeeps DEF len
<1>5. KeepsSeq(c, items, h)
    BY <1>4 DEF InternalOf, FoldLeft, MapThenFoldSet, Max, Internals!Folded, PushInternalAt
<1>6. c[1] = mine /\ c[2] = q /\ (q = <<>> => items = {})
    BY NothingIn
<1> HIDE DEF c
<1> QED
    BY <1>5, <1>6 DEF KeepsSeq

(* The root of a subnet.                                                   *)
LEMMA RootPlain ==
    ASSUME NEW n, PlainNet(n), NEW r, NEW m, m = [n EXCEPT !.root = r]
    PROVE  PlainNet(m)
BY DEF PlainNet, NetRecord

(* build_subnet of an input.                                               *)
LEMMA SubnetPlain ==
    ASSUME NEW n \in InitialNets, NEW sigma \in Allocations(n), NEW w
    PROVE  PlainPart(PartitionOf(n, sigma, w))
<1> DEFINE mine == {i \in Live(n) : sigma[i] = w}
           entries == BorderEntries(n, sigma, w)
           range == compute_id_ranges(w, n.next_id)
           Over(r) == {b \in DOMAIN entries : entries[b] = r}
           agents == [i \in AgentIds |-> IF i \in mine THEN n.agents[i] ELSE None]
           Target(i, p) == IF Over(AgentPort(i, p)) # {}
                           THEN FreePort(CHOOSE b \in Over(AgentPort(i, p)) : TRUE) ELSE n.ports[i][p]
           ports == [i \in AgentIds |-> [p \in PortIds |->
                        IF i \in mine THEN Target(i, p) ELSE DISCONNECTED]]
           queue == InternalOf(mine, n.queue)
           id == Max({range.start, Max(mine) + 1})
           list == RangeFreeList(agents, range, Max(mine) + 1)
           shadow == {entries[b][2] : b \in DOMAIN entries}
           root == propagate_root(n, sigma, w)
           built == build_subnet(n, sigma, w)
           part == PartitionOf(n, sigma, w)
<1>1. PlainNet(n) /\ IsSeq(n.queue)
    BY InputPlain DEF IsSeq
<1>2. built = IF mine = {} THEN [EmptyNet EXCEPT !.next_id = range.start]
              ELSE [EmptyNet EXCEPT !.agents = agents, !.ports = ports, !.queue = queue, !.next_id = id,
                                    !.free_list = list, !.redirects = n.redirects, !.shadow = shadow]
    BY DEF build_subnet, InternalOf
<1>3. part = [subnet |-> [built EXCEPT !.root = root], free_port_index |-> entries, id_range |-> range,
              border_start |-> BorderIdStart(n),
              border_end |-> BorderIdStart(n) + Cardinality(BorderPorts(n, sigma))]
    BY DEF PartitionOf
<1>4. agents \in [AgentIds -> Symbols \cup {None}]
    BY <1>1 DEF PlainNet
<1>5. PlainPorts(ports)
    <2>1. \A i \in AgentIds, p \in PortIds : Plain(Target(i, p))
        BY <1>1, PlainConstants DEF PlainNet, PlainPorts
    <2> HIDE DEF Target, mine
    <2> QED
        BY <2>1, PlainConstants DEF PlainPorts
<1>6. IsSeq(queue)
    BY <1>1, InternalSeq
<1>7. PlainRedirects(n.redirects)
    BY <1>1 DEF PlainNet
<1> HIDE DEF mine, entries, range, agents, ports, queue, id, list, shadow, root, built, part
<1> DEFINE none == [i \in AgentIds |-> None]
           loose == [i \in AgentIds |-> [p \in PortIds |-> DISCONNECTED]]
<1>8. EmptyNet = [agents |-> none, ports |-> loose, queue |-> <<>>, next_id |-> 0, free_list |-> <<>>,
                  redirects |-> <<>>, shadow |-> {}, protected |-> FALSE,
                  policy |-> "DisableUnderDelta", root |-> DISCONNECTED]
    BY DEF EmptyNet
<1>9. /\ none \in [AgentIds -> Symbols \cup {None}]
      /\ PlainPorts(loose)
      /\ PlainRedirects(<<>>)
      /\ IsSeq(<<>>)
    <2>1. PlainPorts(loose)
        BY PlainConstants DEF PlainPorts
    <2>2. PlainRedirects(<<>>)
        BY NothingIn, FS_EmptySet DEF PlainRedirects
    <2> QED
        BY <2>1, <2>2, NothingIn
<1> HIDE DEF none, loose
<1>10. PlainNet(built)
    <2>1. CASE mine = {}
        <3> DEFINE start == range.start
        <3> HIDE DEF start
        <3>1. built = [EmptyNet EXCEPT !.next_id = start]
            BY <1>2, <2>1 DEF start
        <3>2. built = [agents |-> none, ports |-> loose, queue |-> <<>>, next_id |-> start,
                       free_list |-> <<>>, redirects |-> <<>>, shadow |-> {}, protected |-> FALSE,
                       policy |-> "DisableUnderDelta", root |-> DISCONNECTED]
            BY <1>8, <3>1
        <3> QED
            BY <1>9, <3>2 DEF PlainNet, NetRecord
    <2>2. CASE mine # {}
        <3> DEFINE map == n.redirects
        <3> HIDE DEF map
        <3>1. built = [EmptyNet EXCEPT !.agents = agents, !.ports = ports, !.queue = queue, !.next_id = id,
                                       !.free_list = list, !.redirects = map, !.shadow = shadow]
            BY <1>2, <2>2 DEF map
        <3>2. built = [agents |-> agents, ports |-> ports, queue |-> queue, next_id |-> id,
                       free_list |-> list, redirects |-> map, shadow |-> shadow, protected |-> FALSE,
                       policy |-> "DisableUnderDelta", root |-> DISCONNECTED]
            BY <1>8, <3>1
        <3>3. PlainRedirects(map)
            BY <1>7 DEF map
        <3> QED
            BY <1>4, <1>5, <1>6, <3>2, <3>3 DEF PlainNet, NetRecord
    <2> QED
        BY <2>1, <2>2
<1>11. PlainPart(part)
    <2>1. PlainNet([built EXCEPT !.root = root])
        BY <1>10, RootPlain
    <2> QED
        BY <1>3, <2>1 DEF PlainPart
<1> QED
    BY <1>11 DEF part

(* The graph of a fresh plan: every border between two workers, with the   *)
(* ends they have.                                                         *)
LEMMA PlanSound ==
    ASSUME NEW n \in InitialNets, NEW sigma \in Allocations(n), NEW ps, ps = split(n, sigma),
           NEW g, g = from_partition_plan(ps)
    PROVE  /\ ps = [w \in WorkerIds |-> ps[w]]
           /\ \A w \in WorkerIds : PlainPart(ps[w]) /\ PlainIndex(ps[w].free_port_index)
           /\ GraphSound(g) /\ g.pending = <<>>
           /\ \A b \in DOMAIN g.borders :
                 LET st == g.borders[b]
                 IN  /\ st.worker_a # st.worker_b
                     /\ st.side_a = End(ps[st.worker_a].free_port_index, b)
                     /\ st.side_b = End(ps[st.worker_b].free_port_index, b)
<1> DEFINE bs == Borders(n, sigma)
           ids == UNION {DOMAIN ps[w].free_port_index : w \in WorkerIds}
           WA(b) == Min(Reporters(ps, b))
           WB(b) == Max(Reporters(ps, b))
           State(b) == BorderState(ps[WA(b)].free_port_index[b], ps[WB(b)].free_port_index[b], WA(b), WB(b))
           borders == [b \in ids |-> State(b)]
           active == {b \in ids : borders[b].is_redex}
<1>1. ps = [w \in WorkerIds |-> PartitionOf(n, sigma, w)]
    BY DEF split
<1>2. \A w \in WorkerIds : ps[w].free_port_index = BorderEntries(n, sigma, w)
    BY <1>1 DEF PartitionOf
<1>3. \A w \in WorkerIds : PlainPart(ps[w])
    BY <1>1, SubnetPlain
<1>4. ASSUME NEW w \in WorkerIds
      PROVE  /\ PlainIndex(ps[w].free_port_index)
             /\ DOMAIN ps[w].free_port_index =
                    {b \in DOMAIN bs : w \in {sigma[bs[b][1][2]], sigma[bs[b][2][2]]}}
    <2> DEFINE entries == ps[w].free_port_index
    <2> HIDE DEF bs, entries
    <2>1. bs = Borders(n, sigma) /\ entries = BorderEntries(n, sigma, w)
        BY <1>2 DEF bs, entries
    <2>2. /\ PlainIndex(entries)
          /\ DOMAIN entries = {b \in DOMAIN bs : w \in {sigma[bs[b][1][2]], sigma[bs[b][2][2]]}}
        BY <2>1, EntriesPlain
    <2> QED
        BY <2>2 DEF entries
<1>5. \A b \in DOMAIN bs : Crosses(sigma, bs[b])
    BY BordersCross
<1>6. g = [borders |-> borders, active |-> active, pending |-> <<>>, mints |-> <<>>]
    BY DEF from_partition_plan
<1>7. ASSUME NEW b \in ids
      PROVE  /\ WA(b) \in WorkerIds /\ WB(b) \in WorkerIds /\ WA(b) # WB(b)
             /\ b \in DOMAIN ps[WA(b)].free_port_index
             /\ b \in DOMAIN ps[WB(b)].free_port_index
    <2> DEFINE R == Reporters(ps, b)
               x == sigma[bs[b][1][2]]
               y == sigma[bs[b][2][2]]
    <2>1. b \in DOMAIN bs
        BY <1>4
    <2>2. x \in WorkerIds /\ y \in WorkerIds /\ x # y
        BY <1>5, <2>1 DEF Crosses
    <2>3. R = {x, y}
        <3> HIDE DEF bs
        <3> QED
            BY <1>4, <2>1, <2>2 DEF Reporters
    <2>4. WorkerIds \subseteq Nat /\ NumWorkers - 1 \in Nat /\ WorkerIds = 0 .. NumWorkers - 1
        BY PartitionAssumption DEF WorkerIds
    <2> HIDE DEF x, y, R
    <2>5. R # {} /\ R \subseteq Nat /\ R \subseteq 0 .. NumWorkers - 1
        BY <2>2, <2>3, <2>4
    <2>6. Min(R) \in R /\ \A z \in R : Min(R) <= z
        BY <2>5, SmallestIs
    <2>7. Max(R) \in R /\ \A z \in R : z <= Max(R)
        <3> DEFINE top == NumWorkers - 1
        <3> HIDE DEF top
        <3> QED
            BY <2>4, <2>5, LargestIs DEF top
    <2>8. Min(R) # Max(R)
        BY <2>2, <2>3, <2>4, <2>6, <2>7
    <2>9. Min(R) \in WorkerIds /\ Max(R) \in WorkerIds
        BY <2>2, <2>3, <2>6, <2>7
    <2>10. \A w \in R : w \in WorkerIds /\ b \in DOMAIN ps[w].free_port_index
        BY DEF R, Reporters
    <2> QED
        BY <2>6, <2>7, <2>8, <2>9, <2>10 DEF R
<1> HIDE DEF ids, WA, WB
<1>8. ASSUME NEW b \in ids
      PROVE  /\ PlainState(State(b))
             /\ State(b).worker_a = WA(b) /\ State(b).worker_b = WB(b)
             /\ State(b).side_a = End(ps[WA(b)].free_port_index, b)
             /\ State(b).side_b = End(ps[WB(b)].free_port_index, b)
    <2> DEFINE ra == ps[WA(b)].free_port_index[b]
               rb == ps[WB(b)].free_port_index[b]
    <2>1. Plain(ra) /\ Plain(rb)
        BY <1>4, <1>7 DEF PlainIndex
    <2>2. ra = End(ps[WA(b)].free_port_index, b) /\ rb = End(ps[WB(b)].free_port_index, b)
        BY <1>7 DEF End
    <2> HIDE DEF ra, rb
    <2>3. /\ PlainState(BorderState(ra, rb, WA(b), WB(b)))
          /\ BorderState(ra, rb, WA(b), WB(b)).worker_a = WA(b)
          /\ BorderState(ra, rb, WA(b), WB(b)).worker_b = WB(b)
          /\ BorderState(ra, rb, WA(b), WB(b)).side_a = ra
          /\ BorderState(ra, rb, WA(b), WB(b)).side_b = rb
        BY <1>7, <2>1 DEF PlainState, BorderState
    <2> QED
        BY <2>2, <2>3 DEF ra, rb
<1> HIDE DEF State
<1>9. /\ DOMAIN borders = ids
      /\ borders = [b \in DOMAIN borders |-> borders[b]]
      /\ \A b \in ids : borders[b] = State(b)
    OBVIOUS
<1> HIDE DEF borders
<1>10. GraphBorders(g)
    BY <1>6, <1>8, <1>9 DEF GraphBorders
<1>11. GraphQueue(g) /\ g.pending = <<>>
    BY <1>6, NothingIn DEF GraphQueue
<1>12. \A b \in DOMAIN g.borders :
           /\ g.borders[b].worker_a # g.borders[b].worker_b
           /\ g.borders[b].side_a = End(ps[g.borders[b].worker_a].free_port_index, b)
           /\ g.borders[b].side_b = End(ps[g.borders[b].worker_b].free_port_index, b)
    BY <1>6, <1>7, <1>8, <1>9
<1> QED
    BY <1>1, <1>3, <1>4, <1>10, <1>11, <1>12 DEF GraphSound

-----------------------------------------------------------------------------
(***************************************************************************)
(* The inductive invariant, action by action.                              *)
(***************************************************************************)
(* Nothing has happened before the split.                                  *)
LEMMA InitInv == Init => DeltaInv
<1> SUFFICES ASSUME Init PROVE DeltaInv
    OBVIOUS
<1>1. /\ stage = "start" /\ input \in InitialNets
      /\ graph = [borders |-> <<>>, active |-> {}, pending |-> <<>>, mints |-> <<>>]
    BY DEF Init
<1>2. graph.borders = <<>> /\ graph.active = {} /\ graph.pending = <<>>
    BY <1>1
<1>3. DOMAIN graph.borders = {} /\ graph.borders = [b \in DOMAIN graph.borders |-> graph.borders[b]]
    BY <1>2, NothingIn
<1>4. GraphBorders(graph)
    BY <1>1, <1>2, <1>3 DEF GraphBorders
<1>5. GraphQueue(graph)
    BY <1>2, NothingIn DEF GraphQueue
<1>6. AtStart
    BY <1>1 DEF Init, AtStart
<1> QED
    BY <1>1, <1>4, <1>5, <1>6 DEF DeltaInv, GraphSound

(* An empty payload.                                                       *)
LEMMA EmptySound == PayloadSound(EmptyPayload)
<1>1. IsFiniteSet({})
    BY FS_EmptySet
<1> QED
    BY <1>1, NothingIn DEF PayloadSound, EmptyPayload

(* The split.                                                              *)
LEMMA StartInv ==
    ASSUME DeltaInv, NEW sigma \in Allocations(input), Start(sigma)
    PROVE  DeltaInv'
<1>1. stage = "start" /\ stage' = "round" /\ AtStart
    BY DEF Start, DeltaInv
<1>2. /\ parts' = split(input, sigma)
      /\ reported' = [w \in WorkerIds |-> parts'[w].free_port_index]
      /\ cache' = parts'
      /\ graph' = from_partition_plan(parts')
      /\ dispatch' = dispatch /\ results' = results /\ promoted' = promoted /\ resolved' = resolved
    BY DEF Start
<1>3. /\ input \in InitialNets
      /\ dispatch' = [w \in WorkerIds |-> EmptyPayload]
      /\ results' = <<>> /\ promoted' = <<>> /\ resolved' = <<>>
    BY <1>1, <1>2 DEF AtStart
<1>4. /\ parts' = [w \in WorkerIds |-> parts'[w]]
      /\ \A w \in WorkerIds : PlainPart(parts'[w]) /\ PlainIndex(parts'[w].free_port_index)
      /\ GraphSound(graph') /\ graph'.pending = <<>>
      /\ \A b \in DOMAIN graph'.borders :
            LET st == graph'.borders[b]
            IN  /\ st.worker_a # st.worker_b
                /\ st.side_a = End(parts'[st.worker_a].free_port_index, b)
                /\ st.side_b = End(parts'[st.worker_b].free_port_index, b)
    BY <1>2, <1>3, PlanSound
<1>5. \A w \in WorkerIds : reported'[w] = parts'[w].free_port_index
    BY <1>2
<1>6. PartsSound'
    BY <1>2, <1>4, <1>5 DEF PartsSound
<1>7. MessagesSound'
    BY <1>3, EmptySound, NothingIn DEF MessagesSound
<1>8. EveryMintOwed'
    BY <1>4, NothingIn DEF EveryMintOwed
<1>9. GraphFollows'
    <2>1. ASSUME NEW b \in DOMAIN graph'.borders
          PROVE  /\ graph'.borders[b].worker_a # graph'.borders[b].worker_b
                 /\ graph'.borders[b].side_a = End(reported'[graph'.borders[b].worker_a], b)
                 /\ graph'.borders[b].side_b = End(reported'[graph'.borders[b].worker_b], b)
        <3>1. graph'.borders[b].worker_a \in WorkerIds /\ graph'.borders[b].worker_b \in WorkerIds
            BY <1>4, <2>1 DEF GraphSound, GraphBorders, PlainState
        <3> QED
            BY <1>4, <1>5, <2>1, <3>1
    <2> QED
        BY <2>1 DEF GraphFollows, Follows
<1> QED
    BY <1>1, <1>3, <1>4, <1>6, <1>7, <1>8, <1>9 DEF DeltaInv

(* A step that leaves the loop with the graph it has.                      *)
LEMMA LeaveInv ==
    ASSUME DeltaInv, graph' = graph, stage' \notin {"start", "round", "resolve"}
    PROVE  DeltaInv'
BY DEF DeltaInv

(* What a worker does in a round.                                          *)
LEMMA RoundSound ==
    ASSUME DeltaInv, NEW w \in WorkerIds, WorkerRound(w), stage' = "round"
    PROVE  /\ stage = "round" /\ w \notin Answered
           /\ \E kept, r : /\ parts' = [parts EXCEPT ![w] = kept]
                           /\ reported' = [reported EXCEPT ![w] = kept.free_port_index]
                           /\ results' = Append(results, r)
                           /\ PlainPart(kept)
                           /\ PlainIndex(kept.free_port_index)
                           /\ r.worker = w
                           /\ ResultSound(r)
                           /\ \A d \in r.deltas : d[2] = End(kept.free_port_index, d[1])
                           /\ \A b : (\A d \in r.deltas : d[1] # b) =>
                                        End(reported[w], b) = End(kept.free_port_index, b)
                           /\ \A x \in ToSet(dispatch[w].batches) : \A e :
                                  MintsFor(x, e) => Echoed(r.echoes, e)
<1> DEFINE minted == MintAll(parts[w], dispatch[w])
           part == apply_payload_borders(parts[w], dispatch[w])
           reduced == ReduceAll(minted.net)
           after == [part EXCEPT !.subnet = reduced.net]
           index == rebuild_free_port_index(after)
           kept == [after EXCEPT !.free_port_index = index]
           D == compute_outgoing_deltas(reported[w], index)
           r == [worker |-> w, deltas |-> D, local |-> reduced.count,
                 activity |-> compute_border_activity(kept), echoes |-> minted.echoes]
<1>1. stage = "round" /\ w \notin Answered
    BY DEF WorkerRound
<1>2. PlainPart(parts[w]) /\ PlainIndex(reported[w]) /\ PayloadSound(dispatch[w])
    BY <1>1 DEF DeltaInv, PartsSound, MessagesSound
<1>3. /\ minted.ok
      /\ parts' = [parts EXCEPT ![w] = kept]
      /\ reported' = [reported EXCEPT ![w] = index]
      /\ results' = Append(results, r)
    BY DEF WorkerRound, RoundResult
<1>4. /\ PlainNet(minted.net)
      /\ IsSeq(minted.echoes)
      /\ \A x \in ToSet(dispatch[w].batches) : \A e : MintsFor(x, e) => Echoed(minted.echoes, e)
    BY <1>2, <1>3, MintAllSound
<1>5. PlainPart(part)
    BY <1>2, PayloadPlain
<1> DEFINE activity == compute_border_activity(kept)
<1> HIDE DEF minted, part
<1>6. PlainNet(reduced.net)
    BY <1>4, ReduceAllPlain
<1> HIDE DEF reduced
<1>7. PlainPart(after)
    BY <1>5, <1>6, PartPlain
<1>8. after.subnet = reduced.net
    BY <1>5 DEF PlainPart
<1> HIDE DEF after
<1>9. PlainIndex(index)
    BY <1>7, IndexPlain
<1> HIDE DEF index
<1>10. PlainPart(kept) /\ kept.free_port_index = index
    BY <1>7 DEF PlainPart
<1> HIDE DEF kept, activity
<1>11. /\ DeltasSound(D)
       /\ \A d \in D : d[2] = End(index, d[1])
       /\ \A b : (\A d \in D : d[1] # b) => End(reported[w], b) = End(index, b)
    BY <1>2, <1>9, DeltasReported
<1> HIDE DEF D
<1>12. r.worker = w /\ r.deltas = D /\ r.echoes = minted.echoes
    OBVIOUS
<1> HIDE DEF r
<1>13. ResultSound(r)
    BY <1>4, <1>11, <1>12 DEF ResultSound
<1>14. /\ parts' = [parts EXCEPT ![w] = kept]
       /\ reported' = [reported EXCEPT ![w] = kept.free_port_index]
       /\ results' = Append(results, r)
       /\ PlainPart(kept)
       /\ PlainIndex(kept.free_port_index)
       /\ r.worker = w
       /\ ResultSound(r)
       /\ \A d \in r.deltas : d[2] = End(kept.free_port_index, d[1])
       /\ \A b : (\A d \in r.deltas : d[1] # b) => End(reported[w], b) = End(kept.free_port_index, b)
       /\ \A x \in ToSet(dispatch[w].batches) : \A e : MintsFor(x, e) => Echoed(r.echoes, e)
    BY <1>3, <1>4, <1>9, <1>10, <1>11, <1>12, <1>13
<1> QED
    BY <1>1, <1>14

(* A worker's round.                                                       *)
LEMMA WorkerInv ==
    ASSUME DeltaInv, NEW w \in WorkerIds, WorkerRound(w)
    PROVE  DeltaInv'
<1>1. /\ stage = "round" /\ graph' = graph /\ cache' = cache /\ dispatch' = dispatch
      /\ promoted' = promoted /\ resolved' = resolved
      /\ stage' \in {"failed", "round"}
    BY DEF WorkerRound
<1>2. CASE stage' = "failed"
    BY <1>1, <1>2, LeaveInv
<1>3. CASE stage' = "round"
    <2>1. w \notin Answered
        BY <1>3, RoundSound
    <2>2. PICK kept, r :
              /\ parts' = [parts EXCEPT ![w] = kept]
              /\ reported' = [reported EXCEPT ![w] = kept.free_port_index]
              /\ results' = Append(results, r)
              /\ PlainPart(kept)
              /\ PlainIndex(kept.free_port_index)
              /\ r.worker = w
              /\ ResultSound(r)
              /\ \A d \in r.deltas : d[2] = End(kept.free_port_index, d[1])
              /\ \A b : (\A d \in r.deltas : d[1] # b) =>
                           End(reported[w], b) = End(kept.free_port_index, b)
              /\ \A x \in ToSet(dispatch[w].batches) : \A e : MintsFor(x, e) => Echoed(r.echoes, e)
        BY <1>3, RoundSound
    <2>3. PartsSound /\ MessagesSound /\ resolved = <<>> /\ EveryMintOwed /\ GraphFollows /\ GraphSound(graph)
        BY <1>1 DEF DeltaInv
    <2> DEFINE new == Len(results) + 1
    <2>4. /\ IsSeq(results')
          /\ DOMAIN results' = DOMAIN results \cup {new}
          /\ results'[new] = r
          /\ \A k \in DOMAIN results : results'[k] = results[k]
          /\ new \notin DOMAIN results
        <3>1. IsSeq(results)
            BY <2>3 DEF MessagesSound
        <3>2. Len(results) \in Nat /\ DOMAIN results = 1 .. Len(results)
            BY <3>1, Positions
        <3> QED
            BY <2>2, <3>1, <3>2, AppendIn
    <2> HIDE DEF new
    <2>5. \A k \in DOMAIN results : results[k].worker # w
        BY <2>1 DEF Answered
    <2>6. /\ parts'[w] = kept /\ reported'[w] = kept.free_port_index
          /\ \A v \in WorkerIds : v # w => parts'[v] = parts[v] /\ reported'[v] = reported[v]
          /\ parts' = [v \in WorkerIds |-> parts'[v]]
          /\ reported' = [v \in WorkerIds |-> reported'[v]]
        BY <2>2, <2>3 DEF PartsSound
    <2>7. PartsSound'
        BY <1>1, <2>2, <2>3, <2>6 DEF PartsSound
    <2>8. \A k \in DOMAIN results' : ResultSound(results'[k])
        BY <2>2, <2>3, <2>4 DEF MessagesSound
    <2>9. ASSUME NEW k \in DOMAIN results', NEW d \in results'[k].deltas
          PROVE  d[2] = End(reported'[results'[k].worker], d[1])
        <3>1. CASE k = new
            BY <2>2, <2>4, <2>6, <2>9, <3>1
        <3>2. CASE k \in DOMAIN results
            <4>1. results[k].worker \in WorkerIds /\ results[k].worker # w /\ d \in results[k].deltas
                BY <2>3, <2>4, <2>5, <2>9, <3>2 DEF MessagesSound, ResultSound
            <4> QED
                BY <2>3, <2>4, <2>6, <3>2, <4>1 DEF MessagesSound
        <3> QED
            BY <2>4, <3>1, <3>2
    <2>10. \A j, k \in DOMAIN results' : results'[j].worker = results'[k].worker => j = k
        BY <2>2, <2>3, <2>4, <2>5 DEF MessagesSound
    <2>11. MessagesSound'
        BY <1>1, <2>3, <2>4, <2>8, <2>9, <2>10 DEF MessagesSound
    <2>12. EveryMintOwed'
        <3> SUFFICES ASSUME NEW p \in ToSet(graph.pending), NEW e \in {p.side_a, p.side_b}, IsPending(e)
                     PROVE  Owed(e)'
            BY <1>1 DEF EveryMintOwed
        <3>1. Owed(e)
            BY <2>3 DEF EveryMintOwed
        <3>2. ASSUME NEW k \in DOMAIN results', Echoed(results'[k].echoes, e) PROVE Owed(e)'
            BY <3>2 DEF Owed
        <3>3. CASE \E k \in DOMAIN results : Echoed(results[k].echoes, e)
            BY <2>4, <3>2, <3>3
        <3>4. CASE \E v \in WorkerIds \ Answered : \E x \in ToSet(dispatch[v].batches) : MintsFor(x, e)
            <4>1. PICK v \in WorkerIds \ Answered : \E x \in ToSet(dispatch[v].batches) : MintsFor(x, e)
                BY <3>4
            <4>2. CASE v = w
                <5>1. Echoed(r.echoes, e)
                    BY <2>2, <4>1, <4>2
                <5> QED
                    BY <2>4, <3>2, <5>1
            <4>3. CASE v # w
                <5>1. v \notin Answered'
                    BY <2>2, <2>4, <4>1, <4>3 DEF Answered
                <5> QED
                    BY <1>1, <4>1, <5>1 DEF Owed
            <4> QED
                BY <4>2, <4>3
        <3> QED
            BY <3>1, <3>3, <3>4 DEF Owed
    <2>13. ASSUME NEW v \in WorkerIds, NEW b, NEW side, Follows(v, b, side)
           PROVE  Follows(v, b, side)'
        <3>1. CASE \E k \in DOMAIN results : results[k].worker = v /\ \E d \in results[k].deltas : d[1] = b
            BY <2>4, <3>1 DEF Follows
        <3>2. CASE side = End(reported[v], b) /\ v # w
            BY <2>6, <3>2 DEF Follows
        <3>3. CASE side = End(reported[v], b) /\ v = w
            <4>1. CASE \E d \in r.deltas : d[1] = b
                BY <2>2, <2>4, <3>3, <4>1 DEF Follows
            <4>2. CASE \A d \in r.deltas : d[1] # b
                BY <2>2, <2>6, <3>3, <4>2 DEF Follows
            <4> QED
                BY <4>1, <4>2
        <3> QED
            BY <2>13, <3>1, <3>2, <3>3 DEF Follows
    <2>14. GraphFollows'
        <3>1. ASSUME DOMAIN graph.mints = {}, NEW b \in DOMAIN graph.borders,
                     NEW st, st = graph.borders[b]
              PROVE  /\ st.worker_a # st.worker_b
                     /\ Follows(st.worker_a, b, st.side_a)'
                     /\ Follows(st.worker_b, b, st.side_b)'
            <4>1. st.worker_a \in WorkerIds /\ st.worker_b \in WorkerIds
                BY <2>3, <3>1 DEF GraphSound, GraphBorders, PlainState
            <4>2. /\ st.worker_a # st.worker_b
                  /\ Follows(st.worker_a, b, st.side_a)
                  /\ Follows(st.worker_b, b, st.side_b)
                BY <2>3, <3>1 DEF GraphFollows
            <4> QED
                BY <2>13, <4>1, <4>2
        <3> QED
            BY <1>1, <3>1 DEF GraphFollows, Follows
    <2> QED
        BY <1>1, <1>3, <2>3, <2>7, <2>11, <2>12, <2>14 DEF DeltaInv
<1> QED
    BY <1>1, <1>2, <1>3

(* A sequence without elements.                                            *)
LEMMA NoElements ==
    ASSUME NEW q, IsSeq(q), ToSet(q) = {}
    PROVE  q = <<>>
<1>1. Len(q) \in Nat /\ DOMAIN q = 1 .. Len(q)
    BY Positions
<1>2. DOMAIN q = {}
    BY DEF ToSet
<1>3. Len(q) = 0
    BY <1>1, <1>2
<1>4. PICK S : q \in Seq(S)
    BY DEF IsSeq
<1> QED
    BY <1>3, <1>4

(* The deltas of a worker.                                                 *)
LEMMA DeltasOfSound ==
    ASSUME MessagesSound, NEW w
    PROVE  DeltasSound(DeltasOf(w))
<1> DEFINE K == {j \in DOMAIN results : results[j].worker = w}
           F == {results[k].deltas : k \in K}
           f == [k \in K |-> results[k].deltas]
<1>1. IsFiniteSet(DOMAIN results) /\ \A k \in DOMAIN results : DeltasSound(results[k].deltas)
    BY Positions DEF MessagesSound, ResultSound
<1>2. IsFiniteSet(K)
    BY <1>1, FS_Subset
<1>3. f \in Surjection(K, F)
    <2> HIDE DEF K
    <2> QED
        BY DEF Surjection
<1>4. \A D \in F : DeltasSound(D)
    BY <1>1
<1>5. DeltasOf(w) = UNION F
    BY DEF DeltasOf
<1> HIDE DEF K, F, f
<1>6. IsFiniteSet(F)
    BY <1>2, <1>3, FS_Surjection
<1>7. IsFiniteSet(UNION F)
    BY <1>4, <1>6, FS_UNION DEF DeltasSound
<1>8. \A d \in UNION F : Plain(d[2])
    BY <1>4 DEF DeltasSound
<1> QED
    BY <1>5, <1>7, <1>8 DEF DeltasSound

(* When all workers have answered, no queued border waits any more.        *)
LEMMA NothingWaits ==
    ASSUME DeltaInv, stage = "round", Answered = WorkerIds,
           NEW reg, AllRegistered(<<graph, results>>, DOMAIN results, reg)
    PROVE  reg.graph.pending = <<>>
<1>1. /\ GraphSound(reg.graph)
      /\ \A j \in DOMAIN results : \A m \in ToSet(results[j].echoes) :
             <<m[1], m[2]>> \in DOMAIN reg.graph.mints
      /\ \A p \in ToSet(reg.graph.pending) :
             p \in ToSet(graph.pending) /\ (DOMAIN results # {} => ~IsReady(reg.graph.mints, p))
    BY DEF AllRegistered
<1>2. ASSUME NEW p \in ToSet(reg.graph.pending) PROVE FALSE
    <2>1. Queued(p)
        BY <1>1 DEF GraphSound, GraphQueue
    <2>2. ASSUME NEW e \in {p.side_a, p.side_b}, IsPending(e)
          PROVE  DOMAIN results # {} /\ MintKey(e[2], e[3]) \in DOMAIN reg.graph.mints
        <3>1. Owed(e)
            BY <1>1, <1>2, <2>2 DEF DeltaInv, EveryMintOwed
        <3>2. PICK k \in DOMAIN results : Echoed(results[k].echoes, e)
            BY <3>1 DEF Owed
        <3> QED
            BY <1>1, <3>2 DEF Echoed
    <2>3. DOMAIN results # {}
        BY <2>1, <2>2 DEF Queued
    <2>4. IsReady(reg.graph.mints, p)
        BY <2>2 DEF IsReady, IsKnown
    <2> QED
        BY <1>1, <1>2, <2>3, <2>4
<1>3. ToSet(reg.graph.pending) = {}
    BY <1>2
<1> QED
    BY <1>1, <1>3, NoElements DEF GraphSound, GraphQueue

(* The coordinator takes the results of a round.                           *)
LEMMA AbsorbInv ==
    ASSUME DeltaInv, Absorb
    PROVE  DeltaInv'
<1> DEFINE reg == Registered
           pruned == FoldLeft(Prune, reg.graph, reg.promoted)
           updated == FoldLeft(LAMBDA g, r : apply_deltas(g, r.worker, r.deltas), pruned, results)
           done == strict /\ reg.promoted = <<>> /\ check_delta_convergence_post_resolve(updated)
<1>1. /\ stage = "round" /\ Answered = WorkerIds
      /\ parts' = parts /\ reported' = reported /\ dispatch' = dispatch /\ results' = results
      /\ resolved' = resolved
    BY DEF Absorb
<1>2. /\ PartsSound /\ MessagesSound /\ resolved = <<>> /\ EveryMintOwed /\ GraphFollows /\ GraphSound(graph)
      /\ IsSeq(results) /\ \A k \in DOMAIN results : ResultSound(results[k])
    BY <1>1 DEF DeltaInv, MessagesSound
<1>3. /\ reg.fault # "none" => stage' = reg.fault /\ graph' = graph
      /\ reg.fault = "none" =>
            /\ graph' = updated
            /\ cache' \in CacheUpdates([w \in WorkerIds |-> CacheUpdate(cache[w], DeltasOf(w))])
            /\ promoted' = reg.promoted
            /\ todo' = detect_border_redexes(updated)
            /\ stage' = IF done THEN "collect" ELSE "resolve"
    BY DEF Absorb
<1> HIDE DEF done
<1>4. /\ reg.fault \in {"none", "failed", "panic"}
      /\ reg.fault = "none" => AllRegistered(<<graph, results>>, DOMAIN results, reg)
    BY <1>2, RegisteredSound DEF Registered
<1> HIDE DEF reg
<1>5. CASE reg.fault # "none"
    BY <1>3, <1>4, <1>5, LeaveInv
<1>6. CASE reg.fault = "none"
    <2>1. AllRegistered(<<graph, results>>, DOMAIN results, reg)
        BY <1>4, <1>6
    <2>2. /\ GraphSound(reg.graph)
          /\ IsSeq(reg.promoted)
          /\ \A p \in ToSet(reg.promoted) : PromotionSound(p)
          /\ DOMAIN graph.mints \subseteq DOMAIN reg.graph.mints
          /\ DOMAIN reg.graph.mints = {} => reg.graph.borders = graph.borders /\ reg.promoted = <<>>
        BY <2>1 DEF AllRegistered
    <2>3. GraphBorders(pruned) /\ SomeBorders(reg.graph, pruned) /\ (reg.promoted = <<>> => pruned = reg.graph)
        BY <2>2, PrunedSound DEF GraphSound
    <2> HIDE DEF pruned
    <2>4. GraphBorders(updated) /\ SameQueue(pruned, updated)
          /\ MovedByAll(pruned, updated, results, DOMAIN results, reported)
        BY <1>2, <2>3, ResultsApplied DEF MessagesSound
    <2> HIDE DEF updated
    <2>5. updated.pending = reg.graph.pending /\ updated.mints = reg.graph.mints
        BY <2>3, <2>4 DEF SomeBorders, SameQueue
    <2>6. updated.pending = <<>>
        BY <1>1, <2>1, <2>5, NothingWaits
    <2>7. GraphSound(updated)
        BY <2>4, <2>6, NothingIn DEF GraphSound, GraphQueue
    <2>8. ASSUME DOMAIN updated.mints = {}, NEW b \in DOMAIN updated.borders
          PROVE  /\ updated.borders[b].worker_a # updated.borders[b].worker_b
                 /\ updated.borders[b].side_a = End(reported[updated.borders[b].worker_a], b)
                 /\ updated.borders[b].side_b = End(reported[updated.borders[b].worker_b], b)
        <3>1. DOMAIN graph.mints = {} /\ reg.graph.borders = graph.borders /\ pruned = reg.graph
            BY <2>2, <2>3, <2>5, <2>8
        <3>2. /\ b \in DOMAIN graph.borders
              /\ updated.borders[b].worker_a = graph.borders[b].worker_a
              /\ updated.borders[b].worker_b = graph.borders[b].worker_b
              /\ graph.borders[b].worker_a # graph.borders[b].worker_b =>
                    /\ updated.borders[b].side_a =
                           IF Told(results, DOMAIN results, graph.borders[b].worker_a, b)
                           THEN End(reported[graph.borders[b].worker_a], b) ELSE graph.borders[b].side_a
                    /\ updated.borders[b].side_b =
                           IF Told(results, DOMAIN results, graph.borders[b].worker_b, b)
                           THEN End(reported[graph.borders[b].worker_b], b) ELSE graph.borders[b].side_b
            BY <2>4, <2>8, <3>1 DEF MovedByAll
        <3>3. /\ graph.borders[b].worker_a # graph.borders[b].worker_b
              /\ Follows(graph.borders[b].worker_a, b, graph.borders[b].side_a)
              /\ Follows(graph.borders[b].worker_b, b, graph.borders[b].side_b)
            BY <1>2, <3>1, <3>2 DEF GraphFollows
        <3>4. \A v, side : Follows(v, b, side) =>
                  side = End(reported[v], b) \/ Told(results, DOMAIN results, v, b)
            BY DEF Follows, Told, Tells
        <3> QED
            BY <3>2, <3>3, <3>4
    <2>9. GraphAgrees'
        BY <1>1, <1>3, <1>6, <2>8 DEF GraphAgrees
    <2>10. todo' \subseteq DOMAIN updated.borders
        BY <1>3, <1>6 DEF detect_border_redexes
    <2>11. cache' = [w \in WorkerIds |-> cache'[w]] /\ \A w \in WorkerIds : PlainPart(cache'[w])
        <3> DEFINE options == [w \in WorkerIds |-> CacheUpdate(cache[w], DeltasOf(w))]
        <3>1. cache' \in CacheUpdates(options)
            BY <1>3, <1>6
        <3>2. cache' = [w \in WorkerIds |-> cache'[w]] /\ \A w \in WorkerIds : cache'[w] \in options[w]
            <4> HIDE DEF options
            <4> QED
                BY <3>1 DEF CacheUpdates
        <3>3. ASSUME NEW w \in WorkerIds PROVE PlainPart(cache'[w])
            <4> DEFINE D == DeltasOf(w)
            <4>1. DeltasSound(D)
                BY <1>2, DeltasOfSound
            <4>2. PlainPart(cache[w])
                BY <1>2 DEF PartsSound
            <4> HIDE DEF D
            <4>3. cache'[w] \in CacheUpdate(cache[w], D)
                BY <3>2 DEF D
            <4> QED
                BY <4>1, <4>2, <4>3, CacheUpdated
        <3> QED
            BY <3>2, <3>3
    <2>12. PartsSound'
        BY <1>1, <1>2, <2>11 DEF PartsSound
    <2>13. MessagesSound'
        BY <1>1, <1>2, <1>3, <1>6, <2>2 DEF MessagesSound
    <2> QED
        BY <1>3, <1>6, <2>6, <2>7, <2>9, <2>10, <2>12, <2>13 DEF DeltaInv
<1> QED
    BY <1>5, <1>6

(* A border redex is resolved.                                             *)
LEMMA ResolveInv ==
    ASSUME DeltaInv, NEW b \in todo, ResolveRedex(b)
    PROVE  DeltaInv'
<1> DEFINE st == graph.borders[b]
           res == Resolution(graph, cache, b, bid, cid)
           found == HasAgent(cache[st.worker_a], st.side_a) /\ HasAgent(cache[st.worker_b], st.side_b)
<1>1. /\ stage = "resolve"
      /\ parts' = parts /\ reported' = reported /\ cache' = cache /\ dispatch' = dispatch
      /\ results' = results /\ promoted' = promoted
    BY DEF ResolveRedex
<1>2. /\ ~found => stage' = "panic" /\ graph' = graph
      /\ found => /\ graph' = remove_border(graph, b)
                  /\ todo' = todo \ {b}
                  /\ resolved' = Append(resolved, <<b, st, res>>)
                  /\ stage' = stage
    BY DEF ResolveRedex
<1>3. /\ GraphSound(graph) /\ PartsSound /\ MessagesSound /\ graph.pending = <<>>
      /\ todo \subseteq DOMAIN graph.borders /\ GraphAgrees
    BY <1>1 DEF DeltaInv
<1>4. CASE ~found
    BY <1>2, <1>4, LeaveInv
<1>5. CASE found
    <2>1. ResolutionSound(res)
        BY <1>3, <1>5, ResolverSound DEF GraphSound, PartsSound
    <2> HIDE DEF res, found
    <2>2. GraphBorders(graph') /\ SomeBorders(graph, graph')
        BY <1>2, <1>3, <1>5, RemoveBorderSound DEF GraphSound
    <2>3. DOMAIN graph'.borders = DOMAIN graph.borders \ {b}
        <3> DEFINE left == Without(graph.borders, b)
                   active == IF graph.borders[b].is_redex THEN graph.active \ {b} ELSE graph.active
        <3>1. graph' = [graph EXCEPT !.borders = left, !.active = active]
            BY <1>2, <1>3, <1>5 DEF remove_border, GraphSound, GraphBorders
        <3>2. DOMAIN left = DOMAIN graph.borders \ {b}
            BY DEF Without
        <3> HIDE DEF left, active
        <3>3. graph'.borders = left
            BY <1>3, <3>1 DEF GraphSound, GraphBorders
        <3> QED
            BY <3>2, <3>3
    <2>4. GraphSound(graph') /\ graph'.pending = <<>>
        BY <1>3, <2>2 DEF GraphSound, GraphQueue, SomeBorders, SameQueue
    <2>5. GraphAgrees'
        BY <1>1, <1>3, <2>2 DEF GraphAgrees, SomeBorders, SameQueue
    <2>6. /\ IsSeq(resolved') /\ \A r \in ToSet(resolved') : ResolutionSound(r[3])
        <3>1. IsSeq(resolved) /\ \A r \in ToSet(resolved) : ResolutionSound(r[3])
            BY <1>3 DEF MessagesSound
        <3> DEFINE e == <<b, st, res>>
        <3>2. ResolutionSound(e[3])
            BY <2>1
        <3>3. resolved' = Append(resolved, e)
            BY <1>2, <1>5
        <3> HIDE DEF e
        <3>4. IsSeq(resolved') /\ ToSet(resolved') = ToSet(resolved) \cup {e}
            BY <3>1, <3>3, AppendIn
        <3> QED
            BY <3>1, <3>2, <3>4
    <2>7. MessagesSound'
        BY <1>1, <1>3, <2>6 DEF MessagesSound
    <2>8. PartsSound'
        BY <1>1, <1>3 DEF PartsSound
    <2> QED
        BY <1>1, <1>2, <1>3, <1>5, <2>3, <2>4, <2>5, <2>7, <2>8 DEF DeltaInv
<1> QED
    BY <1>4, <1>5

(* The next round's payloads.                                              *)
LEMMA PackageInv ==
    ASSUME DeltaInv, Package
    PROVE  DeltaInv'
<1> DEFINE queue == FoldLeft(QueuePending, graph.pending, resolved)
<1>1. /\ stage = "resolve" /\ stage' = "round"
      /\ graph' = [graph EXCEPT !.pending = queue]
      /\ cache' = [w \in WorkerIds |-> MaintainCache(cache[w], Packaged(w))]
      /\ dispatch' = [w \in WorkerIds |-> PromotionsPackaged(w, Packaged(w), promoted)]
      /\ results' = <<>> /\ resolved' = <<>>
      /\ parts' = parts /\ reported' = reported /\ promoted' = promoted
    BY DEF Package, PromotionsPackaged
<1>2. /\ GraphSound(graph) /\ PartsSound /\ MessagesSound /\ graph.pending = <<>> /\ GraphAgrees
      /\ IsSeq(resolved) /\ \A r \in ToSet(resolved) : ResolutionSound(r[3])
    BY <1>1 DEF DeltaInv, MessagesSound
<1>3. IsSeq(queue) /\ \A p \in ToSet(queue) : \E r \in ToSet(resolved) : p \in ToSet(r[3].pending)
    <2>1. IsSeq(graph.pending) /\ ToSet(graph.pending) = {}
        BY <1>2, NothingIn
    <2>2. /\ IsSeq(queue)
          /\ \A p \in ToSet(queue) : p \in ToSet(graph.pending) \/ \E r \in ToSet(resolved) : p \in ToSet(r[3].pending)
        BY <1>2, <2>1, PendingQueue
    <2> QED
        BY <2>1, <2>2
<1> HIDE DEF queue
<1>4. ASSUME NEW w \in WorkerIds
      PROVE  /\ PayloadSound(Packaged(w))
             /\ \A r \in ToSet(resolved) : \A x \in ToSet(r[3].batches) :
                    x.worker = w => x \in ToSet(Packaged(w).batches)
    <2>1. Packaged(w) = PackagedAll(w, resolved)
        BY DEF Packaged, PackagedAll
    <2> QED
        BY <1>2, <2>1, ResolutionsPackaged
<1>5. ASSUME NEW w \in WorkerIds
      PROVE  PayloadSound(dispatch'[w]) /\ dispatch'[w].batches = Packaged(w).batches
    <2>1. dispatch'[w] = PromotionsPackaged(w, Packaged(w), promoted)
        BY <1>1
    <2>2. IsSeq(promoted) /\ \A p \in ToSet(promoted) : PromotionSound(p)
        BY <1>2 DEF MessagesSound
    <2> QED
        BY <1>4, <2>1, <2>2, PromotedPackaged
<1>6. \A w \in WorkerIds : PlainPart(cache'[w])
    BY <1>1, <1>2, <1>4, CacheMaintained DEF PartsSound
<1>7. /\ graph' = [borders |-> graph.borders, active |-> graph.active, pending |-> queue, mints |-> graph.mints]
      /\ graph'.borders = graph.borders /\ graph'.pending = queue /\ graph'.mints = graph.mints
      /\ graph'.active = graph.active
    BY <1>1, <1>2 DEF GraphSound, GraphBorders
<1>8. GraphBorders(graph')
    BY <1>2, <1>7 DEF GraphSound, GraphBorders
<1>9. GraphSound(graph')
    BY <1>2, <1>3, <1>7, <1>8 DEF GraphSound, GraphQueue, ResolutionSound
<1>10. PartsSound'
    BY <1>1, <1>2, <1>6 DEF PartsSound
<1>11. MessagesSound'
    <2>1. dispatch' = [w \in WorkerIds |-> dispatch'[w]]
        BY <1>1
    <2> QED
        BY <1>1, <1>2, <1>5, <2>1, NothingIn DEF MessagesSound
<1>12. EveryMintOwed'
    <2> SUFFICES ASSUME NEW p \in ToSet(queue), NEW e \in {p.side_a, p.side_b}, IsPending(e)
                 PROVE  Owed(e)'
        BY <1>7 DEF EveryMintOwed
    <2>1. PICK r \in ToSet(resolved) : p \in ToSet(r[3].pending)
        BY <1>3
    <2>2. PICK x \in ToSet(r[3].batches) : MintsFor(x, e)
        BY <1>2, <2>1 DEF ResolutionSound
    <2>3. x.worker \in WorkerIds
        BY <1>2, <2>1, <2>2 DEF ResolutionSound, BatchSound
    <2>4. x \in ToSet(dispatch'[x.worker].batches)
        BY <1>4, <1>5, <2>1, <2>2, <2>3
    <2>5. x.worker \notin Answered'
        BY <1>1, NothingIn DEF Answered
    <2> QED
        BY <2>2, <2>3, <2>4, <2>5 DEF Owed
<1>13. GraphFollows'
    BY <1>1, <1>2, <1>7 DEF GraphFollows, GraphAgrees, Follows
<1> QED
    BY <1>1, <1>9, <1>10, <1>11, <1>12, <1>13 DEF DeltaInv

(* Every step preserves the invariant.                                     *)
LEMMA StepInv == DeltaInv /\ [Next]_vars => DeltaInv'
<1> SUFFICES ASSUME DeltaInv, [Next]_vars PROVE DeltaInv'
    OBVIOUS
<1>1. CASE UNCHANGED vars
    BY <1>1 DEF vars, DeltaInv, AtStart, PartsSound, MessagesSound, EveryMintOwed, Owed, Answered,
                GraphFollows, Follows, GraphAgrees
<1>2. ASSUME NEW sigma \in Allocations(input), Start(sigma) PROVE DeltaInv'
    BY <1>2, StartInv
<1>3. ASSUME NEW w \in WorkerIds, WorkerRound(w) PROVE DeltaInv'
    BY <1>3, WorkerInv
<1>4. CASE Absorb
    BY <1>4, AbsorbInv
<1>5. ASSUME NEW b \in todo, ResolveRedex(b) PROVE DeltaInv'
    BY <1>5, ResolveInv
<1>6. CASE Converge
    BY <1>6, LeaveInv DEF Converge
<1>7. CASE Package
    BY <1>7, PackageInv
<1>8. CASE RoundCap
    BY <1>8, LeaveInv DEF RoundCap
<1>9. CASE FinalCollect
    BY <1>9, LeaveInv DEF FinalCollect
<1>10. ASSUME NEW b \in restoring, FinalMerge(b) PROVE DeltaInv'
    BY <1>10, LeaveInv DEF FinalMerge
<1>11. CASE FinalReturn
    BY <1>11, LeaveInv DEF FinalReturn
<1> QED
    BY <1>1, <1>2, <1>3, <1>4, <1>5, <1>6, <1>7, <1>8, <1>9, <1>10, <1>11 DEF Next

-----------------------------------------------------------------------------
(***************************************************************************)
(* The theorems.                                                           *)
(***************************************************************************)
(* DeltaInv is an invariant of run_grid_delta.                             *)
THEOREM DeltaInductive == Spec => []DeltaInv
<1>1. DeltaInv /\ [Next]_vars => DeltaInv'
    BY StepInv
<1> QED
    BY <1>1, InitInv, PTL DEF Spec

(* The set of active redexes that apply_delta, add_border_state and        *)
(* remove_border keep up to date, one change at a time, is what a scan of  *)
(* the graph would find, whatever the workers report and mint.             *)
THEOREM ActiveRedexesCorrect == Spec => []ActiveRedexesExact
<1>1. DeltaInv => ActiveRedexesExact
    <2> SUFFICES ASSUME DeltaInv PROVE ActiveRedexesExact
        OBVIOUS
    <2>1. GraphBorders(graph)
        BY DEF DeltaInv, GraphSound
    <2>2. \A b \in DOMAIN graph.borders : graph.borders[b].is_redex =
              is_principal_pair(graph.borders[b].side_a, graph.borders[b].side_b)
        <3> TAKE b \in DOMAIN graph.borders
        <3> DEFINE st == graph.borders[b]
        <3>1. st = BorderState(st.side_a, st.side_b, st.worker_a, st.worker_b)
            BY <2>1 DEF GraphBorders, PlainState
        <3> HIDE DEF st
        <3>2. st.is_redex = is_principal_pair(st.side_a, st.side_b)
            BY <3>1 DEF BorderState
        <3> QED
            BY <3>2 DEF st
    <2> QED
        BY <2>1, <2>2 DEF GraphBorders, ActiveRedexesExact
<1> QED
    BY <1>1, DeltaInductive, PTL

(* Every border a resolution queued is promoted by the echoes of the very  *)
(* next round: each end it waits for is a slot of a batch that the round   *)
(* sent to a worker, and every worker echoes all its slots.                *)
THEOREM PendingPromotedCorrect == Spec => []PendingPromotedNextRound
<1>1. DeltaInv => PendingPromotedNextRound
    BY DEF DeltaInv, PendingPromotedNextRound
<1> QED
    BY <1>1, DeltaInductive, PTL

(* Until the first agent is minted the coordinator resolves on the ends    *)
(* the workers really hold: the deltas of compute_outgoing_deltas lose     *)
(* nothing, in whatever order the results arrive.                          *)
THEOREM GraphMatchesCorrect == Spec => []GraphMatchesWorkers
<1>1. DeltaInv => GraphMatchesWorkers
    <2> SUFFICES ASSUME DeltaInv, stage = "resolve", graph.mints = <<>>, NEW b \in DOMAIN graph.borders
                 PROVE  /\ WorkerEnd(graph.borders[b].worker_a, b) = graph.borders[b].side_a
                        /\ WorkerEnd(graph.borders[b].worker_b, b) = graph.borders[b].side_b
        BY DEF GraphMatchesWorkers
    <2>1. GraphAgrees /\ PartsSound /\ GraphBorders(graph)
        BY DEF DeltaInv, GraphSound
    <2>2. graph.borders[b].worker_a \in WorkerIds /\ graph.borders[b].worker_b \in WorkerIds
        BY <2>1 DEF GraphBorders, PlainState
    <2>3. \A w \in WorkerIds : WorkerEnd(w, b) = End(reported[w], b)
        BY <2>1 DEF PartsSound, WorkerEnd, End
    <2>4. DOMAIN graph.mints = {}
        BY NothingIn
    <2> QED
        BY <2>1, <2>2, <2>3, <2>4 DEF GraphAgrees
<1> QED
    BY <1>1, DeltaInductive, PTL
=============================================================================
