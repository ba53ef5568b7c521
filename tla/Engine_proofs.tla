--------------------------- MODULE Engine_proofs ---------------------------
(***************************************************************************)
(* Proofs about the reduction engine.  Every rule of reduction/rules.rs    *)
(* removes the active pair, creates agents and links ports; in between,    *)
(* ports dangle.  Dangling(n, D) says that a net is well-formed but for    *)
(* the ports D of live agents that are wired to nothing, and the lemmas    *)
(* below say what each operation of net/core.rs does to D.  A rule is      *)
(* right when it ends with D = {}.  Turned(K, n, D) does the same for the  *)
(* FreePorts of the interface: those that no port holds and no redirect    *)
(* relays are in D.                                                        *)
(***************************************************************************)
EXTENDS Engine, WellFoundedInduction, FiniteSetTheorems, TLAPS

AgentRefs == {"agent"} \X AgentIds \X PortIds

LiveRef(n, r) == n.agents[r[2]] # None /\ r[3] < total_ports(n.agents[r[2]])

Tgt(n, r) == n.ports[r[2]][r[3]]

(* The ports in D are those of live agents that are wired to nothing; all  *)
(* the others are wired back by their target.                              *)
Dangling(n, D) ==
    /\ D \subseteq AgentRefs
    /\ \A r \in D : LiveRef(n, r) /\ r # n.root
    /\ \A r \in AgentRefs :
           Tgt(n, r) = DISCONNECTED <=> (~LiveRef(n, r) \/ r \in D \/ r = n.root)
    /\ \A r \in AgentRefs :
           Tgt(n, r) \in AgentRefs => Tgt(n, Tgt(n, r)) = r /\ Tgt(n, r) # r
    /\ n.root # DISCONNECTED =>
           n.root \in AgentRefs /\ n.root[3] = 0 /\ LiveRef(n, n.root)

InQueue(n, i, j) ==
    \E k \in DOMAIN n.queue : n.queue[k] = <<i, j>> \/ n.queue[k] = <<j, i>>

(* Every active pair is queued, but for those of the agents X.             *)
Queued(n, X) ==
    \A i, j \in AgentIds :
        Tgt(n, AgentPort(i, 0)) = AgentPort(j, 0) => i \in X \/ j \in X \/ InQueue(n, i, j)

(* The arena and the free list, which no wiring can disturb.               *)
Arena(n) == NetType(n) /\ FreeListAccounts(n) /\ n.shadow = {}

Tied(n, D) == Arena(n) /\ Dangling(n, D) /\ Queued(n, {})

(* The inductive invariant of the engine.                                  *)
EngineInv == Arena(net) /\ (~tangled => Tied(net, {})) /\ tangled \in BOOLEAN

-----------------------------------------------------------------------------
(* What set_port, disconnect and connect do: the wires of their ends, the  *)
(* queue and the redirects, nothing else.                                  *)
SameArena(m, n) ==
    /\ m.agents = n.agents
    /\ m.next_id = n.next_id
    /\ m.free_list = n.free_list
    /\ m.shadow = n.shadow
    /\ m.protected = n.protected
    /\ m.policy = n.policy
    /\ m.root = n.root

(* A port reference names a port of an agent or a free port.               *)
LEMMA RefForms ==
    /\ \A r \in PortRefs : IsAgentPort(r) <=> r \in AgentRefs
    /\ \A r \in PortRefs : IsFreePort(r) <=> r \notin AgentRefs
    /\ \A r \in AgentRefs : r \in PortRefs /\ r[2] \in AgentIds /\ r[3] \in PortIds
                            /\ r = AgentPort(r[2], r[3]) /\ r # DISCONNECTED
    /\ \A i \in AgentIds, p \in PortIds :
           /\ AgentPort(i, p) \in AgentRefs
           /\ AgentPort(i, p)[2] = i
           /\ AgentPort(i, p)[3] = p
    /\ DISCONNECTED \in PortRefs /\ DISCONNECTED \notin AgentRefs
BY NetAssumption
   DEF PortRefs, AgentRefs, IsAgentPort, IsFreePort, AgentPort, FreePort, DISCONNECTED

(* set_port changes one wire end and nothing else.                         *)
LEMMA SetPort ==
    ASSUME NEW n, NetType(n), NEW r \in PortRefs, NEW t \in PortRefs
    PROVE  LET m == set_port(n, r, t)
           IN  /\ NetType(m)
               /\ SameArena(m, n)
               /\ m.queue = n.queue
               /\ m.redirects = n.redirects
               /\ \A s \in AgentRefs : Tgt(m, s) = IF s = r THEN t ELSE Tgt(n, s)
<1> DEFINE m == set_port(n, r, t)
<1>1. CASE r \notin AgentRefs
    <2>1. m = n
        BY <1>1, RefForms DEF set_port
    <2> QED
        BY <2>1, <1>1 DEF SameArena
<1>2. CASE r \in AgentRefs
    <2>1. m = [n EXCEPT !.ports[r[2]][r[3]] = t]
        BY <1>2, RefForms DEF set_port
    <2>2. r[2] \in AgentIds /\ r[3] \in PortIds /\ r = <<"agent", r[2], r[3]>>
        BY <1>2 DEF AgentRefs
    <2>3. /\ m = [agents |-> n.agents, ports |-> [n.ports EXCEPT ![r[2]][r[3]] = t],
                  queue |-> n.queue,
                  next_id |-> n.next_id, free_list |-> n.free_list,
                  redirects |-> n.redirects, shadow |-> n.shadow,
                  protected |-> n.protected, policy |-> n.policy, root |-> n.root]
        BY <2>1 DEF NetType
    <2>4. [n.ports EXCEPT ![r[2]][r[3]] = t] \in [AgentIds -> [PortIds -> PortRefs]]
        BY <2>2 DEF NetType
    <2>5. NetType(m)
        BY <2>3, <2>4 DEF NetType
    <2>6. ASSUME NEW s \in AgentRefs
          PROVE  Tgt(m, s) = IF s = r THEN t ELSE Tgt(n, s)
        <3>1. s[2] \in AgentIds /\ s[3] \in PortIds /\ s = <<"agent", s[2], s[3]>>
            BY DEF AgentRefs
        <3>2. Tgt(m, s) = [n.ports EXCEPT ![r[2]][r[3]] = t][s[2]][s[3]]
            BY <2>3 DEF Tgt
        <3> QED
            BY <3>1, <3>2, <2>2 DEF Tgt, NetType
    <2> QED
        BY <2>3, <2>5, <2>6 DEF SameArena
<1> QED
    BY <1>1, <1>2

(* get_target reads a wire end.                                            *)
LEMMA GetTarget ==
    ASSUME NEW n, NetType(n), NEW r \in PortRefs
    PROVE  /\ get_target(n, r) \in PortRefs
           /\ r \in AgentRefs => get_target(n, r) = Tgt(n, r)
BY RefForms DEF get_target, Tgt, NetType

(* disconnect frees a port and the port it was wired to.                   *)
LEMMA Disconnect ==
    ASSUME NEW n, NetType(n), NEW r \in AgentRefs
    PROVE  LET m == disconnect(n, r)
           IN  /\ NetType(m)
               /\ SameArena(m, n)
               /\ m.queue = n.queue
               /\ m.redirects = n.redirects
               /\ \A s \in AgentRefs :
                      Tgt(m, s) = IF s = r \/ s = Tgt(n, r) THEN DISCONNECTED ELSE Tgt(n, s)
<1> DEFINE t == Tgt(n, r)
           h == set_port(n, t, DISCONNECTED)
           m == set_port(h, r, DISCONNECTED)
<1>1. t \in PortRefs /\ r \in PortRefs /\ DISCONNECTED \in PortRefs /\ get_target(n, r) = t
    BY GetTarget, RefForms
<1>2. /\ NetType(h)
      /\ SameArena(h, n)
      /\ h.queue = n.queue
      /\ h.redirects = n.redirects
      /\ \A s \in AgentRefs : Tgt(h, s) = IF s = t THEN DISCONNECTED ELSE Tgt(n, s)
    <2> HIDE DEF t
    <2> QED
        BY <1>1, SetPort
<1>3. /\ NetType(m)
      /\ SameArena(m, h)
      /\ m.queue = h.queue
      /\ m.redirects = h.redirects
      /\ \A s \in AgentRefs : Tgt(m, s) = IF s = r THEN DISCONNECTED ELSE Tgt(h, s)
    <2> HIDE DEF h
    <2> QED
        BY <1>1, <1>2, SetPort
<1>4. disconnect(n, r) = m
    BY <1>1 DEF disconnect
<1> HIDE DEF h, m
<1> QED
    BY <1>2, <1>3, <1>4 DEF SameArena

(* connect wires two ports and queues the pair when both are principal.    *)
LEMMA Connect ==
    ASSUME NEW n, NetType(n), NEW a \in PortRefs, NEW b \in PortRefs
    PROVE  LET m == connect(n, a, b)
           IN  /\ NetType(m)
               /\ SameArena(m, n)
               /\ m.queue = IF IsPrincipal(a) /\ IsPrincipal(b)
                            THEN Append(n.queue, <<a[2], b[2]>>) ELSE n.queue
               /\ m.redirects = Redirected(n, a, b)
               /\ \A s \in AgentRefs :
                      Tgt(m, s) = IF s = b THEN a ELSE IF s = a THEN b ELSE Tgt(n, s)
<1> DEFINE g == set_port(n, a, b)
           h == set_port(g, b, a)
           m == connect(n, a, b)
           q == IF IsPrincipal(a) /\ IsPrincipal(b)
                THEN Append(n.queue, <<a[2], b[2]>>) ELSE n.queue
<1>1. /\ NetType(g)
      /\ SameArena(g, n)
      /\ g.queue = n.queue
      /\ g.redirects = n.redirects
      /\ \A s \in AgentRefs : Tgt(g, s) = IF s = a THEN b ELSE Tgt(n, s)
    BY SetPort
<1>2. /\ NetType(h)
      /\ SameArena(h, g)
      /\ h.queue = g.queue
      /\ h.redirects = g.redirects
      /\ \A s \in AgentRefs : Tgt(h, s) = IF s = b THEN a ELSE Tgt(g, s)
    <2> HIDE DEF g
    <2> QED
        BY <1>1, SetPort
<1>3. q \in Seq(AgentIds \X AgentIds)
    <2>1. CASE IsPrincipal(a) /\ IsPrincipal(b)
        <3>1. a \in AgentRefs /\ b \in AgentRefs
            BY <2>1, RefForms DEF IsPrincipal
        <3>2. <<a[2], b[2]>> \in AgentIds \X AgentIds
            BY <3>1, RefForms
        <3> QED
            BY <2>1, <3>2 DEF NetType
    <2>2. CASE ~(IsPrincipal(a) /\ IsPrincipal(b))
        BY <2>2 DEF NetType
    <2> QED
        BY <2>1, <2>2
<1>4. m = [h EXCEPT !.redirects = Redirected(n, a, b),
                    !.queue = IF IsPrincipal(a) /\ IsPrincipal(b)
                              THEN Append(@, <<a[2], b[2]>>) ELSE @]
    BY DEF connect
<1> HIDE DEF h, g
<1>5. h.queue = n.queue
    BY <1>1, <1>2
<1>6. m = [agents |-> h.agents, ports |-> h.ports, queue |-> q,
           next_id |-> h.next_id, free_list |-> h.free_list,
           redirects |-> Redirected(n, a, b), shadow |-> h.shadow,
           protected |-> h.protected, policy |-> h.policy, root |-> h.root]
    <2> HIDE DEF m
    <2>1. h = [agents |-> h.agents, ports |-> h.ports, queue |-> h.queue,
           next_id |-> h.next_id, free_list |-> h.free_list,
           redirects |-> h.redirects, shadow |-> h.shadow,
           protected |-> h.protected, policy |-> h.policy, root |-> h.root]
        BY <1>2 DEF NetType
    <2> QED
        BY <1>4, <1>5, <2>1
<1> HIDE DEF q, m
<1>7. NetType(m)
    BY <1>2, <1>3, <1>6 DEF NetType
<1>8. \A s : Tgt(m, s) = Tgt(h, s)
    BY <1>6 DEF Tgt
<1>9. SameArena(m, n)
    BY <1>1, <1>2, <1>6 DEF SameArena
<1>10. m.queue = q /\ m.redirects = Redirected(n, a, b)
    BY <1>6
<1>11. \A s \in AgentRefs :
           Tgt(m, s) = IF s = b THEN a ELSE IF s = a THEN b ELSE Tgt(n, s)
    BY <1>1, <1>2, <1>8
<1> QED
    BY <1>7, <1>9, <1>10, <1>11 DEF m, q

(* The redirects of the FreePorts K are the same in m and n.               *)
RelaysKept(K, m, n) ==
    \A k \in K : /\ k \in DOMAIN m.redirects <=> k \in DOMAIN n.redirects
                 /\ k \in DOMAIN n.redirects => m.redirects[k] = n.redirects[k]

(* remove_agent blanks the ports of the agent and those wired to them.     *)
Emptied(m, n, id) ==
    \A s \in AgentRefs :
        Tgt(m, s) = IF s[2] = id \/ (Tgt(n, s) \in AgentRefs /\ Tgt(n, s)[2] = id)
                    THEN DISCONNECTED ELSE Tgt(n, s)

(* remove_agent empties a slot and frees what was wired to it; its id      *)
(* goes to the free list unless the border shadow holds it.                *)
LEMMA RemoveAgent ==
    ASSUME NEW n, NetType(n), NEW id \in Live(n)
    PROVE  LET m == remove_agent(n, id)
           IN  /\ NetType(m)
               /\ m.agents = [n.agents EXCEPT ![id] = None]
               /\ m.next_id = n.next_id
               /\ m.shadow = n.shadow
               /\ m.protected = n.protected
               /\ m.policy = n.policy
               /\ m.root = n.root
               /\ m.queue = n.queue
               /\ m.free_list = IF id \in n.shadow THEN n.free_list
                                ELSE Append(n.free_list, id)
               /\ \A K : id \notin K \cap DOMAIN n.redirects => RelaysKept(K, m, n)
               /\ \A D : Dangling(n, D) => Emptied(m, n, id)
<1> DEFINE d0 == disconnect(n, AgentPort(id, 0))
           d1 == disconnect(d0, AgentPort(id, 1))
           d2 == disconnect(d1, AgentPort(id, 2))
           d  == IF arity(n.agents[id]) = 0 THEN d0 ELSE d2
           m  == remove_agent(n, id)
<1>1. id \in AgentIds /\ \A p \in {0, 1, 2} : p \in PortIds
    BY DEF Live, PortIds
<1>2. \A p \in {0, 1, 2} : AgentPort(id, p) \in AgentRefs
    BY <1>1, RefForms
<1>3. /\ NetType(d0) /\ SameArena(d0, n) /\ d0.queue = n.queue
      /\ \A s \in AgentRefs :
             Tgt(d0, s) = IF s = AgentPort(id, 0) \/ s = Tgt(n, AgentPort(id, 0))
                          THEN DISCONNECTED ELSE Tgt(n, s)
    BY <1>2, Disconnect
<1>4. /\ NetType(d1) /\ SameArena(d1, d0) /\ d1.queue = d0.queue
      /\ \A s \in AgentRefs :
             Tgt(d1, s) = IF s = AgentPort(id, 1) \/ s = Tgt(d0, AgentPort(id, 1))
                          THEN DISCONNECTED ELSE Tgt(d0, s)
    <2> HIDE DEF d0
    <2> QED
        BY <1>2, <1>3, Disconnect
<1>5. /\ NetType(d2) /\ SameArena(d2, d1) /\ d2.queue = d1.queue
      /\ \A s \in AgentRefs :
             Tgt(d2, s) = IF s = AgentPort(id, 2) \/ s = Tgt(d1, AgentPort(id, 2))
                          THEN DISCONNECTED ELSE Tgt(d1, s)
    <2> HIDE DEF d1
    <2> QED
        BY <1>2, <1>4, Disconnect
<1>6. m = [d EXCEPT !.agents[id] = None,
                    !.redirects = PurgedRedirects(n, id),
                    !.free_list = IF is_border_protected(n, id) THEN @ ELSE Append(@, id)]
    BY DEF remove_agent
<1> HIDE DEF d0, d1, d2
<1>7. NetType(d) /\ SameArena(d, n) /\ d.queue = n.queue
    BY <1>3, <1>4, <1>5 DEF SameArena
<1> DEFINE fl == IF id \in n.shadow THEN n.free_list ELSE Append(n.free_list, id)
<1>8. m = [agents |-> [n.agents EXCEPT ![id] = None], ports |-> d.ports, queue |-> n.queue,
           next_id |-> n.next_id, free_list |-> fl,
           redirects |-> PurgedRedirects(n, id), shadow |-> n.shadow,
           protected |-> n.protected, policy |-> n.policy, root |-> n.root]
    <2> HIDE DEF m, d
    <2>1. d = [agents |-> n.agents, ports |-> d.ports, queue |-> n.queue,
               next_id |-> n.next_id, free_list |-> n.free_list,
               redirects |-> d.redirects, shadow |-> n.shadow,
               protected |-> n.protected, policy |-> n.policy, root |-> n.root]
        BY <1>7 DEF NetType, SameArena
    <2> QED
        <3> DEFINE ag == [n.agents EXCEPT ![id] = None]
        <3>1. m = [d EXCEPT !.agents = ag,
                            !.redirects = PurgedRedirects(n, id), !.free_list = fl]
            <4>1. d.free_list = n.free_list /\ d.agents = n.agents
                BY <1>7 DEF SameArena
            <4> QED
                BY <1>6, <4>1 DEF is_border_protected
        <3> HIDE DEF fl, ag
        <3>2. m = [agents |-> ag, ports |-> d.ports, queue |-> n.queue,
                   next_id |-> n.next_id, free_list |-> fl,
                   redirects |-> PurgedRedirects(n, id), shadow |-> n.shadow,
                   protected |-> n.protected, policy |-> n.policy, root |-> n.root]
            <4> DEFINE e1 == [d EXCEPT !.agents = ag]
                       e2 == [e1 EXCEPT !.redirects = PurgedRedirects(n, id)]
            <4>1. e1 = [agents |-> ag, ports |-> d.ports, queue |-> n.queue,
                        next_id |-> n.next_id, free_list |-> n.free_list,
                        redirects |-> d.redirects, shadow |-> n.shadow,
                        protected |-> n.protected, policy |-> n.policy, root |-> n.root]
                BY <2>1
            <4>2. m = [e2 EXCEPT !.free_list = fl]
                BY <3>1
            <4> HIDE DEF e1
            <4>3. e2 = [agents |-> ag, ports |-> d.ports, queue |-> n.queue,
                        next_id |-> n.next_id, free_list |-> n.free_list,
                        redirects |-> PurgedRedirects(n, id), shadow |-> n.shadow,
                        protected |-> n.protected, policy |-> n.policy, root |-> n.root]
                BY <4>1
            <4> HIDE DEF e2
            <4> QED
                BY <4>2, <4>3
        <3> QED
            BY <3>2 DEF ag
<1>9. fl \in Seq(AgentIds)
    BY <1>1 DEF NetType
<1> HIDE DEF m, fl
<1>10. NetType(m)
    BY <1>1, <1>7, <1>8, <1>9 DEF NetType
<1>11. ASSUME NEW D, Dangling(n, D)
       PROVE  Emptied(m, n, id)
    <2>1. \A s \in AgentRefs :
              Tgt(n, s) \in AgentRefs => Tgt(n, Tgt(n, s)) = s /\ Tgt(n, s) # s
        BY <1>11 DEF Dangling
    <2>2. \A s : Tgt(m, s) = Tgt(d, s)
        BY <1>8 DEF Tgt
    <2>3. \A s \in AgentRefs : s[2] = id => s \in {AgentPort(id, p) : p \in {0, 1, 2}}
        BY RefForms DEF PortIds
    <2>4. \A p \in {0, 1, 2} : AgentPort(id, p)[2] = id
        BY <1>1, RefForms
    <2>5. CASE arity(n.agents[id]) = 0
        <3>1. \A p \in {1, 2} : ~LiveRef(n, AgentPort(id, p))
            BY <1>1, <2>5, RefForms DEF LiveRef, total_ports
        <3>2. \A p \in {1, 2} : Tgt(n, AgentPort(id, p)) = DISCONNECTED
            BY <1>2, <1>11, <3>1 DEF Dangling
        <3>3. d = d0
            BY <2>5
        <3> SUFFICES ASSUME NEW s \in AgentRefs
                     PROVE  Tgt(d0, s) =
                              IF s[2] = id \/ (Tgt(n, s) \in AgentRefs /\ Tgt(n, s)[2] = id)
                              THEN DISCONNECTED ELSE Tgt(n, s)
            BY <2>2, <3>3 DEF Emptied
        <3>4. CASE s[2] = id
            BY <1>2, <1>3, <2>3, <3>2, <3>4
        <3>5. CASE s[2] # id
            <4>1. Tgt(d0, s) = IF s = Tgt(n, AgentPort(id, 0)) THEN DISCONNECTED ELSE Tgt(n, s)
                BY <1>3, <2>4, <3>5
            <4>2. s = Tgt(n, AgentPort(id, 0)) <=> Tgt(n, s) = AgentPort(id, 0)
                BY <1>2, <2>1, RefForms
            <4>3. (Tgt(n, s) \in AgentRefs /\ Tgt(n, s)[2] = id) <=> Tgt(n, s) = AgentPort(id, 0)
                BY <1>2, <2>1, <2>3, <2>4, <3>2, RefForms
            <4> QED
                BY <3>5, <4>1, <4>2, <4>3
        <3> QED
            BY <3>4, <3>5
    <2>6. CASE arity(n.agents[id]) # 0
        <3>1. d = d2
            BY <2>6
        <3> SUFFICES ASSUME NEW s \in AgentRefs
                     PROVE  Tgt(d2, s) =
                              IF s[2] = id \/ (Tgt(n, s) \in AgentRefs /\ Tgt(n, s)[2] = id)
                              THEN DISCONNECTED ELSE Tgt(n, s)
            BY <2>2, <3>1 DEF Emptied
        <3> DEFINE P(p) == AgentPort(id, p)
        <3>2. P(0) # P(1) /\ P(0) # P(2) /\ P(1) # P(2)
            BY DEF AgentPort
        <3>3. CASE s[2] = id
            <4>1. s = P(0) \/ s = P(1) \/ s = P(2)
                BY <2>3, <3>3
            <4> QED
                BY <1>2, <1>3, <1>4, <1>5, <3>2, <3>3, <4>1
        <3>4. CASE s[2] # id
            <4>1. s # P(0) /\ s # P(1) /\ s # P(2)
                BY <2>4, <3>4
            <4>2. \A p \in {0, 1, 2} : s = Tgt(n, P(p)) <=> Tgt(n, s) = P(p)
                BY <1>2, <2>1, RefForms
            <4>3. (Tgt(n, s) \in AgentRefs /\ Tgt(n, s)[2] = id) <=>
                  \E p \in {0, 1, 2} : s = Tgt(n, P(p))
                BY <1>2, <2>3, <2>4, <4>2
            <4>4. s = Tgt(d0, P(1)) <=> s = Tgt(n, P(1))
                BY <1>2, <1>3, <2>1, <3>2, <4>1, RefForms
            <4>5. s = Tgt(d1, P(2)) <=> s = Tgt(n, P(2))
                BY <1>2, <1>3, <1>4, <2>1, <3>2, <4>1, RefForms
            <4>6. Tgt(d2, s) = IF s = Tgt(n, P(0)) \/ s = Tgt(n, P(1)) \/ s = Tgt(n, P(2))
                               THEN DISCONNECTED ELSE Tgt(n, s)
                BY <1>3, <1>4, <1>5, <4>1, <4>4, <4>5
            <4> QED
                BY <3>4, <4>3, <4>6
        <3> QED
            BY <3>3, <3>4
    <2> QED
        BY <2>5, <2>6
<1>12. \A D : Dangling(n, D) => Emptied(m, n, id)
    BY <1>11
<1>13. /\ m.agents = [n.agents EXCEPT ![id] = None]
       /\ m.next_id = n.next_id
       /\ m.shadow = n.shadow
       /\ m.protected = n.protected
       /\ m.policy = n.policy
       /\ m.root = n.root
       /\ m.queue = n.queue
       /\ m.free_list = fl
       /\ m.redirects = PurgedRedirects(n, id)
    BY <1>8
<1>14. \A K : id \notin K \cap DOMAIN n.redirects => RelaysKept(K, m, n)
    BY <1>13 DEF PurgedRedirects, RelaysKept
<1> QED
    BY <1>10, <1>12, <1>13, <1>14 DEF m, fl

-----------------------------------------------------------------------------
(* The arena and the free list.                                            *)
LEMMA ArenaKept ==
    ASSUME NEW n, NEW m, Arena(n), NetType(m), SameArena(m, n)
    PROVE  Arena(m)
BY DEF Arena, SameArena, FreeListAccounts, validate_free_list, Live

(* remove_agent keeps the ids accounted for, also when the slot is         *)
(* already empty.                                                          *)
LEMMA ArenaRemove ==
    ASSUME NEW n, Arena(n), NEW id
    PROVE  LET m == remove_agent(n, id)
           IN  /\ Arena(m)
               /\ m.agents = [i \in AgentIds |-> IF i = id THEN None ELSE n.agents[i]]
               /\ m.next_id = n.next_id
               /\ m.root = n.root
               /\ m.queue = n.queue
<1> DEFINE m == remove_agent(n, id)
           f == n.free_list
<1>1. CASE id \notin Live(n)
    <2>1. m = n
        BY <1>1 DEF remove_agent
    <2>2. n.agents = [i \in AgentIds |-> IF i = id THEN None ELSE n.agents[i]]
        BY <1>1 DEF Live, Arena, NetType
    <2> QED
        BY <2>1, <2>2
<1>2. CASE id \in Live(n)
    <2>1. /\ NetType(m)
          /\ m.agents = [n.agents EXCEPT ![id] = None]
          /\ m.next_id = n.next_id
          /\ m.root = n.root
          /\ m.queue = n.queue
          /\ m.shadow = {}
          /\ m.free_list = Append(f, id)
        BY <1>2, RemoveAgent DEF Arena
    <2> HIDE DEF m
    <2>2. id \in AgentIds /\ n.agents[id] # None /\ n.agents \in [AgentIds -> Symbols \cup {None}]
        BY <1>2 DEF Live, Arena, NetType
    <2>3. m.agents = [i \in AgentIds |-> IF i = id THEN None ELSE n.agents[i]]
        BY <2>1, <2>2
    <2>4. f \in Seq(AgentIds) /\ (\A k \in DOMAIN f : n.agents[f[k]] = None)
        BY DEF Arena, FreeListAccounts, validate_free_list, NetType
    <2>5. /\ DOMAIN m.free_list = DOMAIN f \cup {Len(f) + 1}
          /\ m.free_list[Len(f) + 1] = id
          /\ \A k \in DOMAIN f : m.free_list[k] = f[k] /\ k # Len(f) + 1
        BY <2>1, <2>2, <2>4
    <2>6. \A k \in DOMAIN f : f[k] \in AgentIds /\ f[k] # id
        BY <2>2, <2>4
    <2>7. \A k, l \in DOMAIN f : f[k] = f[l] => k = l
        BY DEF Arena, FreeListAccounts, validate_free_list, IsInjective
    <2>8. validate_free_list(m)
        <3>1. \A k, l \in DOMAIN m.free_list : m.free_list[k] = m.free_list[l] => k = l
            BY <2>5, <2>6, <2>7
        <3>2. \A k \in DOMAIN m.free_list : m.agents[m.free_list[k]] = None
            BY <2>2, <2>3, <2>4, <2>5, <2>6
        <3> QED
            BY <3>1, <3>2 DEF validate_free_list, IsInjective
    <2>9. Live(m) = Live(n) \ {id}
        BY <2>2, <2>3 DEF Live
    <2>10. ToSet(m.free_list) = ToSet(f) \cup {id}
        BY <2>5 DEF ToSet
    <2>11. ToSet(m.free_list) \cup Live(m) = 0 .. m.next_id - 1
        BY <1>2, <2>1, <2>9, <2>10 DEF Arena, FreeListAccounts
    <2> QED
        BY <2>1, <2>3, <2>8, <2>11 DEF Arena, FreeListAccounts, m
<1> QED
    BY <1>1, <1>2

(* create_agent pops the free list from its end or leaves it alone.        *)
LEMMA RecycledTop ==
    ASSUME NEW n, Arena(n)
    PROVE  Recycled(n) = 0 \/ (Recycled(n) = Len(n.free_list) /\ Len(n.free_list) # 0)
<1> DEFINE top == Len(n.free_list)
           u == {i \in 1 .. top : ~is_border_protected(n, n.free_list[i])}
<1>1. top \in Nat
    BY DEF Arena, NetType
<1>2. u = 1 .. top
    BY DEF Arena, is_border_protected
<1>3. top # 0 => (CHOOSE i \in 1 .. top : \A j \in 1 .. top : j <= i) = top
    <2> SUFFICES ASSUME top # 0
                 PROVE  (CHOOSE i \in 1 .. top : \A j \in 1 .. top : j <= i) = top
        OBVIOUS
    <2> HIDE DEF top
    <2>1. top \in 1 .. top /\ \A j \in 1 .. top : j <= top
        BY <1>1
    <2>2. \A i \in 1 .. top : (\A j \in 1 .. top : j <= i) => i = top
        BY <1>1
    <2> QED
        BY <2>1, <2>2
<1>4. Recycled(n) = IF top = 0 \/ (n.protected /\ n.policy = "DisableUnderDelta") THEN 0
                    ELSE IF ~(n.protected /\ n.policy = "BorderClean") THEN top
                    ELSE IF u = {} THEN 0
                    ELSE CHOOSE i \in u : \A j \in u : j <= i
    BY DEF Recycled
<1> HIDE DEF top, u
<1> QED
    BY <1>1, <1>2, <1>3, <1>4 DEF top

(* create_agent returns an id that is not live and keeps the ids           *)
(* accounted for.                                                          *)
LEMMA ArenaCreate ==
    ASSUME NEW n, Arena(n), NEW sym \in Symbols, HasRoomFor(n, 1)
    PROVE  LET m == create_agent(n, sym)
               x == NewAgentId(n)
           IN  /\ Arena(m)
               /\ x \in AgentIds
               /\ x \notin Live(n)
               /\ m.agents = [i \in AgentIds |-> IF i = x THEN sym ELSE n.agents[i]]
               /\ m.next_id <= n.next_id + 1
               /\ m.root = n.root
               /\ m.queue = n.queue
               /\ m.redirects = n.redirects
               /\ \A s \in AgentRefs :
                      \/ Tgt(m, s) = Tgt(n, s)
                      \/ s[2] = x /\ Tgt(m, s) = DISCONNECTED
<1> DEFINE m == create_agent(n, sym)
           x == NewAgentId(n)
           f == n.free_list
           top == Len(f)
           ag == [n.agents EXCEPT ![x] = sym]
           slot == [n EXCEPT !.agents[x] = sym]
           blank == [p \in PortIds |-> DISCONNECTED]
<1>1. /\ NetType(n)
      /\ n.agents \in [AgentIds -> Symbols \cup {None}]
      /\ n.ports \in [AgentIds -> [PortIds -> PortRefs]]
      /\ f \in Seq(AgentIds) /\ top \in Nat /\ DOMAIN f = 1 .. top
      /\ n.next_id \in Nat
      /\ \A k, l \in 1 .. top : f[k] = f[l] => k = l
      /\ \A k \in 1 .. top : f[k] \in AgentIds /\ n.agents[f[k]] = None
      /\ ToSet(f) \cup Live(n) = 0 .. n.next_id - 1
      /\ n.shadow = {}
    BY DEF Arena, NetType, FreeListAccounts, validate_free_list, IsInjective
<1>2. slot = [agents |-> ag, ports |-> n.ports, queue |-> n.queue,
              next_id |-> n.next_id, free_list |-> f,
              redirects |-> n.redirects, shadow |-> n.shadow,
              protected |-> n.protected, policy |-> n.policy, root |-> n.root]
    <2>1. n = [agents |-> n.agents, ports |-> n.ports, queue |-> n.queue,
               next_id |-> n.next_id, free_list |-> n.free_list,
               redirects |-> n.redirects, shadow |-> n.shadow,
               protected |-> n.protected, policy |-> n.policy, root |-> n.root]
        BY <1>1 DEF NetType
    <2>2. slot = [n EXCEPT !.agents = ag]
        OBVIOUS
    <2> HIDE DEF x, ag, slot
    <2> QED
        BY <2>1, <2>2
<1>3. x \in AgentIds => ag = [i \in AgentIds |-> IF i = x THEN sym ELSE n.agents[i]]
    <2> HIDE DEF x
    <2> QED
        BY <1>1
<1>4. x \in AgentIds => ag \in [AgentIds -> Symbols \cup {None}]
    <2> HIDE DEF x
    <2> QED
        BY <1>1
<1>5. CASE Recycled(n) = 0
    <2>1. x = n.next_id /\ m = [slot EXCEPT !.next_id = @ + 1]
        <3>1. x = n.next_id
            BY <1>5 DEF NewAgentId
        <3>2. m = [slot EXCEPT !.next_id = @ + 1]
            BY <1>5 DEF create_agent
        <3> QED
            BY <3>1, <3>2
    <2>2. x \in AgentIds
        BY <1>1, <2>1, NetAssumption DEF HasRoomFor, AgentIds
    <2>3. x \notin ToSet(f) \cup Live(n)
        BY <1>1, <2>1
    <2> HIDE DEF x, ag, slot, m, f, top
    <2>4. m = [agents |-> ag, ports |-> n.ports, queue |-> n.queue,
               next_id |-> n.next_id + 1, free_list |-> f,
               redirects |-> n.redirects, shadow |-> n.shadow,
               protected |-> n.protected, policy |-> n.policy, root |-> n.root]
        BY <1>2, <2>1
    <2>5. /\ m.agents = ag /\ m.ports = n.ports /\ m.queue = n.queue
          /\ m.next_id = n.next_id + 1 /\ m.free_list = f /\ m.root = n.root
          /\ m.shadow = {}
        BY <1>1, <2>4
    <2>6. m.redirects = n.redirects
        BY <2>4
    <2>7. NetType(m)
        <3>1. m.queue \in Seq(AgentIds \X AgentIds) /\ m.root \in PortRefs
            BY <1>1, <2>5 DEF NetType
        <3> QED
            BY <1>1, <1>4, <2>2, <2>4, <2>5, <3>1 DEF NetType
    <2>8. \A k \in DOMAIN f : f[k] # x
        BY <2>3 DEF ToSet
    <2>9. validate_free_list(m)
        BY <1>1, <1>3, <2>2, <2>5, <2>8 DEF validate_free_list, IsInjective
    <2>10. Live(m) = Live(n) \cup {x}
        BY <1>1, <1>3, <2>2, <2>5 DEF Live, Symbols, None
    <2>11. ToSet(m.free_list) \cup Live(m) = 0 .. m.next_id - 1
        BY <1>1, <2>1, <2>5, <2>10
    <2>12. Arena(m)
        BY <2>5, <2>7, <2>9, <2>11 DEF Arena, FreeListAccounts
    <2>13. \A s \in AgentRefs : Tgt(m, s) = Tgt(n, s)
        BY <2>5 DEF Tgt
    <2>14. m.next_id <= n.next_id + 1
        BY <1>1, <2>5
    <2> QED
        BY <1>3, <2>2, <2>3, <2>5, <2>12, <2>13, <2>14, <2>6 DEF m, x
<1>6. CASE Recycled(n) # 0
    <2>1. Recycled(n) = top /\ top # 0
        BY <1>6, RecycledTop
    <2>2. x = f[top] /\ m = [slot EXCEPT !.free_list = RemoveAt(@, top),
                                         !.ports[x] = blank]
        <3>1. x = f[top]
            BY <1>6, <2>1 DEF NewAgentId
        <3>2. m = [slot EXCEPT !.free_list = RemoveAt(@, Recycled(n)), !.ports[x] = blank]
            BY <1>6 DEF create_agent
        <3> QED
            BY <2>1, <3>1, <3>2
    <2>3. top \in 1 .. top /\ \A k \in 1 .. top : k # top => k \in 1 .. top - 1
        BY <1>1, <2>1
    <2>4. x \in AgentIds /\ x \notin Live(n) /\ n.agents[x] = None
        BY <1>1, <2>2, <2>3 DEF Live
    <2> DEFINE g == RemoveAt(f, top)
    <2>5. /\ g \in Seq(AgentIds)
          /\ DOMAIN g = 1 .. top - 1
          /\ \A k \in 1 .. top - 1 : g[k] = f[k]
        <3> HIDE DEF f
        <3>1. SubSeq(f, 1, top - 1) \in Seq(AgentIds) /\ SubSeq(f, top + 1, top) = <<>>
            BY <1>1
        <3>2. g = SubSeq(f, 1, top - 1) \o SubSeq(f, top + 1, top)
            BY DEF RemoveAt
        <3>3. g = SubSeq(f, 1, top - 1)
            BY <3>1, <3>2
        <3> QED
            BY <1>1, <2>1, <3>1, <3>3
    <2> HIDE DEF x, ag, slot, m, g, f, top, blank
    <2> DEFINE pt == [n.ports EXCEPT ![x] = blank]
    <2>6. m = [agents |-> ag, ports |-> pt, queue |-> n.queue,
               next_id |-> n.next_id, free_list |-> g,
               redirects |-> n.redirects, shadow |-> n.shadow,
               protected |-> n.protected, policy |-> n.policy, root |-> n.root]
        <3> DEFINE e == [slot EXCEPT !.free_list = g]
        <3>1. e = [agents |-> ag, ports |-> n.ports, queue |-> n.queue,
                   next_id |-> n.next_id, free_list |-> g,
                   redirects |-> n.redirects, shadow |-> n.shadow,
                   protected |-> n.protected, policy |-> n.policy, root |-> n.root]
            BY <1>2
        <3>2. m = [e EXCEPT !.ports[x] = blank]
            <4>1. slot.free_list = f
                BY <1>2
            <4> QED
                BY <2>2, <4>1 DEF g
        <3> HIDE DEF e
        <3> QED
            BY <3>1, <3>2
    <2>7. pt \in [AgentIds -> [PortIds -> PortRefs]]
        BY <1>1, <2>4, RefForms DEF blank
    <2> HIDE DEF pt
    <2>8. /\ m.agents = ag /\ m.ports = pt /\ m.queue = n.queue
          /\ m.next_id = n.next_id /\ m.free_list = g /\ m.root = n.root
          /\ m.shadow = {}
        BY <1>1, <2>6
    <2>9. m.redirects = n.redirects
        BY <2>6
    <2>10. NetType(m)
        <3>1. m.queue \in Seq(AgentIds \X AgentIds) /\ m.root \in PortRefs
            BY <1>1, <2>8 DEF NetType
        <3> QED
            BY <1>1, <1>4, <2>4, <2>5, <2>6, <2>7, <2>8, <3>1 DEF NetType
    <2>11. \A k \in 1 .. top - 1 : k \in 1 .. top /\ k # top
        BY <1>1
    <2>12. \A k \in 1 .. top - 1 : g[k] # x /\ g[k] \in AgentIds /\ n.agents[g[k]] = None
        BY <1>1, <2>2, <2>3, <2>5, <2>11
    <2>13. validate_free_list(m)
        <3>1. \A k, l \in DOMAIN g : g[k] = g[l] => k = l
            BY <1>1, <2>5, <2>11
        <3>2. \A k \in DOMAIN g : ag[g[k]] = None
            BY <1>3, <2>4, <2>5, <2>12
        <3> QED
            BY <2>8, <3>1, <3>2 DEF validate_free_list, IsInjective
    <2>14. Live(m) = Live(n) \cup {x}
        BY <1>1, <1>3, <2>4, <2>8 DEF Live, Symbols, None
    <2>15. ToSet(f) = ToSet(g) \cup {x}
        BY <1>1, <2>2, <2>3, <2>5, <2>11 DEF ToSet
    <2>16. ToSet(m.free_list) \cup Live(m) = 0 .. m.next_id - 1
        BY <1>1, <2>8, <2>14, <2>15
    <2>17. Arena(m)
        BY <2>8, <2>10, <2>13, <2>16 DEF Arena, FreeListAccounts
    <2>18. \A s \in AgentRefs : \/ Tgt(m, s) = Tgt(n, s)
                                \/ s[2] = x /\ Tgt(m, s) = DISCONNECTED
        <3> SUFFICES ASSUME NEW s \in AgentRefs
                     PROVE  \/ Tgt(m, s) = Tgt(n, s)
                            \/ s[2] = x /\ Tgt(m, s) = DISCONNECTED
            OBVIOUS
        <3>1. s[2] \in AgentIds /\ s[3] \in PortIds
            BY RefForms
        <3> QED
            BY <1>1, <2>4, <2>8, <3>1 DEF Tgt, pt, blank
    <2>19. m.next_id <= n.next_id + 1
        BY <1>1, <2>8
    <2> QED
        BY <1>3, <2>4, <2>8, <2>17, <2>18, <2>19, <2>9 DEF m, x
<1> QED
    BY <1>5, <1>6

-----------------------------------------------------------------------------
(* The wiring.  An end in D or a FreePort may be wired.                    *)
LooseIn(D, a) == a \in PortRefs /\ a # DISCONNECTED /\ (a \in AgentRefs => a \in D)

Ports(x, sym) == {AgentPort(x, p) : p \in {q \in PortIds : q < total_ports(sym)}}

(* A new agent adds its own ports to those that are wired to nothing.      *)
LEMMA CreateTied ==
    ASSUME NEW n, NEW D, Tied(n, D), NEW sym \in Symbols, HasRoomFor(n, 1)
    PROVE  LET m == create_agent(n, sym)
               x == NewAgentId(n)
           IN  /\ Tied(m, D \cup Ports(x, sym))
               /\ x \in AgentIds
               /\ \A r \in D : r[2] # x
               /\ m.next_id <= n.next_id + 1
               /\ m.redirects = n.redirects
               /\ \A s \in AgentRefs : Tgt(m, s) = Tgt(n, s)
<1> DEFINE m == create_agent(n, sym)
           x == NewAgentId(n)
           E == D \cup Ports(x, sym)
<1>1. /\ Arena(m)
      /\ x \in AgentIds
      /\ x \notin Live(n)
      /\ m.agents = [i \in AgentIds |-> IF i = x THEN sym ELSE n.agents[i]]
      /\ m.next_id <= n.next_id + 1
      /\ m.root = n.root
      /\ m.queue = n.queue
      /\ m.redirects = n.redirects
      /\ \A s \in AgentRefs :
             \/ Tgt(m, s) = Tgt(n, s)
             \/ s[2] = x /\ Tgt(m, s) = DISCONNECTED
    BY ArenaCreate DEF Tied
<1> HIDE DEF m, x
<1>2. Dangling(n, D) /\ Queued(n, {}) /\ n.agents[x] = None
    BY <1>1 DEF Tied, Live
<1>3. \A s \in AgentRefs : s[2] = x => ~LiveRef(n, s)
    BY <1>2 DEF LiveRef
<1>4. \A s \in AgentRefs : Tgt(m, s) = Tgt(n, s)
    BY <1>1, <1>2, <1>3 DEF Dangling
<1>5. \A s \in AgentRefs : LiveRef(m, s) <=> IF s[2] = x THEN s[3] < total_ports(sym)
                                             ELSE LiveRef(n, s)
    <2> SUFFICES ASSUME NEW s \in AgentRefs
                 PROVE  LiveRef(m, s) <=> IF s[2] = x THEN s[3] < total_ports(sym)
                                          ELSE LiveRef(n, s)
        OBVIOUS
    <2>1. s[2] \in AgentIds
        BY RefForms
    <2>2. sym # None
        BY DEF Symbols, None
    <2> QED
        BY <1>1, <2>1, <2>2 DEF LiveRef
<1>6. \A s \in AgentRefs : s \in Ports(x, sym) <=> s[2] = x /\ s[3] < total_ports(sym)
    BY <1>1, RefForms DEF Ports
<1>7. \A r \in D : r[2] # x
    BY <1>2, <1>3 DEF Dangling
<1>8. n.root # DISCONNECTED => n.root \in AgentRefs /\ n.root[2] # x
    BY <1>2, <1>3 DEF Dangling
<1>9. Ports(x, sym) \subseteq AgentRefs
    BY <1>1, RefForms DEF Ports
<1>10. Dangling(m, E)
    <2>1. E \subseteq AgentRefs
        BY <1>2, <1>9 DEF Dangling
    <2>2. \A r \in E : LiveRef(m, r) /\ r # m.root
        <3>1. \A r \in D : LiveRef(m, r) /\ r # m.root
            BY <1>1, <1>2, <1>5, <1>7 DEF Dangling
        <3>2. \A r \in Ports(x, sym) : LiveRef(m, r) /\ r # m.root
            BY <1>1, <1>5, <1>6, <1>8, <1>9, RefForms
        <3> QED
            BY <3>1, <3>2
    <2>3. \A r \in AgentRefs :
              Tgt(m, r) = DISCONNECTED <=> (~LiveRef(m, r) \/ r \in E \/ r = m.root)
        <3> SUFFICES ASSUME NEW r \in AgentRefs
                     PROVE  Tgt(m, r) = DISCONNECTED
                                <=> (~LiveRef(m, r) \/ r \in E \/ r = m.root)
            OBVIOUS
        <3>1. CASE r[2] = x
            BY <1>2, <1>3, <1>4, <1>5, <1>6, <3>1 DEF Dangling
        <3>2. CASE r[2] # x
            BY <1>1, <1>2, <1>4, <1>5, <1>6, <3>2 DEF Dangling
        <3> QED
            BY <3>1, <3>2
    <2>4. \A r \in AgentRefs :
              Tgt(m, r) \in AgentRefs => Tgt(m, Tgt(m, r)) = r /\ Tgt(m, r) # r
        BY <1>2, <1>4 DEF Dangling
    <2>5. m.root # DISCONNECTED =>
              m.root \in AgentRefs /\ m.root[3] = 0 /\ LiveRef(m, m.root)
        BY <1>1, <1>2, <1>5, <1>8 DEF Dangling
    <2> QED
        BY <2>1, <2>2, <2>3, <2>4, <2>5 DEF Dangling
<1>11. Queued(m, {})
    <2>1. 0 \in PortIds
        BY DEF PortIds
    <2>2. \A i \in AgentIds : AgentPort(i, 0) \in AgentRefs
        BY <2>1, RefForms
    <2>3. \A i, j : InQueue(m, i, j) <=> InQueue(n, i, j)
        BY <1>1 DEF InQueue
    <2> QED
        BY <1>2, <1>4, <2>2, <2>3 DEF Queued
<1>12. Tied(m, E)
    BY <1>1, <1>10, <1>11 DEF Tied
<1> QED
    BY <1>1, <1>4, <1>7, <1>12 DEF m, x

(* connect takes its two ends out of the ports that are wired to nothing.  *)
LEMMA ConnectTied ==
    ASSUME NEW n, NEW D, Tied(n, D), NEW a, NEW b, LooseIn(D, a), LooseIn(D, b),
           a \in AgentRefs => a # b
    PROVE  LET m == connect(n, a, b)
           IN  /\ Tied(m, D \ {a, b})
               /\ m.agents = n.agents
               /\ m.next_id = n.next_id
<1> DEFINE m == connect(n, a, b)
           E == D \ {a, b}
<1>1. /\ NetType(m)
      /\ SameArena(m, n)
      /\ m.queue = IF IsPrincipal(a) /\ IsPrincipal(b)
                   THEN Append(n.queue, <<a[2], b[2]>>) ELSE n.queue
      /\ \A s \in AgentRefs :
             Tgt(m, s) = IF s = b THEN a ELSE IF s = a THEN b ELSE Tgt(n, s)
    BY Connect DEF Tied, LooseIn, Arena
<1> HIDE DEF m
<1>2. Arena(m)
    BY <1>1, ArenaKept DEF Tied
<1>3. Dangling(n, D) /\ Queued(n, {})
    BY DEF Tied
<1>4. m.root = n.root /\ \A s : LiveRef(m, s) = LiveRef(n, s)
    BY <1>1 DEF SameArena, LiveRef
<1>5. \A s \in AgentRefs : s # a /\ s # b /\ Tgt(n, s) \in AgentRefs =>
          Tgt(n, s) # a /\ Tgt(n, s) # b
    <2>1. \A s \in AgentRefs, c \in D : Tgt(n, s) = c => FALSE
        BY <1>3, RefForms DEF Dangling
    <2> QED
        BY <2>1 DEF LooseIn
<1>6. Dangling(m, E)
    <2>1. E \subseteq AgentRefs
        BY <1>3 DEF Dangling
    <2>2. \A r \in E : LiveRef(m, r) /\ r # m.root
        BY <1>3, <1>4 DEF Dangling
    <2>3. ASSUME NEW r \in AgentRefs
          PROVE  Tgt(m, r) = DISCONNECTED <=> (~LiveRef(m, r) \/ r \in E \/ r = m.root)
        <3>1. CASE r = a \/ r = b
            <4>1. r \in D
                BY <3>1 DEF LooseIn
            <4>2. LiveRef(m, r) /\ r \notin E /\ r # m.root
                BY <1>3, <1>4, <3>1, <4>1 DEF Dangling
            <4>3. Tgt(m, r) # DISCONNECTED
                BY <1>1, <3>1 DEF LooseIn
            <4> QED
                BY <4>2, <4>3
        <3>2. CASE r # a /\ r # b
            <4>1. Tgt(m, r) = Tgt(n, r) /\ (r \in E <=> r \in D)
                BY <1>1, <3>2
            <4> QED
                BY <1>3, <1>4, <4>1 DEF Dangling
        <3> QED
            BY <3>1, <3>2
    <2>4. ASSUME NEW r \in AgentRefs, Tgt(m, r) \in AgentRefs
          PROVE  Tgt(m, Tgt(m, r)) = r /\ Tgt(m, r) # r
        <3>1. CASE r = a \/ r = b
            BY <1>1, <2>4, <3>1
        <3>2. CASE r # a /\ r # b
            <4>1. Tgt(m, r) = Tgt(n, r)
                BY <1>1, <3>2
            <4>2. Tgt(n, r) # a /\ Tgt(n, r) # b
                BY <1>5, <2>4, <3>2, <4>1
            <4>3. Tgt(m, Tgt(n, r)) = Tgt(n, Tgt(n, r))
                BY <1>1, <2>4, <4>1, <4>2
            <4> QED
                BY <1>3, <2>4, <4>1, <4>3 DEF Dangling
        <3> QED
            BY <3>1, <3>2
    <2>5. m.root # DISCONNECTED =>
              m.root \in AgentRefs /\ m.root[3] = 0 /\ LiveRef(m, m.root)
        BY <1>3, <1>4 DEF Dangling
    <2> QED
        BY <2>1, <2>2, <2>3, <2>4, <2>5 DEF Dangling
<1>7. Queued(m, {})
    <2> SUFFICES ASSUME NEW i \in AgentIds, NEW j \in AgentIds,
                        Tgt(m, AgentPort(i, 0)) = AgentPort(j, 0)
                 PROVE  InQueue(m, i, j)
        BY DEF Queued
    <2>1. 0 \in PortIds
        BY DEF PortIds
    <2>2. AgentPort(i, 0) \in AgentRefs /\ AgentPort(j, 0) \in AgentRefs
        BY <2>1, RefForms
    <2>3. n.queue \in Seq(AgentIds \X AgentIds)
        BY DEF Tied, Arena, NetType
    <2>4. CASE AgentPort(i, 0) \notin {a, b}
        <3>1. InQueue(n, i, j)
            BY <1>1, <1>3, <2>2, <2>4 DEF Queued
        <3>2. PICK k \in DOMAIN n.queue : n.queue[k] = <<i, j>> \/ n.queue[k] = <<j, i>>
            BY <3>1 DEF InQueue
        <3>3. k \in DOMAIN m.queue /\ m.queue[k] = n.queue[k]
            <4>1. CASE IsPrincipal(a) /\ IsPrincipal(b)
                <5>1. a[2] \in AgentIds /\ b[2] \in AgentIds
                    BY <4>1, RefForms DEF IsPrincipal, LooseIn
                <5> QED
                    BY <1>1, <2>3, <3>2, <4>1, <5>1
            <4>2. CASE ~(IsPrincipal(a) /\ IsPrincipal(b))
                BY <1>1, <3>2, <4>2
            <4> QED
                BY <4>1, <4>2
        <3> QED
            BY <3>2, <3>3 DEF InQueue
    <2>5. CASE AgentPort(i, 0) \in {a, b}
        <3>1. \/ a = AgentPort(i, 0) /\ b = AgentPort(j, 0)
              \/ b = AgentPort(i, 0) /\ a = AgentPort(j, 0)
            BY <1>1, <2>2, <2>5
        <3>2. IsPrincipal(a) /\ IsPrincipal(b)
            BY <2>2, <3>1 DEF IsPrincipal, IsAgentPort, AgentPort
        <3>3. \/ a[2] = i /\ b[2] = j
              \/ b[2] = i /\ a[2] = j
            BY <2>1, <3>1, RefForms
        <3>4. m.queue = Append(n.queue, <<a[2], b[2]>>) /\ a[2] \in AgentIds /\ b[2] \in AgentIds
            BY <1>1, <3>2, <3>3
        <3>5. Len(n.queue) + 1 \in DOMAIN m.queue
              /\ m.queue[Len(n.queue) + 1] = <<a[2], b[2]>>
            BY <2>3, <3>4
        <3> QED
            BY <3>3, <3>5 DEF InQueue
    <2> QED
        BY <2>4, <2>5
<1>8. Tied(m, E)
    BY <1>2, <1>6, <1>7 DEF Tied
<1> QED
    BY <1>1, <1>8 DEF SameArena, m

(* link leaves the ids as they are, also where it skips a removed agent.   *)
LEMMA LinkArena ==
    ASSUME NEW n, Arena(n), NEW a \in PortRefs, NEW b \in PortRefs
    PROVE  Arena(link(n, a, b)) /\ link(n, a, b).next_id = n.next_id
<1>1. NetType(connect(n, a, b)) /\ SameArena(connect(n, a, b), n)
    BY Connect DEF Arena
<1>2. Arena(connect(n, a, b)) /\ connect(n, a, b).next_id = n.next_id
    BY <1>1, ArenaKept DEF SameArena
<1> QED
    BY <1>2 DEF link

(* link leaves the wire alone when one of its ends went with the pair.     *)
LEMMA LinkSkips ==
    ASSUME NEW n, NEW a, NEW b,
           \/ a \in AgentRefs /\ n.agents[a[2]] = None
           \/ b \in AgentRefs /\ n.agents[b[2]] = None
    PROVE  link(n, a, b) = n
<1>1. \A r \in AgentRefs : IsAgentPort(r)
    BY DEF AgentRefs, IsAgentPort
<1> QED
    BY <1>1 DEF link, IsRemoved

(* The ports outside of S that are wired to an agent of S.                 *)
Neighbours(n, S) ==
    {r \in AgentRefs : r[2] \notin S /\ Tgt(n, r) \in AgentRefs /\ Tgt(n, r)[2] \in S}

(* remove_agent leaves the neighbours of the agent wired to nothing.       *)
LEMMA RemoveDangling ==
    ASSUME NEW n, NEW D, Arena(n), Dangling(n, D), NEW id \in Live(n),
           n.root # AgentPort(id, 0)
    PROVE  LET m == remove_agent(n, id)
           IN  /\ Arena(m)
               /\ Dangling(m, {r \in D : r[2] # id} \cup Neighbours(n, {id}))
               /\ m.agents = [i \in AgentIds |-> IF i = id THEN None ELSE n.agents[i]]
               /\ m.next_id = n.next_id
               /\ m.root = n.root
               /\ m.queue = n.queue
               /\ \A K : id \notin K \cap DOMAIN n.redirects => RelaysKept(K, m, n)
               /\ Emptied(m, n, id)
<1> DEFINE m == remove_agent(n, id)
           E == {r \in D : r[2] # id} \cup Neighbours(n, {id})
<1>1. /\ Arena(m)
      /\ m.agents = [i \in AgentIds |-> IF i = id THEN None ELSE n.agents[i]]
      /\ m.next_id = n.next_id
      /\ m.root = n.root
      /\ m.queue = n.queue
    BY ArenaRemove
<1>2. Emptied(m, n, id) /\ \A K : id \notin K \cap DOMAIN n.redirects => RelaysKept(K, m, n)
    BY RemoveAgent DEF Arena
<1> HIDE DEF m
<1>3. id \in AgentIds
    BY DEF Live
<1>4. \A s \in AgentRefs : LiveRef(m, s) <=> s[2] # id /\ LiveRef(n, s)
    <2> SUFFICES ASSUME NEW s \in AgentRefs
                 PROVE  LiveRef(m, s) <=> s[2] # id /\ LiveRef(n, s)
        OBVIOUS
    <2>1. s[2] \in AgentIds
        BY RefForms
    <2> QED
        BY <1>1, <2>1 DEF LiveRef
<1>5. n.root # DISCONNECTED => n.root[2] # id
    BY RefForms DEF Dangling
<1>6. Neighbours(n, {id}) \subseteq AgentRefs
      /\ \A r \in Neighbours(n, {id}) : r[2] # id /\ Tgt(n, r) \in AgentRefs /\ Tgt(n, r)[2] = id
    BY DEF Neighbours
<1>7. \A r \in AgentRefs : Tgt(n, r) \in AgentRefs => LiveRef(n, r) /\ r # n.root
    BY RefForms DEF Dangling
<1>8. E \subseteq AgentRefs
    BY <1>6 DEF Dangling
<1>9. \A r \in E : LiveRef(m, r) /\ r # m.root
    BY <1>1, <1>4, <1>6, <1>7, <1>8 DEF Dangling
<1>10. ASSUME NEW r \in AgentRefs
       PROVE  Tgt(m, r) = DISCONNECTED <=> (~LiveRef(m, r) \/ r \in E \/ r = m.root)
    <2>1. CASE r[2] = id
        BY <1>2, <1>4, <2>1 DEF Emptied
    <2>2. CASE r[2] # id /\ Tgt(n, r) \in AgentRefs /\ Tgt(n, r)[2] = id
        BY <1>2, <2>2 DEF Emptied, Neighbours
    <2>3. CASE r[2] # id /\ ~(Tgt(n, r) \in AgentRefs /\ Tgt(n, r)[2] = id)
        <3>1. Tgt(m, r) = Tgt(n, r)
            BY <1>2, <2>3 DEF Emptied
        <3>2. r \in E <=> r \in D
            BY <2>3, <1>6
        <3> QED
            BY <1>1, <1>4, <2>3, <3>1, <3>2 DEF Dangling
    <2> QED
        BY <2>1, <2>2, <2>3
<1>11. ASSUME NEW r \in AgentRefs, Tgt(m, r) \in AgentRefs
       PROVE  Tgt(m, Tgt(m, r)) = r /\ Tgt(m, r) # r
    <2>1. r[2] # id /\ Tgt(n, r)[2] # id /\ Tgt(m, r) = Tgt(n, r)
        BY <1>2, <1>11, RefForms DEF Emptied
    <2>2. Tgt(n, Tgt(n, r)) = r /\ Tgt(n, r) # r
        BY <1>11, <2>1 DEF Dangling
    <2>3. Tgt(m, Tgt(n, r)) = Tgt(n, Tgt(n, r))
        BY <1>2, <1>11, <2>1, <2>2 DEF Emptied
    <2> QED
        BY <2>1, <2>2, <2>3
<1>12. m.root # DISCONNECTED => m.root \in AgentRefs /\ m.root[3] = 0 /\ LiveRef(m, m.root)
    BY <1>1, <1>4, <1>5 DEF Dangling
<1>13. Dangling(m, E)
    BY <1>8, <1>9, <1>10, <1>11, <1>12 DEF Dangling
<1> QED
    BY <1>1, <1>2, <1>13 DEF m

(* Removing an active pair leaves the neighbours of the pair wired to      *)
(* nothing; the pair itself needs no place in the queue any more.          *)
LEMMA RemovePairTied ==
    ASSUME NEW n, Arena(n), Dangling(n, {}), NEW a \in Live(n), NEW b \in Live(n),
           Queued(n, {a, b}),
           Tgt(n, AgentPort(a, 0)) = AgentPort(b, 0)
    PROVE  LET m == remove_agent(remove_agent(n, a), b)
           IN  /\ Tied(m, Neighbours(n, {a, b}))
               /\ m.agents[a] = None
               /\ m.agents[b] = None
               /\ m.next_id = n.next_id
               /\ \A K : {a, b} \cap K \cap DOMAIN n.redirects = {} => RelaysKept(K, m, n)
               /\ \A s \in AgentRefs :
                      Tgt(m, s) = IF \/ s[2] \in {a, b}
                                     \/ Tgt(n, s) \in AgentRefs /\ Tgt(n, s)[2] \in {a, b}
                                  THEN DISCONNECTED ELSE Tgt(n, s)
<1> DEFINE h == remove_agent(n, a)
           m == remove_agent(h, b)
<1>1. /\ a \in AgentIds /\ b \in AgentIds /\ 0 \in PortIds
      /\ n.agents[a] # None /\ n.agents[b] # None
    BY DEF Live, PortIds
<1>2. AgentPort(a, 0) \in AgentRefs /\ AgentPort(b, 0) \in AgentRefs
      /\ AgentPort(a, 0)[2] = a /\ AgentPort(b, 0)[2] = b
    BY <1>1, RefForms
<1>3. Tgt(n, AgentPort(b, 0)) = AgentPort(a, 0) /\ a # b
    BY <1>2 DEF Dangling
<1>4. n.root # AgentPort(a, 0) /\ n.root # AgentPort(b, 0)
    BY <1>2, <1>3, RefForms DEF Dangling
<1>5. /\ Arena(h)
      /\ Dangling(h, {r \in {} : r[2] # a} \cup Neighbours(n, {a}))
      /\ h.agents = [i \in AgentIds |-> IF i = a THEN None ELSE n.agents[i]]
      /\ h.next_id = n.next_id
      /\ h.root = n.root
      /\ h.queue = n.queue
      /\ \A K : a \notin K \cap DOMAIN n.redirects => RelaysKept(K, h, n)
      /\ Emptied(h, n, a)
    BY <1>4, RemoveDangling
<1> HIDE DEF h
<1>6. Dangling(h, Neighbours(n, {a}))
    <2>1. {r \in {} : r[2] # a} \cup Neighbours(n, {a}) = Neighbours(n, {a})
        OBVIOUS
    <2> QED
        BY <1>5, <2>1
<1>7. b \in Live(h)
    BY <1>1, <1>3, <1>5 DEF Live
<1>8. /\ Arena(m)
      /\ Dangling(m, {r \in Neighbours(n, {a}) : r[2] # b} \cup Neighbours(h, {b}))
      /\ m.agents = [i \in AgentIds |-> IF i = b THEN None ELSE h.agents[i]]
      /\ m.next_id = h.next_id
      /\ m.root = h.root
      /\ m.queue = h.queue
      /\ \A K : b \notin K \cap DOMAIN h.redirects => RelaysKept(K, m, h)
      /\ Emptied(m, h, b)
    BY <1>4, <1>5, <1>6, <1>7, RemoveDangling
<1> HIDE DEF m
<1>9. {r \in Neighbours(n, {a}) : r[2] # b} \cup Neighbours(h, {b}) = Neighbours(n, {a, b})
    <2>1. \A r \in AgentRefs : r \in Neighbours(h, {b}) <=>
              r[2] # b /\ r[2] # a /\ Tgt(n, r) \in AgentRefs /\ Tgt(n, r)[2] = b
        BY <1>3, <1>5, RefForms DEF Neighbours, Emptied
    <2> QED
        BY <2>1 DEF Neighbours
<1>10. Dangling(m, Neighbours(n, {a, b}))
    BY <1>8, <1>9
<1>11. m.agents[a] = None /\ m.agents[b] = None
    BY <1>1, <1>3, <1>5, <1>8
<1>12. Queued(m, {})
    <2> SUFFICES ASSUME NEW i \in AgentIds, NEW j \in AgentIds,
                        Tgt(m, AgentPort(i, 0)) = AgentPort(j, 0)
                 PROVE  InQueue(m, i, j)
        BY DEF Queued
    <2>1. /\ AgentPort(i, 0) \in AgentRefs /\ AgentPort(j, 0) \in AgentRefs
          /\ AgentPort(i, 0)[2] = i /\ AgentPort(j, 0)[2] = j
        BY <1>1, RefForms
    <2>2. Tgt(h, AgentPort(i, 0)) = AgentPort(j, 0) /\ i # b /\ j # b
        BY <1>8, <2>1, RefForms DEF Emptied
    <2>3. Tgt(n, AgentPort(i, 0)) = AgentPort(j, 0) /\ i # a /\ j # a
        BY <1>5, <2>1, <2>2, RefForms DEF Emptied
    <2>4. InQueue(n, i, j)
        BY <2>2, <2>3 DEF Queued
    <2> QED
        BY <1>5, <1>8, <2>4 DEF InQueue
<1>13. Tied(m, Neighbours(n, {a, b}))
    BY <1>8, <1>10, <1>12 DEF Tied
<1>14. \A K : {a, b} \cap K \cap DOMAIN n.redirects = {} => RelaysKept(K, m, n)
    <2> SUFFICES ASSUME NEW K, {a, b} \cap K \cap DOMAIN n.redirects = {}
                 PROVE  RelaysKept(K, m, n)
        OBVIOUS
    <2>1. RelaysKept(K, h, n)
        BY <1>5
    <2>2. RelaysKept(K, m, h)
        BY <1>8, <2>1 DEF RelaysKept
    <2> QED
        BY <2>1, <2>2 DEF RelaysKept
<1>15. \A s \in AgentRefs :
           Tgt(m, s) = IF \/ s[2] \in {a, b}
                          \/ Tgt(n, s) \in AgentRefs /\ Tgt(n, s)[2] \in {a, b}
                       THEN DISCONNECTED ELSE Tgt(n, s)
    BY <1>5, <1>8, RefForms DEF Emptied
<1> QED
    BY <1>5, <1>8, <1>11, <1>13, <1>14, <1>15 DEF m, h

-----------------------------------------------------------------------------
(* The interface.  K are the indices of the FreePorts a proof follows, {}  *)
(* for none; the index of DISCONNECTED is not one of them.                 *)
Apart(K) == \A k \in K : k \in Nat /\ k # U32Max

Faces(K) == {FreePort(k) : k \in K}

Held(n, f) == \E r \in AgentRefs : Tgt(n, r) = f

(* Every FreePort in the net is followed, is the target of at most one     *)
(* port, and lies in D when it is neither held by a port nor relayed by    *)
(* the redirects; two FreePorts that are relayed name one another.         *)
Facing(K, n, D) ==
    /\ \A r \in AgentRefs : Tgt(n, r) \in AgentRefs \cup Faces(K) \cup {DISCONNECTED}
    /\ \A r, s \in AgentRefs : Tgt(n, r) \in Faces(K) /\ Tgt(n, s) = Tgt(n, r) => r = s
    /\ \A f \in Faces(K) : f \in D <=> f[2] \notin DOMAIN n.redirects /\ ~Held(n, f)
    /\ \A f \in Faces(K) : f[2] \in DOMAIN n.redirects =>
           /\ ~Held(n, f)
           /\ n.redirects[f[2]] \in Faces(K)
           /\ n.redirects[f[2]][2] \in DOMAIN n.redirects
           /\ n.redirects[n.redirects[f[2]][2]] = f

Turned(K, n, D) ==
    /\ Apart(K)
    /\ D \subseteq AgentRefs \cup Faces(K)
    /\ K # {} => Facing(K, n, D)

Sound(K, n, D) == Tied(n, D \cap AgentRefs) /\ Turned(K, n, D)

(* A loose end is a dangling port or a FreePort that nothing holds.        *)
Loose(K, D, a) ==
    /\ a \in PortRefs
    /\ a # DISCONNECTED
    /\ a \in AgentRefs \cup Faces(K) => a \in D
    /\ K # {} => a \in AgentRefs \cup Faces(K)

(* The ports and the FreePorts that are wired to an agent of S.            *)
Ends(K, n, S) ==
    Neighbours(n, S)
    \cup {f \in Faces(K) : \E r \in AgentRefs : r[2] \in S /\ Tgt(n, r) = f}

(* The FreePorts that are followed, as port references.                    *)
LEMMA FaceForms ==
    ASSUME NEW K, Apart(K)
    PROVE  /\ \A f \in Faces(K) : /\ f \in PortRefs /\ f \notin AgentRefs /\ f # DISCONNECTED
                                  /\ f[2] \in K /\ f[2] # U32Max
                                  /\ f = FreePort(f[2]) /\ IsFreePort(f)
           /\ \A k \in K : FreePort(k) \in Faces(K) /\ FreePort(k)[2] = k
BY NetAssumption
   DEF Apart, Faces, FreePort, PortRefs, AgentRefs, DISCONNECTED, IsFreePort

(* Without followed FreePorts, a sound net is one that is well tied.       *)
LEMMA NoFaces ==
    ASSUME NEW n
    PROVE  /\ Sound({}, n, {}) <=> Tied(n, {})
           /\ \A K : Sound(K, n, {}) => Tied(n, {})
<1>1. {} \cap AgentRefs = {} /\ Turned({}, n, {})
    BY DEF Turned, Apart
<1> QED
    BY <1>1 DEF Sound

(* A net with the same wires and redirects holds the same FreePorts; the   *)
(* dangling ports of agents do not matter.                                 *)
LEMMA TurnedKept ==
    ASSUME NEW K, NEW n, NEW m, NEW D, NEW E, Turned(K, n, D),
           \A r \in AgentRefs : Tgt(m, r) = Tgt(n, r),
           RelaysKept(K, m, n),
           E \subseteq AgentRefs \cup Faces(K),
           \A f \in Faces(K) : f \in E <=> f \in D
    PROVE  Turned(K, m, E)
<1>1. Apart(K)
    BY DEF Turned
<1>2. \A f : Held(m, f) <=> Held(n, f)
    BY DEF Held
<1>3. ASSUME K # {}
      PROVE  Facing(K, m, E)
    <2>1. Facing(K, n, D)
        BY <1>3 DEF Turned
    <2>2. \A f \in Faces(K) : f[2] \in K
        BY <1>1, FaceForms
    <2>3. \A f \in Faces(K) : f[2] \in DOMAIN m.redirects =>
              /\ ~Held(m, f)
              /\ m.redirects[f[2]] \in Faces(K)
              /\ m.redirects[f[2]][2] \in DOMAIN m.redirects
              /\ m.redirects[m.redirects[f[2]][2]] = f
        BY <1>2, <2>1, <2>2 DEF Facing, RelaysKept
    <2>4. \A f \in Faces(K) : f \in E <=> f[2] \notin DOMAIN m.redirects /\ ~Held(m, f)
        BY <1>2, <2>1, <2>2 DEF Facing, RelaysKept
    <2>5. /\ \A r \in AgentRefs : Tgt(m, r) \in AgentRefs \cup Faces(K) \cup {DISCONNECTED}
          /\ \A r, s \in AgentRefs : Tgt(m, r) \in Faces(K) /\ Tgt(m, s) = Tgt(m, r) => r = s
        BY <2>1 DEF Facing
    <2> QED
        BY <2>3, <2>4, <2>5 DEF Facing
<1> QED
    BY <1>1, <1>3 DEF Turned

(* A new agent adds its own ports to those that are wired to nothing.      *)
LEMMA CreateSound ==
    ASSUME NEW K, NEW n, NEW D, Sound(K, n, D), NEW sym \in Symbols, HasRoomFor(n, 1)
    PROVE  LET m == create_agent(n, sym)
               x == NewAgentId(n)
           IN  /\ Sound(K, m, D \cup Ports(x, sym))
               /\ x \in AgentIds
               /\ \A r \in D \cap AgentRefs : r[2] # x
               /\ m.next_id <= n.next_id + 1
<1> DEFINE m == create_agent(n, sym)
           x == NewAgentId(n)
           A == D \cap AgentRefs
           E == D \cup Ports(x, sym)
<1>1. Tied(n, A) /\ Turned(K, n, D)
    BY DEF Sound
<1>2. /\ Tied(m, A \cup Ports(x, sym))
      /\ x \in AgentIds
      /\ \A r \in A : r[2] # x
      /\ m.next_id <= n.next_id + 1
      /\ m.redirects = n.redirects
      /\ \A s \in AgentRefs : Tgt(m, s) = Tgt(n, s)
    <2> HIDE DEF A
    <2> QED
        BY <1>1, CreateTied
<1> HIDE DEF m, x
<1>3. Ports(x, sym) \subseteq AgentRefs
    BY <1>2, RefForms DEF Ports
<1>4. E \cap AgentRefs = A \cup Ports(x, sym)
    BY <1>3
<1>5. D \subseteq AgentRefs \cup Faces(K) /\ Apart(K)
    BY <1>1 DEF Turned
<1>6. \A r \in D \cap AgentRefs : r[2] # x
    BY <1>2
<1>7. Turned(K, m, E)
    <2>1. \A f \in Faces(K) : f \in E <=> f \in D
        BY <1>3, <1>5, FaceForms
    <2>2. E \subseteq AgentRefs \cup Faces(K)
        BY <1>3, <1>5
    <2>3. RelaysKept(K, m, n)
        BY <1>2 DEF RelaysKept
    <2> HIDE DEF E
    <2> QED
        BY <1>1, <1>2, <2>1, <2>2, <2>3, TurnedKept
<1>8. Sound(K, m, E)
    BY <1>2, <1>4, <1>7 DEF Sound
<1> QED
    BY <1>2, <1>6, <1>8 DEF m, x

(* R are the redirects of n once a and b are connected: two FreePorts name *)
(* one another, and nothing else changes.                                  *)
Relaying(K, n, a, b, R) ==
    /\ a \in AgentRefs \/ b \in AgentRefs => R = n.redirects
    /\ a \in Faces(K) /\ b \in Faces(K) =>
           /\ DOMAIN R = DOMAIN n.redirects \cup {a[2], b[2]}
           /\ R[b[2]] = a
           /\ a # b => R[a[2]] = b
           /\ \A k \in DOMAIN n.redirects \ {a[2], b[2]} : R[k] = n.redirects[k]

(* That is what connect does to the redirects.                             *)
LEMMA RelaysOf ==
    ASSUME NEW K, Apart(K), NEW n, NEW a \in AgentRefs \cup Faces(K),
           NEW b \in AgentRefs \cup Faces(K), NEW R, R = Redirected(n, a, b)
    PROVE  Relaying(K, n, a, b, R)
<1> DEFINE S == Put(n.redirects, a[2], b)
<1>1. CASE a \in AgentRefs \/ b \in AgentRefs
    <2>1. \A r \in AgentRefs : ~IsFreePort(r)
        BY RefForms
    <2>2. R = n.redirects
        BY <1>1, <2>1 DEF Redirected
    <2> QED
        BY <1>1, <2>2, FaceForms DEF Relaying
<1>2. CASE a \in Faces(K) /\ b \in Faces(K)
    <2>1. /\ IsFreePort(a) /\ IsFreePort(b) /\ a[2] # U32Max /\ b[2] # U32Max
          /\ a = FreePort(a[2]) /\ b = FreePort(b[2])
          /\ a \notin AgentRefs /\ b \notin AgentRefs
        BY <1>2, FaceForms
    <2>2. R = Put(S, b[2], a)
        BY <2>1 DEF Redirected
    <2>3. /\ DOMAIN S = DOMAIN n.redirects \cup {a[2]}
          /\ S[a[2]] = b
          /\ \A k \in DOMAIN n.redirects \ {a[2]} : S[k] = n.redirects[k]
        BY DEF Put
    <2> HIDE DEF S
    <2>4. /\ DOMAIN R = DOMAIN S \cup {b[2]}
          /\ R[b[2]] = a
          /\ \A k \in DOMAIN S \ {b[2]} : R[k] = S[k]
        BY <2>2 DEF Put
    <2>5. a # b => a[2] # b[2]
        BY <2>1
    <2>6. a # b => R[a[2]] = b
        BY <2>3, <2>4, <2>5
    <2> QED
        BY <1>2, <2>1, <2>3, <2>4, <2>6 DEF Relaying
<1> QED
    BY <1>1, <1>2

(* connect of two loose ends: a FreePort is then held by the port it is    *)
(* wired to, two FreePorts are relayed.                                    *)
LEMMA ConnectFacing ==
    ASSUME NEW K, Apart(K), NEW n, NEW D, Facing(K, n, D), NEW m,
           NEW a \in AgentRefs \cup Faces(K), NEW b \in AgentRefs \cup Faces(K),
           a \in D, b \in D, a # b,
           \A r \in D \cap AgentRefs : Tgt(n, r) = DISCONNECTED,
           \A s \in AgentRefs :
               Tgt(m, s) = IF s = b THEN a ELSE IF s = a THEN b ELSE Tgt(n, s),
           m.redirects = Redirected(n, a, b)
    PROVE  Facing(K, m, D \ {a, b})
<1> DEFINE E == D \ {a, b}
           Both == a \in Faces(K) /\ b \in Faces(K)
<1>1. \A f \in Faces(K) : /\ f \notin AgentRefs /\ f # DISCONNECTED
                          /\ f = FreePort(f[2]) /\ f[2] \in K
    BY FaceForms
<1>2. \A f \in {a, b} : f \in Faces(K) => f[2] \notin DOMAIN n.redirects /\ ~Held(n, f)
    BY DEF Facing
<1>3. \A r \in {a, b} : r \in AgentRefs => Tgt(n, r) = DISCONNECTED
    OBVIOUS
<1>4. \A r \in AgentRefs : Tgt(m, r) \in AgentRefs \cup Faces(K) \cup {DISCONNECTED}
    BY DEF Facing
<1>5. ASSUME NEW r \in AgentRefs, NEW s \in AgentRefs,
             Tgt(m, r) \in Faces(K), Tgt(m, s) = Tgt(m, r)
      PROVE  r = s
    <2> DEFINE f == Tgt(m, r)
    <2>1. CASE r \in {a, b}
        <3>1. f \in {a, b} /\ f # r
            BY <2>1
        <3>2. ~Held(n, f) /\ f \notin AgentRefs
            BY <1>1, <1>2, <1>5, <3>1
        <3>3. s \in {a, b}
            BY <1>5, <3>2 DEF Held
        <3> QED
            BY <2>1, <3>1, <3>2, <3>3
    <2>2. CASE r \notin {a, b}
        <3>1. Tgt(n, r) = f /\ Held(n, f)
            BY <2>2 DEF Held
        <3>2. f \notin {a, b}
            BY <1>2, <1>5, <3>1
        <3>3. s \notin {a, b}
            BY <1>5, <3>2
        <3>4. Tgt(n, s) = f
            BY <1>5, <3>3
        <3> QED
            BY <1>5, <3>1, <3>4 DEF Facing
    <2> QED
        BY <2>1, <2>2
<1>6. ASSUME NEW f \in Faces(K)
      PROVE  /\ f \in {a, b} => (Held(m, f) <=> ~Both)
             /\ f \notin {a, b} => (Held(m, f) <=> Held(n, f))
    <2>1. CASE f = a
        <3>1. b \in AgentRefs => Tgt(m, b) = f
            BY <2>1
        <3>2. ASSUME NEW r \in AgentRefs, Tgt(m, r) = f
              PROVE  b \in AgentRefs
            <4>1. Tgt(n, r) # f
                BY <1>2, <2>1 DEF Held
            <4> QED
                BY <2>1, <3>2, <4>1
        <3>3. b \in AgentRefs <=> ~Both
            BY <1>1, <2>1
        <3> QED
            BY <2>1, <3>1, <3>2, <3>3 DEF Held
    <2>2. CASE f = b
        <3>1. a \in AgentRefs => Tgt(m, a) = f
            BY <2>2
        <3>2. ASSUME NEW r \in AgentRefs, Tgt(m, r) = f
              PROVE  a \in AgentRefs
            <4>1. Tgt(n, r) # f
                BY <1>2, <2>2 DEF Held
            <4> QED
                BY <2>2, <3>2, <4>1
        <3>3. a \in AgentRefs <=> ~Both
            BY <1>1, <2>2
        <3> QED
            BY <2>2, <3>1, <3>2, <3>3 DEF Held
    <2>3. CASE f \notin {a, b}
        <3>1. \A r \in AgentRefs : Tgt(m, r) = f <=> Tgt(n, r) = f
            BY <1>1, <1>3, <2>3
        <3> QED
            BY <2>3, <3>1 DEF Held
    <2> QED
        BY <2>1, <2>2, <2>3
<1> DEFINE R == m.redirects
<1>7. /\ ~Both => R = n.redirects
      /\ Both => /\ DOMAIN R = DOMAIN n.redirects \cup {a[2], b[2]}
                 /\ R[b[2]] = a
                 /\ R[a[2]] = b
                 /\ \A k \in DOMAIN n.redirects \ {a[2], b[2]} : R[k] = n.redirects[k]
    <2>1. R = Redirected(n, a, b)
        OBVIOUS
    <2>2. ~Both => a \in AgentRefs \/ b \in AgentRefs
        OBVIOUS
    <2> HIDE DEF R
    <2>3. Relaying(K, n, a, b, R)
        BY <2>1, RelaysOf
    <2> QED
        BY <2>2, <2>3 DEF Relaying
<1>8. ASSUME NEW f \in Faces(K), f \notin {a, b}
      PROVE  /\ f[2] \in DOMAIN R <=> f[2] \in DOMAIN n.redirects
             /\ f[2] \in DOMAIN n.redirects => R[f[2]] = n.redirects[f[2]]
    <2>1. Both => f[2] # a[2] /\ f[2] # b[2]
        BY <1>1, <1>8
    <2> QED
        BY <1>7, <2>1
<1> HIDE DEF R
<1>9. \A f \in Faces(K) : f \in E <=> f[2] \notin DOMAIN R /\ ~Held(m, f)
    <2> SUFFICES ASSUME NEW f \in Faces(K)
                 PROVE  f \in E <=> f[2] \notin DOMAIN R /\ ~Held(m, f)
        OBVIOUS
    <2>1. CASE f \in {a, b}
        BY <1>6, <1>7, <2>1
    <2>2. CASE f \notin {a, b}
        BY <1>6, <1>8, <2>2 DEF Facing
    <2> QED
        BY <2>1, <2>2
<1>10. ASSUME NEW f \in Faces(K), f[2] \in DOMAIN R
       PROVE  /\ ~Held(m, f)
              /\ R[f[2]] \in Faces(K)
              /\ R[f[2]][2] \in DOMAIN R
              /\ R[R[f[2]][2]] = f
    <2>1. CASE f \in {a, b}
        <3>1. Both
            BY <1>2, <1>7, <1>10, <2>1
        <3> QED
            BY <1>6, <1>7, <2>1, <3>1
    <2>2. CASE f \notin {a, b}
        <3> DEFINE g == R[f[2]]
        <3>1. g = n.redirects[f[2]] /\ f[2] \in DOMAIN n.redirects
            BY <1>8, <1>10, <2>2
        <3>2. /\ ~Held(n, f) /\ g \in Faces(K)
              /\ g[2] \in DOMAIN n.redirects /\ n.redirects[g[2]] = f
            BY <3>1 DEF Facing
        <3> HIDE DEF g
        <3>3. g \notin {a, b}
            BY <1>2, <3>2
        <3>4. g[2] \in DOMAIN R /\ R[g[2]] = f
            BY <1>8, <3>2, <3>3
        <3>5. ~Held(m, f)
            BY <1>6, <2>2, <3>2
        <3> QED
            BY <3>2, <3>4, <3>5 DEF g
    <2> QED
        BY <2>1, <2>2
<1> QED
    BY <1>4, <1>5, <1>9, <1>10 DEF Facing, R

(* connect takes its two ends out of those that are wired to nothing.      *)
LEMMA ConnectSound ==
    ASSUME NEW K, NEW n, NEW D, Sound(K, n, D), NEW a, NEW b,
           Loose(K, D, a), Loose(K, D, b), a \in D => a # b
    PROVE  LET m == connect(n, a, b)
           IN  /\ Sound(K, m, D \ {a, b})
               /\ m.agents = n.agents
               /\ m.next_id = n.next_id
<1> DEFINE m == connect(n, a, b)
           E == D \ {a, b}
           A == D \cap AgentRefs
<1>1. Tied(n, A) /\ Turned(K, n, D)
    BY DEF Sound
<1>2. LooseIn(A, a) /\ LooseIn(A, b) /\ (a \in AgentRefs => a # b)
    BY DEF Loose, LooseIn
<1>3. Tied(m, A \ {a, b}) /\ m.agents = n.agents /\ m.next_id = n.next_id
    <2> HIDE DEF A, m
    <2> QED
        BY <1>1, <1>2, ConnectTied DEF m
<1>4. E \cap AgentRefs = A \ {a, b}
    OBVIOUS
<1>5. Apart(K) /\ E \subseteq AgentRefs \cup Faces(K)
    BY <1>1 DEF Turned
<1>6. ASSUME K # {}
      PROVE  Facing(K, m, E)
    <2>1. Facing(K, n, D)
        BY <1>1, <1>6 DEF Turned
    <2>2. /\ a \in AgentRefs \cup Faces(K) /\ b \in AgentRefs \cup Faces(K)
          /\ a \in D /\ b \in D /\ a # b /\ a \in PortRefs /\ b \in PortRefs
        BY <1>6 DEF Loose
    <2>3. \A r \in A : Tgt(n, r) = DISCONNECTED
        BY <1>1 DEF Tied, Dangling
    <2>4. /\ m.redirects = Redirected(n, a, b)
          /\ \A s \in AgentRefs :
                 Tgt(m, s) = IF s = b THEN a ELSE IF s = a THEN b ELSE Tgt(n, s)
        <3>1. NetType(n)
            BY <1>1 DEF Tied, Arena
        <3>2. a \in PortRefs /\ b \in PortRefs
            BY <2>2
        <3>3. /\ NetType(m)
              /\ SameArena(m, n)
              /\ m.queue = IF IsPrincipal(a) /\ IsPrincipal(b)
                           THEN Append(n.queue, <<a[2], b[2]>>) ELSE n.queue
              /\ m.redirects = Redirected(n, a, b)
              /\ \A s \in AgentRefs :
                     Tgt(m, s) = IF s = b THEN a ELSE IF s = a THEN b ELSE Tgt(n, s)
            BY <3>1, <3>2, Connect
        <3> QED
            BY <3>3
    <2> HIDE DEF m
    <2> QED
        BY <1>5, <2>1, <2>2, <2>3, <2>4, ConnectFacing
<1> HIDE DEF m, A
<1>7. Sound(K, m, E)
    BY <1>3, <1>4, <1>5, <1>6 DEF Sound, Turned
<1> QED
    BY <1>3, <1>7 DEF m

(* link of two ports that are wired to nothing is connect.                 *)
LEMMA LinkSound ==
    ASSUME NEW K, NEW n, NEW D, Sound(K, n, D), NEW a, NEW b,
           Loose(K, D, a), Loose(K, D, b), a \in D => a # b
    PROVE  LET m == link(n, a, b)
           IN  /\ Sound(K, m, D \ {a, b})
               /\ m.agents = n.agents
               /\ m.next_id = n.next_id
<1>1. ASSUME NEW c, Loose(K, D, c)
      PROVE  ~IsRemoved(n, c)
    <2>1. IsAgentPort(c) => c \in D \cap AgentRefs
        BY <1>1, RefForms DEF Loose
    <2>2. Dangling(n, D \cap AgentRefs)
        BY DEF Sound, Tied
    <2> QED
        BY <2>1, <2>2 DEF Dangling, LiveRef, IsRemoved
<1>2. link(n, a, b) = connect(n, a, b)
    BY <1>1 DEF link
<1> QED
    BY <1>2, ConnectSound

(* Removing an active pair leaves what it was wired to loose, FreePorts    *)
(* included; no relay that is followed has the number of an agent of it.   *)
LEMMA RemovePair ==
    ASSUME NEW K, NEW n, Arena(n), Dangling(n, {}), Turned(K, n, {}),
           NEW a \in Live(n), NEW b \in Live(n), Queued(n, {a, b}),
           Tgt(n, AgentPort(a, 0)) = AgentPort(b, 0),
           {a, b} \cap K \cap DOMAIN n.redirects = {}
    PROVE  LET m == remove_agent(remove_agent(n, a), b)
           IN  /\ Sound(K, m, Ends(K, n, {a, b}))
               /\ m.agents[a] = None
               /\ m.agents[b] = None
               /\ m.next_id = n.next_id
<1> DEFINE m == remove_agent(remove_agent(n, a), b)
           E == Ends(K, n, {a, b})
<1>1. /\ Tied(m, Neighbours(n, {a, b}))
      /\ m.agents[a] = None
      /\ m.agents[b] = None
      /\ m.next_id = n.next_id
      /\ \A L : {a, b} \cap L \cap DOMAIN n.redirects = {} => RelaysKept(L, m, n)
      /\ \A s \in AgentRefs :
             Tgt(m, s) = IF \/ s[2] \in {a, b}
                            \/ Tgt(n, s) \in AgentRefs /\ Tgt(n, s)[2] \in {a, b}
                         THEN DISCONNECTED ELSE Tgt(n, s)
    BY RemovePairTied
<1> HIDE DEF m
<1>2. Apart(K) /\ a \in AgentIds /\ b \in AgentIds
    BY DEF Turned, Live
<1>3. Neighbours(n, {a, b}) \subseteq AgentRefs
    BY DEF Neighbours
<1>4. E \subseteq AgentRefs \cup Faces(K) /\ E \cap AgentRefs = Neighbours(n, {a, b})
    BY <1>2, <1>3, FaceForms DEF Ends
<1>5. RelaysKept(K, m, n)
    BY <1>1
<1>6. ASSUME K # {}
      PROVE  Facing(K, m, E)
    <2>1. Facing(K, n, {})
        BY <1>6 DEF Turned
    <2>2. \A f \in Faces(K) : f[2] \in K /\ f \notin AgentRefs /\ f # DISCONNECTED
        BY <1>2, FaceForms
    <2>3. \A f \in Faces(K), r \in AgentRefs :
              Tgt(m, r) = f <=> Tgt(n, r) = f /\ r[2] \notin {a, b}
        BY <1>1, <2>2
    <2>4. \A f \in Faces(K) : f \in E <=> \E r \in AgentRefs : r[2] \in {a, b} /\ Tgt(n, r) = f
        BY <1>3, <2>2 DEF Ends
    <2>5. \A f \in Faces(K) : f \in E => Held(n, f) /\ ~Held(m, f)
        <3> SUFFICES ASSUME NEW f \in Faces(K), NEW r \in AgentRefs,
                            r[2] \in {a, b}, Tgt(n, r) = f
                     PROVE  Held(n, f) /\ ~Held(m, f)
            BY <2>4
        <3>1. \A s \in AgentRefs : Tgt(n, s) = f => s = r
            BY <2>1 DEF Facing
        <3> QED
            BY <2>3, <3>1 DEF Held
    <2>6. \A f \in Faces(K) : f \notin E => (Held(m, f) <=> Held(n, f))
        BY <2>3, <2>4 DEF Held
    <2>7. \A r \in AgentRefs : Tgt(m, r) \in AgentRefs \cup Faces(K) \cup {DISCONNECTED}
        BY <1>1, <2>1 DEF Facing
    <2>8. \A r, s \in AgentRefs : Tgt(m, r) \in Faces(K) /\ Tgt(m, s) = Tgt(m, r) => r = s
        BY <2>1, <2>3 DEF Facing
    <2>9. \A f \in Faces(K) :
              /\ f[2] \in DOMAIN m.redirects <=> f[2] \in DOMAIN n.redirects
              /\ f[2] \in DOMAIN n.redirects => m.redirects[f[2]] = n.redirects[f[2]]
        BY <1>5, <2>2 DEF RelaysKept
    <2>10. \A f \in Faces(K) : f \in E <=> f[2] \notin DOMAIN m.redirects /\ ~Held(m, f)
        BY <2>1, <2>5, <2>6, <2>9 DEF Facing
    <2>11. \A f \in Faces(K) : f[2] \in DOMAIN m.redirects =>
               /\ ~Held(m, f)
               /\ m.redirects[f[2]] \in Faces(K)
               /\ m.redirects[f[2]][2] \in DOMAIN m.redirects
               /\ m.redirects[m.redirects[f[2]][2]] = f
        <3> SUFFICES ASSUME NEW f \in Faces(K), f[2] \in DOMAIN m.redirects
                     PROVE  /\ ~Held(m, f)
                            /\ m.redirects[f[2]] \in Faces(K)
                            /\ m.redirects[f[2]][2] \in DOMAIN m.redirects
                            /\ m.redirects[m.redirects[f[2]][2]] = f
            OBVIOUS
        <3> DEFINE g == n.redirects[f[2]]
        <3>1. f[2] \in DOMAIN n.redirects /\ m.redirects[f[2]] = g
            BY <2>9
        <3>2. /\ ~Held(n, f) /\ g \in Faces(K)
              /\ g[2] \in DOMAIN n.redirects /\ n.redirects[g[2]] = f
            BY <2>1, <3>1 DEF Facing
        <3> HIDE DEF g
        <3>3. g[2] \in DOMAIN m.redirects /\ m.redirects[g[2]] = f
            BY <2>9, <3>2
        <3>4. ~Held(m, f)
            BY <2>5, <2>6, <3>2
        <3> QED
            BY <3>1, <3>2, <3>3, <3>4
    <2> QED
        BY <2>7, <2>8, <2>10, <2>11 DEF Facing
<1>7. Sound(K, m, E)
    BY <1>1, <1>2, <1>4, <1>6 DEF Sound, Turned
<1> QED
    BY <1>1, <1>7 DEF m

-----------------------------------------------------------------------------
(* The rules.  ActivePair is what is_valid_redex leaves a rule to work on: *)
(* a sound net but for the queue, which the pair has been popped from.     *)
ActivePair(K, n, a, b) ==
    /\ Arena(n)
    /\ Dangling(n, {})
    /\ Turned(K, n, {})
    /\ a \in Live(n)
    /\ b \in Live(n)
    /\ Queued(n, {a, b})
    /\ Tgt(n, AgentPort(a, 0)) = AgentPort(b, 0)
    /\ {a, b} \cap K \cap DOMAIN n.redirects = {}

AuxOf(a, b) == {AgentPort(i, p) : i \in {a, b}, p \in {1, 2}}

(* Where the auxiliary ports of the pair lead: to one another or to a      *)
(* loose end, and the ports that dangle once the pair is gone are these.   *)
PairFacts(K, n, a, b) ==
    /\ a \in AgentIds /\ b \in AgentIds /\ a # b
    /\ AuxOf(a, b) \subseteq AgentRefs
    /\ \A i \in {a, b}, p \in {1, 2} : Aux(n, i, p) = Tgt(n, AgentPort(i, p))
    /\ \A r \in AuxOf(a, b) : LiveRef(n, r) => Tgt(n, r) # DISCONNECTED
    /\ \A r \in AuxOf(a, b) : ~LiveRef(n, r) => Tgt(n, r) = DISCONNECTED
    /\ \A r \in AuxOf(a, b) :
           \/ Loose(K, Ends(K, n, {a, b}), Tgt(n, r))
           \/ Tgt(n, r) = DISCONNECTED
           \/ Tgt(n, r) \in AuxOf(a, b) \ {r} /\ Tgt(n, Tgt(n, r)) = r
    /\ \A r, s \in AuxOf(a, b) :
           Tgt(n, r) \in Ends(K, n, {a, b}) /\ Tgt(n, r) = Tgt(n, s) => r = s
    /\ \A e \in Ends(K, n, {a, b}) : \E r \in AuxOf(a, b) : e = Tgt(n, r)
    /\ \A e \in Ends(K, n, {a, b}) : e # DISCONNECTED /\ e \notin AuxOf(a, b)

(* The ports of an active pair and where they lead.                        *)
LEMMA PairEnds ==
    ASSUME NEW K, NEW n, NEW a, NEW b, ActivePair(K, n, a, b)
    PROVE  PairFacts(K, n, a, b)
<1>1. /\ Arena(n) /\ Dangling(n, {}) /\ NetType(n)
      /\ Tgt(n, AgentPort(a, 0)) = AgentPort(b, 0)
    BY DEF ActivePair, Arena
<1>2. a \in AgentIds /\ b \in AgentIds /\ \A p \in {0, 1, 2} : p \in PortIds
    BY DEF ActivePair, Live, PortIds
<1>3. \A i \in {a, b}, p \in {0, 1, 2} :
          AgentPort(i, p) \in AgentRefs /\ AgentPort(i, p)[2] = i /\ AgentPort(i, p)[3] = p
    BY <1>2, RefForms
<1>4. Tgt(n, AgentPort(b, 0)) = AgentPort(a, 0) /\ AgentPort(a, 0) # AgentPort(b, 0)
    BY <1>1, <1>3 DEF Dangling
<1>5. a # b
    BY <1>4
<1>6. AuxOf(a, b) \subseteq AgentRefs /\ \A r \in AuxOf(a, b) : r[2] \in {a, b} /\ r[3] # 0
    BY <1>3 DEF AuxOf
<1>7. \A i \in {a, b}, p \in {1, 2} : Aux(n, i, p) = Tgt(n, AgentPort(i, p))
    <2>1. \A r \in AgentRefs : get_target(n, r) = Tgt(n, r)
        BY <1>1, GetTarget, RefForms
    <2> QED
        BY <1>3, <2>1 DEF Aux
<1>8. \A r \in AgentRefs : Tgt(n, r) \in PortRefs
    BY <1>1, GetTarget, RefForms
<1>9. \A r \in AgentRefs : r[3] # 0 => r # n.root
    BY <1>1, RefForms DEF Dangling
<1>10. \A r \in AuxOf(a, b) : LiveRef(n, r) <=> Tgt(n, r) # DISCONNECTED
    BY <1>1, <1>6, <1>9 DEF Dangling
<1>11. \A r \in AgentRefs :
           Tgt(n, r) \in AgentRefs => Tgt(n, Tgt(n, r)) = r /\ Tgt(n, r) # r
    BY <1>1 DEF Dangling
<1>12. \A s \in AgentRefs :
           s[2] \in {a, b} => s \in {AgentPort(a, 0), AgentPort(b, 0)} \cup AuxOf(a, b)
    <2>1. \A s \in AgentRefs : s = AgentPort(s[2], s[3]) /\ s[3] \in {0, 1, 2}
        BY RefForms DEF PortIds
    <2> QED
        BY <2>1 DEF AuxOf
<1>13. ASSUME NEW r \in AuxOf(a, b), Tgt(n, r) \in AgentRefs, Tgt(n, r)[2] \in {a, b}
       PROVE  Tgt(n, r) \in AuxOf(a, b) \ {r} /\ Tgt(n, Tgt(n, r)) = r
    <2>1. Tgt(n, Tgt(n, r)) = r /\ Tgt(n, r) # r
        BY <1>6, <1>11, <1>13
    <2>2. r # AgentPort(a, 0) /\ r # AgentPort(b, 0)
        BY <1>3, <1>6
    <2>3. Tgt(n, r) # AgentPort(a, 0) /\ Tgt(n, r) # AgentPort(b, 0)
        BY <1>1, <1>4, <2>1, <2>2
    <2> QED
        BY <1>12, <1>13, <2>1, <2>3
<1>14. ASSUME NEW r \in AuxOf(a, b), Tgt(n, r) \in AgentRefs, Tgt(n, r)[2] \notin {a, b}
       PROVE  Tgt(n, r) \in Ends(K, n, {a, b})
    BY <1>6, <1>11, <1>14 DEF Ends, Neighbours
<1>15. /\ Apart(K) /\ (K # {} => Facing(K, n, {}))
       /\ \A f \in Faces(K) : f \notin AgentRefs /\ f # DISCONNECTED
    BY FaceForms DEF ActivePair, Turned
<1>16. \A r \in AuxOf(a, b) : Tgt(n, r) \in Faces(K) => Tgt(n, r) \in Ends(K, n, {a, b})
    BY <1>6 DEF Ends
<1>17. ASSUME NEW r \in AuxOf(a, b)
       PROVE  \/ Loose(K, Ends(K, n, {a, b}), Tgt(n, r))
              \/ Tgt(n, r) = DISCONNECTED
              \/ Tgt(n, r) \in AuxOf(a, b) \ {r} /\ Tgt(n, Tgt(n, r)) = r
    <2>1. K # {} => Tgt(n, r) \in AgentRefs \cup Faces(K) \cup {DISCONNECTED}
        BY <1>6, <1>15 DEF Facing
    <2> QED
        BY <1>6, <1>8, <1>13, <1>14, <1>16, <2>1 DEF Loose
<1>18. \A r, s \in AuxOf(a, b) :
           Tgt(n, r) \in Ends(K, n, {a, b}) /\ Tgt(n, r) = Tgt(n, s) => r = s
    <2>1. \A r, s \in AgentRefs : Tgt(n, r) \in AgentRefs /\ Tgt(n, r) = Tgt(n, s) => r = s
        BY <1>11
    <2>2. \A r, s \in AgentRefs : Tgt(n, r) \in Faces(K) /\ Tgt(n, r) = Tgt(n, s) => r = s
        BY <1>15 DEF Facing, Faces
    <2>3. Ends(K, n, {a, b}) \subseteq AgentRefs \cup Faces(K)
        BY DEF Ends, Neighbours
    <2> QED
        BY <1>6, <2>1, <2>2, <2>3
<1>19. ASSUME NEW e \in Ends(K, n, {a, b})
       PROVE  \E r \in AuxOf(a, b) : e = Tgt(n, r)
    <2>1. PICK r \in AgentRefs : r[2] \in {a, b} /\ Tgt(n, r) = e
        BY <1>11, <1>19 DEF Ends, Neighbours
    <2>2. e # AgentPort(a, 0) /\ e # AgentPort(b, 0)
        BY <1>3, <1>19, <1>15 DEF Ends, Neighbours
    <2> QED
        BY <1>1, <1>4, <1>12, <2>1, <2>2
<1>20. \A e \in Ends(K, n, {a, b}) : e # DISCONNECTED /\ e \notin AuxOf(a, b)
    BY <1>6, <1>15, RefForms DEF Ends, Neighbours
<1> QED
    BY <1>2, <1>5, <1>6, <1>7, <1>10, <1>17, <1>18, <1>19, <1>20 DEF PairFacts

(* ERA-ERA leaves a sound net.                                             *)
LEMMA VoidSound ==
    ASSUME NEW K, NEW n, NEW a, NEW b, ActivePair(K, n, a, b),
           n.agents[a] = "Era", n.agents[b] = "Era"
    PROVE  Sound(K, interact_void(n, a, b), {})
<1>0. PairFacts(K, n, a, b)
    BY PairEnds
<1>1. Sound(K, interact_void(n, a, b), Ends(K, n, {a, b}))
    BY RemovePair DEF ActivePair, interact_void
<1>2. a \in AgentIds /\ b \in AgentIds
    BY <1>0 DEF PairFacts
<1>3. \A r \in AuxOf(a, b) : ~LiveRef(n, r)
    <2>1. \A i \in {a, b}, p \in {1, 2} : AgentPort(i, p)[2] = i /\ AgentPort(i, p)[3] = p
        BY DEF AgentPort
    <2>2. total_ports("Era") = 1
        BY DEF total_ports, arity
    <2>3. \A i \in {a, b}, p \in {1, 2} : ~LiveRef(n, AgentPort(i, p))
        BY <2>1, <2>2 DEF LiveRef
    <2> QED
        BY <2>3 DEF AuxOf
<1>4. \A r \in AuxOf(a, b) : Tgt(n, r) = DISCONNECTED
    BY <1>0, <1>3 DEF PairFacts
<1>5. ASSUME NEW e \in Ends(K, n, {a, b})
      PROVE  FALSE
    <2>1. e # DISCONNECTED /\ \E r \in AuxOf(a, b) : e = Tgt(n, r)
        BY <1>0 DEF PairFacts
    <2> QED
        BY <1>4, <2>1
<1> QED
    BY <1>1, <1>5

(* An end that went with the pair.                                         *)
Gone(n, x) == x \in AgentRefs /\ n.agents[x[2]] = None

(* link does its work or has nothing to do.                                *)
LEMMA LinkEither ==
    ASSUME NEW K, NEW n, NEW D, Sound(K, n, D), NEW x, NEW y,
           \/ Gone(n, x) /\ Gone(n, y)
           \/ Loose(K, D, x) /\ Loose(K, D, y) /\ (x \in D => x # y)
    PROVE  LET m == link(n, x, y)
           IN  /\ Sound(K, m, D \ {x, y})
               /\ m.agents = n.agents
               /\ m.next_id = n.next_id
<1>1. CASE Gone(n, x) /\ Gone(n, y)
    <2>1. link(n, x, y) = n
        BY <1>1, LinkSkips DEF Gone
    <2>2. x \notin D /\ y \notin D
        <3>1. Dangling(n, D \cap AgentRefs)
            BY DEF Sound, Tied
        <3> QED
            BY <1>1, <3>1 DEF Gone, Dangling, LiveRef
    <2>3. D \ {x, y} = D
        BY <2>2
    <2> QED
        BY <2>1, <2>3
<1>2. CASE Loose(K, D, x) /\ Loose(K, D, y) /\ (x \in D => x # y)
    BY <1>2, LinkSound
<1> QED
    BY <1>1, <1>2

(* The auxiliary ports A1, A2, B1, B2 of a pair of two binary agents.      *)
PairPorts(K, n, D, A1, A2, B1, B2) ==
    /\ A1 # A2 /\ A1 # B1 /\ A1 # B2 /\ A2 # B1 /\ A2 # B2 /\ B1 # B2
    /\ {A1, A2, B1, B2} \subseteq AgentRefs
    /\ \A r \in {A1, A2, B1, B2} :
           \/ Loose(K, D, Tgt(n, r))
           \/ /\ Tgt(n, r) \in {A1, A2, B1, B2}
              /\ Tgt(n, r) # r
              /\ Tgt(n, Tgt(n, r)) = r
    /\ \A r, s \in {A1, A2, B1, B2} :
           r # s /\ Tgt(n, r) \in D => Tgt(n, r) # Tgt(n, s)
    /\ \A e \in D : \E r \in {A1, A2, B1, B2} : e = Tgt(n, r)
    /\ D \cap {A1, A2, B1, B2} = {}

(* The four auxiliary wires of a pair of binary agents.                    *)
LEMMA BinaryPair ==
    ASSUME NEW K, NEW n, NEW a, NEW b, ActivePair(K, n, a, b),
           n.agents[a] \in {"Con", "Dup"}, n.agents[b] \in {"Con", "Dup"}
    PROVE  /\ PairPorts(K, n, Ends(K, n, {a, b}), AgentPort(a, 1), AgentPort(a, 2),
                                            AgentPort(b, 1), AgentPort(b, 2))
           /\ \A i \in {a, b}, p \in {1, 2} :
                  /\ AgentPort(i, p)[2] = i
                  /\ Aux(n, i, p) = Tgt(n, AgentPort(i, p))
<1> DEFINE A1 == AgentPort(a, 1)
           A2 == AgentPort(a, 2)
           B1 == AgentPort(b, 1)
           B2 == AgentPort(b, 2)
           D == Ends(K, n, {a, b})
<1>1. PairFacts(K, n, a, b)
    BY PairEnds
<1>2. \A i \in {a, b}, p \in {1, 2} : AgentPort(i, p)[2] = i /\ AgentPort(i, p)[3] = p
    BY DEF AgentPort
<1>3. /\ AuxOf(a, b) = {A1, A2, B1, B2}
      /\ A1 # A2 /\ A1 # B1 /\ A1 # B2 /\ A2 # B1 /\ A2 # B2 /\ B1 # B2
    <2>1. a # b
        BY <1>1 DEF PairFacts
    <2> QED
        BY <1>2, <2>1 DEF AuxOf
<1>4. \A r \in AuxOf(a, b) : LiveRef(n, r)
    <2>1. \A i \in {a, b} : total_ports(n.agents[i]) = 3 /\ n.agents[i] # None
        BY DEF total_ports, arity, None
    <2>2. \A i \in {a, b}, p \in {1, 2} : LiveRef(n, AgentPort(i, p))
        BY <1>2, <2>1 DEF LiveRef
    <2> QED
        BY <2>2 DEF AuxOf
<1>5. {A1, A2, B1, B2} \subseteq AgentRefs
    BY <1>1, <1>3 DEF PairFacts
<1>6. \A r \in {A1, A2, B1, B2} :
          \/ Loose(K, D, Tgt(n, r))
          \/ /\ Tgt(n, r) \in {A1, A2, B1, B2}
             /\ Tgt(n, r) # r
             /\ Tgt(n, Tgt(n, r)) = r
    BY <1>1, <1>3, <1>4 DEF PairFacts
<1>7. \A r, s \in {A1, A2, B1, B2} :
          r # s /\ Tgt(n, r) \in D => Tgt(n, r) # Tgt(n, s)
    BY <1>1, <1>3 DEF PairFacts
<1>8. \A e \in D : \E r \in {A1, A2, B1, B2} : e = Tgt(n, r)
    BY <1>1, <1>3 DEF PairFacts
<1>9. D \cap {A1, A2, B1, B2} = {}
    BY <1>1, <1>3 DEF PairFacts
<1>10. \A i \in {a, b}, p \in {1, 2} : Aux(n, i, p) = Tgt(n, AgentPort(i, p))
    BY <1>1 DEF PairFacts
<1> QED
    BY <1>2, <1>3, <1>5, <1>6, <1>7, <1>8, <1>9, <1>10 DEF PairPorts

(* The wires of a pair of two binary agents that are not entangled: those  *)
(* that the rule links are both inside the pair or both outside.           *)
LEMMA AnniSound ==
    ASSUME NEW K, NEW n, NEW a, NEW b, ActivePair(K, n, a, b),
           n.agents[a] = n.agents[b], n.agents[a] \in {"Con", "Dup"},
           ~Entangled(n, a, b)
    PROVE  Sound(K, interact_anni(n, a, b), {})
<1> DEFINE A1 == AgentPort(a, 1)
           A2 == AgentPort(a, 2)
           B1 == AgentPort(b, 1)
           B2 == AgentPort(b, 2)
           a1 == Aux(n, a, 1)
           a2 == Aux(n, a, 2)
           b1 == Aux(n, b, 1)
           b2 == Aux(n, b, 2)
           m == remove_agent(remove_agent(n, a), b)
           D == Ends(K, n, {a, b})
<1>1. Sound(K, m, D) /\ m.agents[a] = None /\ m.agents[b] = None
    BY RemovePair DEF ActivePair
<1>2. /\ PairPorts(K, n, D, A1, A2, B1, B2)
      /\ A1[2] = a /\ A2[2] = a /\ B1[2] = b /\ B2[2] = b
      /\ a1 = Tgt(n, A1) /\ a2 = Tgt(n, A2) /\ b1 = Tgt(n, B1) /\ b2 = Tgt(n, B2)
    <2>1. /\ PairPorts(K, n, Ends(K, n, {a, b}), AgentPort(a, 1), AgentPort(a, 2),
                                           AgentPort(b, 1), AgentPort(b, 2))
          /\ \A i \in {a, b}, p \in {1, 2} :
                 /\ AgentPort(i, p)[2] = i
                 /\ Aux(n, i, p) = Tgt(n, AgentPort(i, p))
        BY BinaryPair
    <2> QED
        BY <2>1
<1>3. a1 = Tgt(n, A1) /\ a2 = Tgt(n, A2) /\ b1 = Tgt(n, B1) /\ b2 = Tgt(n, B2)
    BY <1>2
<1>4. A1 # A2 /\ A1 # B1 /\ A1 # B2 /\ A2 # B1 /\ A2 # B2 /\ B1 # B2
    BY <1>2 DEF PairPorts
<1>6. \A r \in {A1, A2, B1, B2} :
          \/ Loose(K, D, Tgt(n, r))
          \/ /\ Tgt(n, r) \in {A1, A2, B1, B2}
             /\ Tgt(n, r) # r
             /\ Tgt(n, Tgt(n, r)) = r
    BY <1>2 DEF PairPorts
<1>7. \A r \in {A1, A2, B1, B2} : ~Loose(K, D, r) /\ Gone(m, r)
    <2>1. \A r \in {A1, A2, B1, B2} : r \in AgentRefs /\ r \notin D
        BY <1>2 DEF PairPorts
    <2>2. \A r \in {A1, A2, B1, B2} : m.agents[r[2]] = None
        BY <1>1, <1>2
    <2> QED
        BY <2>1, <2>2 DEF Loose, Gone
<1>8. \A r, s \in {A1, A2, B1, B2} :
          r # s /\ Tgt(n, r) \in D => Tgt(n, r) # Tgt(n, s)
    BY <1>2 DEF PairPorts
<1>9. \A e \in D : \E r \in {A1, A2, B1, B2} : e = Tgt(n, r)
    BY <1>2 DEF PairPorts
<1>10. SelfLoop(n, a) <=> a1 = A2 /\ a2 = A1
    BY DEF SelfLoop
<1>11. SelfLoop(n, b) <=> b1 = B2 /\ b2 = B1
    BY DEF SelfLoop
<1>12. D \cap {A1, A2, B1, B2} = {}
    BY <1>2 DEF PairPorts
<1>13. interact_anni(n, a, b) =
           CASE SelfLoop(n, a) /\ SelfLoop(n, b) -> m
             [] SelfLoop(n, b) /\ ~SelfLoop(n, a) -> link(m, a1, a2)
             [] SelfLoop(n, a) /\ ~SelfLoop(n, b) -> link(m, b1, b2)
             [] OTHER -> IF n.agents[a] = "Con"
                         THEN link(link(m, a1, b2), a2, b1)
                         ELSE link(link(m, a1, b1), a2, b2)
    BY DEF interact_anni
<1>14. /\ n.agents[a] = "Con" => (a1 = B1 <=> a2 = B2)
       /\ n.agents[a] = "Dup" => (a1 = B2 <=> a2 = B1)
    BY DEF Entangled, Wired
<1> HIDE DEF A1, A2, B1, B2, a1, a2, b1, b2, m, D
<1>15. CASE SelfLoop(n, a) /\ SelfLoop(n, b)
    <2>1. D = {}
        BY <1>3, <1>9, <1>10, <1>11, <1>12, <1>15
    <2> QED
        BY <1>1, <1>13, <1>15, <2>1
<1>16. CASE SelfLoop(n, b) /\ ~SelfLoop(n, a)
    <2>1. Loose(K, D, a1) /\ Loose(K, D, a2) /\ (a1 \in D => a1 # a2)
        BY <1>3, <1>4, <1>6, <1>8, <1>10, <1>11, <1>16
    <2>2. D \ {a1, a2} = {}
        BY <1>3, <1>9, <1>11, <1>12, <1>16
    <2> QED
        BY <1>1, <1>13, <1>16, <2>1, <2>2, LinkSound
<1>17. CASE SelfLoop(n, a) /\ ~SelfLoop(n, b)
    <2>1. Loose(K, D, b1) /\ Loose(K, D, b2) /\ (b1 \in D => b1 # b2)
        BY <1>3, <1>4, <1>6, <1>8, <1>10, <1>11, <1>17
    <2>2. D \ {b1, b2} = {}
        BY <1>3, <1>9, <1>10, <1>12, <1>17
    <2> QED
        BY <1>1, <1>13, <1>17, <2>1, <2>2, LinkSound
<1>18. CASE ~SelfLoop(n, a) /\ ~SelfLoop(n, b)
    <2>1. a1 \in {B1, B2} \/ Loose(K, D, a1)
        BY <1>3, <1>4, <1>6, <1>10, <1>18
    <2>2. a2 \in {B1, B2} \/ Loose(K, D, a2)
        BY <1>3, <1>4, <1>6, <1>10, <1>18
    <2>3. b1 \in {A1, A2} \/ Loose(K, D, b1)
        BY <1>3, <1>4, <1>6, <1>11, <1>18
    <2>4. b2 \in {A1, A2} \/ Loose(K, D, b2)
        BY <1>3, <1>4, <1>6, <1>11, <1>18
    <2>5. /\ a1 = B1 <=> b1 = A1
          /\ a1 = B2 <=> b2 = A1
          /\ a2 = B1 <=> b1 = A2
          /\ a2 = B2 <=> b2 = A2
        BY <1>3, <1>4, <1>6, <1>7
    <2>6. \A e \in D : e = a1 \/ e = a2 \/ e = b1 \/ e = b2
        BY <1>3, <1>9
    <2>7. /\ a1 \in D => a1 # a2 /\ a1 # b1 /\ a1 # b2
          /\ a2 \in D => a2 # a1 /\ a2 # b1 /\ a2 # b2
        BY <1>3, <1>4, <1>8
    <2>8. CASE n.agents[a] = "Con"
        <3>1. \/ Gone(m, a1) /\ Gone(m, b2)
              \/ Loose(K, D, a1) /\ Loose(K, D, b2)
            BY <1>7, <1>14, <2>1, <2>4, <2>5, <2>8
        <3>2. \/ Gone(m, a2) /\ Gone(m, b1)
              \/ Loose(K, D, a2) /\ Loose(K, D, b1)
            BY <1>7, <1>14, <2>2, <2>3, <2>5, <2>8
        <3> DEFINE h == link(m, a1, b2)
        <3>3. Sound(K, h, D \ {a1, b2}) /\ h.agents = m.agents
            BY <1>1, <2>7, <3>1, LinkEither
        <3> HIDE DEF h
        <3>4. \/ Gone(h, a2) /\ Gone(h, b1)
              \/ Loose(K, D \ {a1, b2}, a2) /\ Loose(K, D \ {a1, b2}, b1)
            <4>1. \A r : Gone(h, r) <=> Gone(m, r)
                BY <3>3 DEF Gone
            <4>2. b1 \in D => b1 # a1 /\ b1 # b2
                BY <1>3, <1>4, <1>8
            <4> QED
                BY <2>7, <3>2, <4>1, <4>2 DEF Loose
        <3>5. Sound(K, link(h, a2, b1), (D \ {a1, b2}) \ {a2, b1})
            BY <2>7, <3>3, <3>4, LinkEither
        <3>6. (D \ {a1, b2}) \ {a2, b1} = {}
            BY <2>6
        <3> QED
            BY <1>13, <1>18, <2>8, <3>5, <3>6 DEF h
    <2>9. CASE n.agents[a] = "Dup"
        <3>1. \/ Gone(m, a1) /\ Gone(m, b1)
              \/ Loose(K, D, a1) /\ Loose(K, D, b1)
            BY <1>7, <1>14, <2>1, <2>3, <2>5, <2>9
        <3>2. \/ Gone(m, a2) /\ Gone(m, b2)
              \/ Loose(K, D, a2) /\ Loose(K, D, b2)
            BY <1>7, <1>14, <2>2, <2>4, <2>5, <2>9
        <3> DEFINE h == link(m, a1, b1)
        <3>3. Sound(K, h, D \ {a1, b1}) /\ h.agents = m.agents
            BY <1>1, <2>7, <3>1, LinkEither
        <3> HIDE DEF h
        <3>4. \/ Gone(h, a2) /\ Gone(h, b2)
              \/ Loose(K, D \ {a1, b1}, a2) /\ Loose(K, D \ {a1, b1}, b2)
            <4>1. \A r : Gone(h, r) <=> Gone(m, r)
                BY <3>3 DEF Gone
            <4>2. b2 \in D => b2 # a1 /\ b2 # b1
                BY <1>3, <1>4, <1>8
            <4> QED
                BY <2>7, <3>2, <4>1, <4>2 DEF Loose
        <3>5. Sound(K, link(h, a2, b2), (D \ {a1, b1}) \ {a2, b2})
            BY <2>7, <3>3, <3>4, LinkEither
        <3>6. (D \ {a1, b1}) \ {a2, b2} = {}
            BY <2>6
        <3> QED
            BY <1>13, <1>18, <2>9, <3>5, <3>6 DEF h
    <2> QED
        BY <2>8, <2>9
<1> QED
    BY <1>15, <1>16, <1>17, <1>18

(* The ports of an agent, one or three.                                    *)
LEMMA PortsOf ==
    ASSUME NEW x \in AgentIds
    PROVE  /\ Ports(x, "Era") = {AgentPort(x, 0)}
           /\ \A sym \in {"Con", "Dup"} :
                  Ports(x, sym) = {AgentPort(x, 0), AgentPort(x, 1), AgentPort(x, 2)}
           /\ \A p \in {0, 1, 2} :
                  AgentPort(x, p) \in AgentRefs /\ AgentPort(x, p) \in PortRefs
                  /\ AgentPort(x, p) # DISCONNECTED
<1>1. total_ports("Era") = 1 /\ total_ports("Con") = 3 /\ total_ports("Dup") = 3
    BY DEF total_ports, arity
<1>2. PortIds = {0, 1, 2}
    BY DEF PortIds
<1>3. {q \in PortIds : q < 1} = {0} /\ {q \in PortIds : q < 3} = {0, 1, 2}
    BY <1>2
<1>4. Ports(x, "Era") = {AgentPort(x, 0)}
    BY <1>1, <1>3 DEF Ports
<1>5. \A sym \in {"Con", "Dup"} :
          Ports(x, sym) = {AgentPort(x, 0), AgentPort(x, 1), AgentPort(x, 2)}
    BY <1>1, <1>3 DEF Ports
<1> QED
    BY <1>2, <1>4, <1>5, RefForms

(* Ports of different agents are different.                                *)
LEMMA NewPorts ==
    \A i, j, p, q : AgentPort(i, p)[2] = i /\ (AgentPort(i, p) = AgentPort(j, q) => i = j /\ p = q)
BY DEF AgentPort

(* The erasers of ERAS: one on each wire.                                  *)
LEMMA ErasersSound ==
    ASSUME NEW K, NEW m, NEW D, Sound(K, m, D), HasRoomFor(m, 2),
           NEW w1, NEW w2, Loose(K, D, w1), Loose(K, D, w2),
           w1 \in D => w1 # w2,
           D \subseteq {w1, w2}
    PROVE  LET e1 == NewAgentId(m)
               m1 == create_agent(m, "Era")
               e2 == NewAgentId(m1)
               m2 == create_agent(m1, "Era")
           IN  Sound(K, link(link(m2, AgentPort(e1, 0), w1), AgentPort(e2, 0), w2), {})
<1> DEFINE e1 == NewAgentId(m)
           m1 == create_agent(m, "Era")
           e2 == NewAgentId(m1)
           m2 == create_agent(m1, "Era")
           E1 == AgentPort(e1, 0)
           E2 == AgentPort(e2, 0)
           m3 == link(m2, E1, w1)
<1>1. HasRoomFor(m, 1) /\ m.next_id \in Nat /\ ArenaSize \in Nat
    BY NetAssumption DEF HasRoomFor, Sound, Tied, Arena, NetType
<1>2. /\ Sound(K, m1, D \cup Ports(e1, "Era")) /\ e1 \in AgentIds
      /\ \A r \in D \cap AgentRefs : r[2] # e1
      /\ m1.next_id <= m.next_id + 1
    BY <1>1, CreateSound DEF Symbols
<1> HIDE DEF e1, m1
<1>3. HasRoomFor(m1, 1)
    <2>1. m1.next_id \in Nat
        BY <1>2 DEF Sound, Tied, Arena, NetType
    <2> QED
        BY <1>1, <1>2, <2>1 DEF HasRoomFor
<1>4. /\ Sound(K, m2, D \cup Ports(e1, "Era") \cup Ports(e2, "Era")) /\ e2 \in AgentIds
      /\ \A r \in (D \cup Ports(e1, "Era")) \cap AgentRefs : r[2] # e2
    BY <1>2, <1>3, CreateSound DEF Symbols
<1> HIDE DEF e2, m2
<1>5. Ports(e1, "Era") = {E1} /\ Ports(e2, "Era") = {E2}
    BY <1>2, <1>4, PortsOf
<1>6. /\ E1 \in AgentRefs /\ E1 \in PortRefs /\ E1 # DISCONNECTED
      /\ E2 \in AgentRefs /\ E2 \in PortRefs /\ E2 # DISCONNECTED
    BY <1>2, <1>4, PortsOf
<1>7. E1[2] = e1 /\ E2[2] = e2
    BY NewPorts
<1> HIDE DEF E1, E2
<1>8. E1 # E2 /\ E1 \notin D /\ E2 \notin D
    BY <1>2, <1>4, <1>5, <1>6, <1>7
<1> DEFINE D2 == D \cup {E1, E2}
<1>9. Sound(K, m2, D2)
    <2>1. D \cup {E1} \cup {E2} = D2
        OBVIOUS
    <2> QED
        BY <1>4, <1>5, <2>1
<1>10. w1 # E1 /\ w1 # E2 /\ w2 # E1 /\ w2 # E2
    BY <1>6, <1>8 DEF Loose
<1>11. Loose(K, D2, E1) /\ Loose(K, D2, w1)
    BY <1>6 DEF Loose
<1>12. Sound(K, m3, D2 \ {E1, w1})
    <2> HIDE DEF D2
    <2> QED
        BY <1>9, <1>10, <1>11, LinkSound
<1> DEFINE D3 == D2 \ {E1, w1}
<1>13. Loose(K, D3, E2) /\ Loose(K, D3, w2)
    BY <1>6, <1>8, <1>10 DEF Loose
<1>14. D3 \ {E2, w2} = {}
    OBVIOUS
<1> HIDE DEF m3, D2, D3
<1>15. Sound(K, link(m3, E2, w2), D3 \ {E2, w2})
    BY <1>10, <1>12, <1>13, LinkSound DEF D3
<1> QED
    BY <1>14, <1>15 DEF m3, E1, E2, m2, e2, m1, e1

(* A commutation that meets a self-loop leaves a sound net.                *)
LEMMA CopySound ==
    ASSUME NEW K, NEW m, NEW D, Sound(K, m, D), HasRoomFor(m, 2), NEW sym \in {"Con", "Dup"},
           NEW w1, NEW w2, Loose(K, D, w1), Loose(K, D, w2),
           w1 \in D => w1 # w2,
           D \subseteq {w1, w2}
    PROVE  Sound(K, CopySelfLoop(m, sym, w1, w2), {})
<1> DEFINE x  == NewAgentId(m)
           m1 == create_agent(m, sym)
           y  == NewAgentId(m1)
           m2 == create_agent(m1, sym)
           X(p) == AgentPort(x, p)
           Y(p) == AgentPort(y, p)
           mx == connect(m2, X(1), X(2))
           my == connect(mx, Y(1), Y(2))
           mw == link(my, X(0), w1)
<1>0. CopySelfLoop(m, sym, w1, w2) = link(mw, Y(0), w2)
    BY DEF CopySelfLoop
<1>1. HasRoomFor(m, 1) /\ m.next_id \in Nat /\ ArenaSize \in Nat
    BY NetAssumption DEF HasRoomFor, Sound, Tied, Arena, NetType
<1>2. /\ Sound(K, m1, D \cup Ports(x, sym)) /\ x \in AgentIds
      /\ \A r \in D \cap AgentRefs : r[2] # x
      /\ m1.next_id <= m.next_id + 1
    BY <1>1, CreateSound DEF Symbols
<1> HIDE DEF x, m1
<1>3. HasRoomFor(m1, 1)
    <2>1. m1.next_id \in Nat
        BY <1>2 DEF Sound, Tied, Arena, NetType
    <2> QED
        BY <1>1, <1>2, <2>1 DEF HasRoomFor
<1>4. /\ Sound(K, m2, D \cup Ports(x, sym) \cup Ports(y, sym)) /\ y \in AgentIds
      /\ \A r \in (D \cup Ports(x, sym)) \cap AgentRefs : r[2] # y
    BY <1>2, <1>3, CreateSound DEF Symbols
<1> HIDE DEF y, m2
<1>5. Ports(x, sym) = {X(0), X(1), X(2)} /\ Ports(y, sym) = {Y(0), Y(1), Y(2)}
    BY <1>2, <1>4, PortsOf
<1>6. \A p \in {0, 1, 2} : /\ X(p) \in AgentRefs /\ X(p) \in PortRefs /\ X(p) # DISCONNECTED
                           /\ Y(p) \in AgentRefs /\ Y(p) \in PortRefs /\ Y(p) # DISCONNECTED
    BY <1>2, <1>4, PortsOf
<1>7. \A p \in {0, 1, 2} : X(p)[2] = x /\ Y(p)[2] = y
    BY NewPorts
<1>8. /\ X(0) # X(1) /\ X(0) # X(2) /\ X(1) # X(2)
      /\ Y(0) # Y(1) /\ Y(0) # Y(2) /\ Y(1) # Y(2)
    BY NewPorts
<1> HIDE DEF X, Y
<1>9. \A p \in {0, 1, 2} : X(p) \notin D /\ Y(p) \notin D /\ (\A q \in {0, 1, 2} : X(p) # Y(q))
    BY <1>2, <1>4, <1>5, <1>6, <1>7
<1> DEFINE D2 == D \cup {X(0), X(1), X(2), Y(0), Y(1), Y(2)}
<1>10. Sound(K, m2, D2)
    <2>1. D \cup {X(0), X(1), X(2)} \cup {Y(0), Y(1), Y(2)} = D2
        OBVIOUS
    <2> QED
        BY <1>4, <1>5, <2>1
<1>11. \A p \in {0, 1, 2} : w1 # X(p) /\ w1 # Y(p) /\ w2 # X(p) /\ w2 # Y(p)
    BY <1>6, <1>9 DEF Loose
<1> DEFINE D3 == D \cup {X(0), Y(0), Y(1), Y(2)}
           D4 == D \cup {X(0), Y(0)}
           D5 == (D \ {w1}) \cup {Y(0)}
<1>12. Sound(K, mx, D3)
    <2>1. Loose(K, D2, X(1)) /\ Loose(K, D2, X(2))
        BY <1>6 DEF Loose
    <2>2. D2 \ {X(1), X(2)} = D3
        BY <1>8, <1>9
    <2> HIDE DEF D2, D3
    <2> QED
        BY <1>8, <1>10, <2>1, <2>2, ConnectSound
<1> HIDE DEF mx
<1>13. Sound(K, my, D4)
    <2>1. Loose(K, D3, Y(1)) /\ Loose(K, D3, Y(2))
        BY <1>6 DEF Loose
    <2>2. D3 \ {Y(1), Y(2)} = D4
        BY <1>8, <1>9
    <2> HIDE DEF D3, D4
    <2> QED
        BY <1>8, <1>12, <2>1, <2>2, ConnectSound
<1> HIDE DEF my
<1>14. Sound(K, mw, D5)
    <2>1. Loose(K, D4, X(0)) /\ Loose(K, D4, w1)
        BY <1>6 DEF Loose
    <2>2. D4 \ {X(0), w1} = D5
        BY <1>9, <1>11
    <2> HIDE DEF D4, D5
    <2> QED
        BY <1>11, <1>13, <2>1, <2>2, LinkSound
<1> HIDE DEF mw
<1>15. Sound(K, link(mw, Y(0), w2), {})
    <2>1. Loose(K, D5, Y(0)) /\ Loose(K, D5, w2)
        BY <1>6 DEF Loose
    <2>2. D5 \ {Y(0), w2} = {}
        OBVIOUS
    <2> HIDE DEF D5
    <2> QED
        BY <1>11, <1>14, <2>1, <2>2, LinkSound
<1> QED
    BY <1>0, <1>15

(* Room for the next agent after one was created.                          *)
LEMMA RoomLeft ==
    ASSUME NEW K, NEW n, NEW m, NEW D, NEW E, Sound(K, n, D), Sound(K, m, E), NEW k \in Nat,
           HasRoomFor(n, k + 1), m.next_id <= n.next_id + 1
    PROVE  HasRoomFor(m, k) /\ HasRoomFor(n, 1)
<1>1. n.next_id \in Nat /\ m.next_id \in Nat /\ ArenaSize \in Nat
    BY NetAssumption DEF Sound, Tied, Arena, NetType
<1> QED
    BY <1>1 DEF HasRoomFor

(* Room for several agents is room for one.                                *)
LEMMA HasRoomForOne ==
    ASSUME NEW K, NEW n, NEW D, Sound(K, n, D), NEW k \in Nat, HasRoomFor(n, k + 1)
    PROVE  HasRoomFor(n, 1)
<1>1. n.next_id \in Nat /\ ArenaSize \in Nat
    BY NetAssumption DEF Sound, Tied, Arena, NetType
<1> QED
    BY <1>1 DEF HasRoomFor

(* The full commutation: four new agents, every port of which is wired.    *)
LEMMA CommutedSound ==
    ASSUME NEW K, NEW m, NEW D, Sound(K, m, D), HasRoomFor(m, 4),
           NEW a1, NEW a2, NEW b1, NEW b2,
           Loose(K, D, a1), Loose(K, D, a2), Loose(K, D, b1), Loose(K, D, b2),
           a1 \in D => a1 # a2 /\ a1 # b1 /\ a1 # b2,
           a2 \in D => a2 # b1 /\ a2 # b2,
           b1 \in D => b1 # b2,
           D \subseteq {a1, a2, b1, b2}
    PROVE  Sound(K, Commuted(m, a1, a2, b1, b2), {})
<1> DEFINE p  == NewAgentId(m)
           m1 == create_agent(m, "Dup")
           q  == NewAgentId(m1)
           m2 == create_agent(m1, "Dup")
           r  == NewAgentId(m2)
           m3 == create_agent(m2, "Con")
           s  == NewAgentId(m3)
           m4 == create_agent(m3, "Con")
           P(k) == AgentPort(p, k)
           Q(k) == AgentPort(q, k)
           R(k) == AgentPort(r, k)
           S(k) == AgentPort(s, k)
           x1 == link(m4, P(0), a1)
           x2 == link(x1, Q(0), a2)
           x3 == link(x2, R(0), b1)
           x4 == link(x3, S(0), b2)
           i1 == connect(x4, P(1), R(1))
           i2 == connect(i1, P(2), S(1))
           i3 == connect(i2, Q(1), R(2))
<1>0. Commuted(m, a1, a2, b1, b2) = connect(i3, Q(2), S(2))
    BY DEF Commuted
<1>1. HasRoomFor(m, 1)
    BY HasRoomForOne
<1>2. /\ Sound(K, m1, D \cup Ports(p, "Dup")) /\ p \in AgentIds
      /\ \A e \in D \cap AgentRefs : e[2] # p
      /\ m1.next_id <= m.next_id + 1
    BY <1>1, CreateSound DEF Symbols
<1> HIDE DEF p, m1
<1>3. HasRoomFor(m1, 3) /\ HasRoomFor(m1, 1)
    <2>1. HasRoomFor(m1, 3)
        BY <1>2, RoomLeft
    <2> QED
        BY <1>2, <2>1, HasRoomForOne
<1> DEFINE D1 == D \cup Ports(p, "Dup")
<1>4. /\ Sound(K, m2, D1 \cup Ports(q, "Dup")) /\ q \in AgentIds
      /\ \A e \in D1 \cap AgentRefs : e[2] # q
      /\ m2.next_id <= m1.next_id + 1
    BY <1>2, <1>3, CreateSound DEF Symbols
<1> HIDE DEF q, m2
<1> DEFINE D2 == D1 \cup Ports(q, "Dup")
<1>5. HasRoomFor(m2, 2) /\ HasRoomFor(m2, 1)
    <2> HIDE DEF D1, D2
    <2>1. HasRoomFor(m2, 2)
        BY <1>2, <1>3, <1>4, RoomLeft DEF D1, D2
    <2> QED
        BY <1>4, <2>1, HasRoomForOne
<1>6. /\ Sound(K, m3, D2 \cup Ports(r, "Con")) /\ r \in AgentIds
      /\ \A e \in D2 \cap AgentRefs : e[2] # r
      /\ m3.next_id <= m2.next_id + 1
    BY <1>4, <1>5, CreateSound DEF Symbols
<1> HIDE DEF r, m3
<1> DEFINE D3 == D2 \cup Ports(r, "Con")
<1>7. HasRoomFor(m3, 1)
    <2> HIDE DEF D2, D3
    <2> QED
        BY <1>4, <1>5, <1>6, RoomLeft DEF D2, D3
<1>8. /\ Sound(K, m4, D3 \cup Ports(s, "Con")) /\ s \in AgentIds
      /\ \A e \in D3 \cap AgentRefs : e[2] # s
    BY <1>6, <1>7, CreateSound DEF Symbols
<1> HIDE DEF s, m4
<1>9. /\ Ports(p, "Dup") = {P(0), P(1), P(2)} /\ Ports(q, "Dup") = {Q(0), Q(1), Q(2)}
      /\ Ports(r, "Con") = {R(0), R(1), R(2)} /\ Ports(s, "Con") = {S(0), S(1), S(2)}
    BY <1>2, <1>4, <1>6, <1>8, PortsOf
<1>10. \A k \in {0, 1, 2} :
           /\ P(k) \in AgentRefs /\ P(k) \in PortRefs /\ P(k) # DISCONNECTED
           /\ Q(k) \in AgentRefs /\ Q(k) \in PortRefs /\ Q(k) # DISCONNECTED
           /\ R(k) \in AgentRefs /\ R(k) \in PortRefs /\ R(k) # DISCONNECTED
           /\ S(k) \in AgentRefs /\ S(k) \in PortRefs /\ S(k) # DISCONNECTED
    BY <1>2, <1>4, <1>6, <1>8, PortsOf
<1>11. \A k \in {0, 1, 2} : P(k)[2] = p /\ Q(k)[2] = q /\ R(k)[2] = r /\ S(k)[2] = s
    BY NewPorts
<1>12. \A k, l \in {0, 1, 2} : k # l => P(k) # P(l) /\ Q(k) # Q(l) /\ R(k) # R(l) /\ S(k) # S(l)
    BY NewPorts
<1> HIDE DEF P, Q, R, S
<1>13. \A k \in {0, 1, 2} : P(k) \notin D /\ Q(k) \notin D /\ R(k) \notin D /\ S(k) \notin D
    BY <1>2, <1>4, <1>6, <1>8, <1>10, <1>11
<1>14. \A k, l \in {0, 1, 2} :
           /\ P(k) # Q(l) /\ P(k) # R(l) /\ P(k) # S(l)
           /\ Q(k) # R(l) /\ Q(k) # S(l) /\ R(k) # S(l)
    BY <1>4, <1>6, <1>8, <1>9, <1>10, <1>11
<1>15. \A w \in {a1, a2, b1, b2}, k \in {0, 1, 2} :
           w # P(k) /\ w # Q(k) /\ w # R(k) /\ w # S(k)
    BY <1>10, <1>13 DEF Loose
<1> DEFINE N == {P(1), P(2), Q(1), Q(2), R(1), R(2), S(1), S(2)}
           F0 == D \cup N \cup {P(0), Q(0), R(0), S(0)}
           F1 == (D \ {a1}) \cup N \cup {Q(0), R(0), S(0)}
           F2 == (D \ {a1, a2}) \cup N \cup {R(0), S(0)}
           F3 == (D \ {a1, a2, b1}) \cup N \cup {S(0)}
           G1 == {P(2), Q(1), Q(2), R(2), S(1), S(2)}
           G2 == {Q(1), Q(2), R(2), S(2)}
           G3 == {Q(2), S(2)}
<1>16. Sound(K, m4, F0)
    <2>1. D3 \cup Ports(s, "Con") = F0
        BY <1>9
    <2> QED
        BY <1>8, <2>1
<1>17. \A w \in {a1, a2, b1, b2} : w \notin N
    BY <1>15
<1>18. \A e \in {P(0), Q(0), R(0), S(0)} : e \notin N
    BY <1>12, <1>14
<1> HIDE DEF N
<1>19. /\ P(0) # Q(0) /\ P(0) # R(0) /\ P(0) # S(0)
       /\ Q(0) # R(0) /\ Q(0) # S(0) /\ R(0) # S(0)
    BY <1>14
<1>20. \A w \in {a1, a2, b1, b2} : w # P(0) /\ w # Q(0) /\ w # R(0) /\ w # S(0)
    BY <1>15
<1>21. P(0) \notin D /\ Q(0) \notin D /\ R(0) \notin D /\ S(0) \notin D
    BY <1>13
<1>22. Sound(K, x1, F1)
    <2>1. Loose(K, F0, P(0)) /\ Loose(K, F0, a1)
        BY <1>10 DEF Loose
    <2>2. F0 \ {P(0), a1} = F1
        BY <1>17, <1>18, <1>19, <1>20, <1>21
    <2> HIDE DEF F0, F1
    <2> QED
        BY <1>16, <1>20, <2>1, <2>2, LinkSound
<1> HIDE DEF x1
<1>23. Sound(K, x2, F2)
    <2>1. Loose(K, F1, Q(0)) /\ Loose(K, F1, a2)
        BY <1>10 DEF Loose
    <2>2. F1 \ {Q(0), a2} = F2
        BY <1>17, <1>18, <1>19, <1>20, <1>21
    <2> HIDE DEF F1, F2
    <2> QED
        BY <1>20, <1>22, <2>1, <2>2, LinkSound
<1> HIDE DEF x2
<1>24. Sound(K, x3, F3)
    <2>1. Loose(K, F2, R(0)) /\ Loose(K, F2, b1)
        BY <1>10 DEF Loose
    <2>2. F2 \ {R(0), b1} = F3
        BY <1>17, <1>18, <1>19, <1>20, <1>21
    <2> HIDE DEF F2, F3
    <2> QED
        BY <1>20, <1>23, <2>1, <2>2, LinkSound
<1> HIDE DEF x3
<1>25. Sound(K, x4, N)
    <2>1. Loose(K, F3, S(0)) /\ Loose(K, F3, b2)
        BY <1>10 DEF Loose
    <2>2. F3 \ {S(0), b2} = N
        BY <1>17, <1>18
    <2> HIDE DEF F3
    <2> QED
        BY <1>20, <1>24, <2>1, <2>2, LinkSound
<1> HIDE DEF x4
<1>26. Sound(K, i1, G1)
    <2>1. Loose(K, N, P(1)) /\ Loose(K, N, R(1)) /\ P(1) # R(1)
        BY <1>10, <1>14 DEF Loose, N
    <2>2. N \ {P(1), R(1)} = G1
        BY <1>12, <1>14 DEF N
    <2> HIDE DEF G1
    <2> QED
        BY <1>25, <2>1, <2>2, ConnectSound
<1> HIDE DEF i1
<1>27. Sound(K, i2, G2)
    <2>1. Loose(K, G1, P(2)) /\ Loose(K, G1, S(1)) /\ P(2) # S(1)
        BY <1>10, <1>14 DEF Loose
    <2>2. G1 \ {P(2), S(1)} = G2
        BY <1>12, <1>14
    <2> HIDE DEF G1, G2
    <2> QED
        BY <1>26, <2>1, <2>2, ConnectSound
<1> HIDE DEF i2
<1>28. Sound(K, i3, G3)
    <2>1. Loose(K, G2, Q(1)) /\ Loose(K, G2, R(2)) /\ Q(1) # R(2)
        BY <1>10, <1>14 DEF Loose
    <2>2. G2 \ {Q(1), R(2)} = G3
        BY <1>12, <1>14
    <2> HIDE DEF G2, G3
    <2> QED
        BY <1>27, <2>1, <2>2, ConnectSound
<1> HIDE DEF i3
<1>29. Sound(K, connect(i3, Q(2), S(2)), {})
    <2>1. Loose(K, G3, Q(2)) /\ Loose(K, G3, S(2)) /\ Q(2) # S(2)
        BY <1>10, <1>14 DEF Loose
    <2>2. G3 \ {Q(2), S(2)} = {}
        OBVIOUS
    <2> HIDE DEF G3
    <2> QED
        BY <1>28, <2>1, <2>2, ConnectSound
<1> QED
    BY <1>0, <1>29

(* An erasure leaves a sound net, self-loop or not.                        *)
LEMMA ErasSound ==
    ASSUME NEW K, NEW n, NEW a, NEW b, ActivePair(K, n, a, b),
           n.agents[a] \in {"Con", "Dup"}, n.agents[b] = "Era", HasRoomFor(n, 2)
    PROVE  Sound(K, interact_eras(n, a, b), {})
<1> DEFINE A1 == AgentPort(a, 1)
           A2 == AgentPort(a, 2)
           w1 == Aux(n, a, 1)
           w2 == Aux(n, a, 2)
           m == remove_agent(remove_agent(n, a), b)
           D == Ends(K, n, {a, b})
<1>1. Sound(K, m, D) /\ m.next_id = n.next_id
    BY RemovePair DEF ActivePair
<1>2. PairFacts(K, n, a, b)
    BY PairEnds
<1>3. \A i \in {a, b}, p \in {1, 2} : AgentPort(i, p)[2] = i /\ AgentPort(i, p)[3] = p
    BY DEF AgentPort
<1>4. w1 = Tgt(n, A1) /\ w2 = Tgt(n, A2) /\ A1 # A2
    <2>1. A1 # A2
        BY <1>3
    <2> QED
        BY <1>2, <2>1 DEF PairFacts
<1>5. A1 \in AuxOf(a, b) /\ A2 \in AuxOf(a, b) /\ LiveRef(n, A1) /\ LiveRef(n, A2)
    <2>1. total_ports(n.agents[a]) = 3 /\ n.agents[a] # None
        BY DEF total_ports, arity, None
    <2> QED
        BY <1>3, <2>1 DEF AuxOf, LiveRef
<1>6. \A r \in AuxOf(a, b) : r = A1 \/ r = A2 \/ Tgt(n, r) = DISCONNECTED
    <2>1. total_ports("Era") = 1
        BY DEF total_ports, arity
    <2>2. \A p \in {1, 2} : ~LiveRef(n, AgentPort(b, p)) /\ AgentPort(b, p) \in AuxOf(a, b)
        BY <1>3, <2>1 DEF AuxOf, LiveRef
    <2>3. \A p \in {1, 2} : Tgt(n, AgentPort(b, p)) = DISCONNECTED
        BY <1>2, <2>2 DEF PairFacts
    <2> QED
        BY <2>3 DEF AuxOf
<1>7. \A e \in D : e = w1 \/ e = w2
    <2>1. \A e \in D : e # DISCONNECTED /\ \E r \in AuxOf(a, b) : e = Tgt(n, r)
        BY <1>2, RefForms DEF PairFacts
    <2> QED
        BY <1>4, <1>6, <2>1
<1>8. A1 \notin D /\ A2 \notin D /\ A1 \in AgentRefs /\ A2 \in AgentRefs
    BY <1>2, <1>3, <1>5 DEF PairFacts
<1>9. \A r \in {A1, A2} : Loose(K, D, Tgt(n, r))
                          \/ (Tgt(n, r) \in {A1, A2} \ {r} /\ Tgt(n, Tgt(n, r)) = r)
    <2> SUFFICES ASSUME NEW r \in {A1, A2}, ~Loose(K, D, Tgt(n, r))
                 PROVE  Tgt(n, r) \in {A1, A2} \ {r} /\ Tgt(n, Tgt(n, r)) = r
        OBVIOUS
    <2>1. Tgt(n, r) \in AuxOf(a, b) \ {r} /\ Tgt(n, Tgt(n, r)) = r
        BY <1>2, <1>5 DEF PairFacts
    <2>2. r # DISCONNECTED
        BY <1>8, RefForms
    <2> QED
        BY <1>6, <2>1, <2>2
<1>10. w1 \in D => w1 # w2
    BY <1>2, <1>4, <1>5 DEF PairFacts
<1>11. SelfLoop(n, a) <=> w1 = A2 /\ w2 = A1
    BY DEF SelfLoop
<1>12. interact_eras(n, a, b) =
           LET e1 == NewAgentId(m)
               m1 == create_agent(m, "Era")
               e2 == NewAgentId(m1)
               m2 == create_agent(m1, "Era")
           IN  IF SelfLoop(n, a) THEN m
               ELSE link(link(m2, AgentPort(e1, 0), w1), AgentPort(e2, 0), w2)
    BY DEF interact_eras
<1> HIDE DEF A1, A2, w1, w2, m, D
<1>13. CASE SelfLoop(n, a)
    <2>1. D = {}
        BY <1>7, <1>8, <1>11, <1>13
    <2> QED
        BY <1>1, <1>12, <1>13, <2>1
<1>14. CASE ~SelfLoop(n, a)
    <2>1. Loose(K, D, w1) /\ Loose(K, D, w2)
        BY <1>4, <1>9, <1>11, <1>14
    <2>2. HasRoomFor(m, 2)
        BY <1>1 DEF HasRoomFor
    <2>3. D \subseteq {w1, w2}
        BY <1>7
    <2> QED
        BY <1>1, <1>10, <1>12, <1>14, <2>1, <2>2, <2>3, ErasersSound
<1> QED
    BY <1>13, <1>14

(* A commutation leaves a sound net unless the pair is entangled.          *)
LEMMA CommSound ==
    ASSUME NEW K, NEW n, NEW a, NEW b, ActivePair(K, n, a, b),
           n.agents[a] = "Con", n.agents[b] = "Dup", ~Entangled(n, a, b),
           HasRoomFor(n, 4)
    PROVE  Sound(K, interact_comm(n, a, b), {})
<1> DEFINE A1 == AgentPort(a, 1)
           A2 == AgentPort(a, 2)
           B1 == AgentPort(b, 1)
           B2 == AgentPort(b, 2)
           a1 == Aux(n, a, 1)
           a2 == Aux(n, a, 2)
           b1 == Aux(n, b, 1)
           b2 == Aux(n, b, 2)
           m == remove_agent(remove_agent(n, a), b)
           D == Ends(K, n, {a, b})
<1>1. Sound(K, m, D) /\ m.next_id = n.next_id
    BY RemovePair DEF ActivePair
<1>2. /\ PairPorts(K, n, D, A1, A2, B1, B2)
      /\ a1 = Tgt(n, A1) /\ a2 = Tgt(n, A2) /\ b1 = Tgt(n, B1) /\ b2 = Tgt(n, B2)
    <2>1. /\ PairPorts(K, n, Ends(K, n, {a, b}), AgentPort(a, 1), AgentPort(a, 2),
                                           AgentPort(b, 1), AgentPort(b, 2))
          /\ \A i \in {a, b}, p \in {1, 2} :
                 /\ AgentPort(i, p)[2] = i
                 /\ Aux(n, i, p) = Tgt(n, AgentPort(i, p))
        BY BinaryPair
    <2> QED
        BY <2>1
<1>3. a1 # B1 /\ a1 # B2 /\ a2 # B1 /\ a2 # B2
    BY DEF Entangled, Wired
<1>4. SelfLoop(n, a) <=> a1 = A2 /\ a2 = A1
    BY DEF SelfLoop
<1>5. SelfLoop(n, b) <=> b1 = B2 /\ b2 = B1
    BY DEF SelfLoop
<1>6. interact_comm(n, a, b) =
           CASE SelfLoop(n, a) /\ SelfLoop(n, b) -> m
             [] SelfLoop(n, a) /\ ~SelfLoop(n, b) -> CopySelfLoop(m, "Con", b1, b2)
             [] SelfLoop(n, b) /\ ~SelfLoop(n, a) -> CopySelfLoop(m, "Dup", a1, a2)
             [] OTHER -> Commuted(m, a1, a2, b1, b2)
    BY DEF interact_comm
<1>7. HasRoomFor(m, 4) /\ HasRoomFor(m, 2)
    <2>1. n.next_id \in Nat /\ ArenaSize \in Nat
        BY NetAssumption DEF ActivePair, Arena, NetType
    <2> QED
        BY <1>1, <2>1 DEF HasRoomFor
<1> HIDE DEF A1, A2, B1, B2, a1, a2, b1, b2, m, D
<1>8. A1 # A2 /\ A1 # B1 /\ A1 # B2 /\ A2 # B1 /\ A2 # B2 /\ B1 # B2
    BY <1>2 DEF PairPorts
<1>9. \A r \in {A1, A2, B1, B2} :
          \/ Loose(K, D, Tgt(n, r))
          \/ /\ Tgt(n, r) \in {A1, A2, B1, B2}
             /\ Tgt(n, r) # r
             /\ Tgt(n, Tgt(n, r)) = r
    BY <1>2 DEF PairPorts
<1>10. SelfLoop(n, a) \/ (Loose(K, D, a1) /\ Loose(K, D, a2))
    BY <1>2, <1>3, <1>4, <1>8, <1>9
<1>11. SelfLoop(n, b) \/ (Loose(K, D, b1) /\ Loose(K, D, b2))
    BY <1>2, <1>3, <1>5, <1>8, <1>9
<1>12. /\ a1 \in D => a1 # a2 /\ a1 # b1 /\ a1 # b2
       /\ a2 \in D => a2 # b1 /\ a2 # b2
       /\ b1 \in D => b1 # b2
    BY <1>2 DEF PairPorts
<1>13. \A e \in D : e \in {a1, a2, b1, b2} /\ e \notin {A1, A2, B1, B2}
    BY <1>2 DEF PairPorts
<1>14. CASE SelfLoop(n, a) /\ SelfLoop(n, b)
    <2>1. D = {}
        BY <1>4, <1>5, <1>13, <1>14
    <2> QED
        BY <1>1, <1>6, <1>14, <2>1
<1>15. CASE SelfLoop(n, a) /\ ~SelfLoop(n, b)
    <2>1. D \subseteq {b1, b2}
        BY <1>4, <1>13, <1>15
    <2>2. interact_comm(n, a, b) = CopySelfLoop(m, "Con", b1, b2)
        BY <1>6, <1>15
    <2> QED
        BY <1>1, <1>7, <1>11, <1>12, <1>15, <2>1, <2>2, CopySound
<1>16. CASE SelfLoop(n, b) /\ ~SelfLoop(n, a)
    <2>1. D \subseteq {a1, a2}
        BY <1>5, <1>13, <1>16
    <2>2. interact_comm(n, a, b) = CopySelfLoop(m, "Dup", a1, a2)
        BY <1>6, <1>16
    <2> QED
        BY <1>1, <1>7, <1>10, <1>12, <1>16, <2>1, <2>2, CopySound
<1>17. CASE ~SelfLoop(n, a) /\ ~SelfLoop(n, b)
    <2>1. D \subseteq {a1, a2, b1, b2}
        BY <1>13
    <2>2. interact_comm(n, a, b) = Commuted(m, a1, a2, b1, b2)
        BY <1>6, <1>17
    <2> QED
        BY <1>1, <1>7, <1>10, <1>11, <1>12, <1>17, <2>1, <2>2, CommutedSound
<1> QED
    BY <1>14, <1>15, <1>16, <1>17

-----------------------------------------------------------------------------
(* The arena survives every rule, entangled pair or not.                   *)
LEMMA ArenaConnect ==
    ASSUME NEW n, Arena(n), NEW a \in PortRefs, NEW b \in PortRefs
    PROVE  Arena(connect(n, a, b)) /\ connect(n, a, b).next_id = n.next_id
<1>1. NetType(connect(n, a, b)) /\ SameArena(connect(n, a, b), n)
    BY Connect DEF Arena
<1> QED
    BY <1>1, ArenaKept DEF SameArena

(* One creation: room for k more agents and a new id.                      *)
LEMMA ArenaCreates ==
    ASSUME NEW n, Arena(n), NEW sym \in Symbols, NEW k \in Nat, HasRoomFor(n, k + 1)
    PROVE  /\ Arena(create_agent(n, sym))
           /\ HasRoomFor(create_agent(n, sym), k)
           /\ NewAgentId(n) \in AgentIds
           /\ \A p \in PortIds : AgentPort(NewAgentId(n), p) \in PortRefs
<1>1. n.next_id \in Nat /\ ArenaSize \in Nat
    BY NetAssumption DEF Arena, NetType
<1>2. HasRoomFor(n, 1)
    BY <1>1 DEF HasRoomFor
<1> DEFINE m == create_agent(n, sym)
<1>3. Arena(m) /\ NewAgentId(n) \in AgentIds /\ m.next_id <= n.next_id + 1
    BY <1>2, ArenaCreate
<1> HIDE DEF m
<1>4. m.next_id \in Nat
    BY <1>3 DEF Arena, NetType
<1>5. HasRoomFor(m, k)
    BY <1>1, <1>3, <1>4 DEF HasRoomFor
<1>6. \A p \in PortIds : AgentPort(NewAgentId(n), p) \in PortRefs
    BY <1>3, RefForms
<1> QED
    BY <1>3, <1>5, <1>6 DEF m

(* Every rule keeps the ids accounted for, entangled or not.               *)
LEMMA RulesArena ==
    ASSUME NEW n, Arena(n), NEW a \in AgentIds, NEW b \in AgentIds
    PROVE  /\ Arena(interact_void(n, a, b))
           /\ Arena(interact_anni(n, a, b))
           /\ HasRoomFor(n, 2) => Arena(interact_eras(n, a, b))
           /\ HasRoomFor(n, 4) => Arena(interact_comm(n, a, b))
<1> DEFINE m == remove_agent(remove_agent(n, a), b)
<1>1. Arena(m) /\ m.next_id = n.next_id
    <2>1. Arena(remove_agent(n, a)) /\ remove_agent(n, a).next_id = n.next_id
        BY ArenaRemove
    <2> QED
        BY <2>1, ArenaRemove
<1>2. \A i \in {a, b}, p \in {1, 2} : Aux(n, i, p) \in PortRefs
    <2>1. \A p \in {1, 2} : p \in PortIds
        BY DEF PortIds
    <2>2. \A i \in {a, b}, p \in {1, 2} : AgentPort(i, p) \in PortRefs
        BY <2>1, RefForms
    <2> QED
        BY <2>2, GetTarget DEF Aux, Arena
<1> DEFINE a1 == Aux(n, a, 1)
           a2 == Aux(n, a, 2)
           b1 == Aux(n, b, 1)
           b2 == Aux(n, b, 2)
<1>3. a1 \in PortRefs /\ a2 \in PortRefs /\ b1 \in PortRefs /\ b2 \in PortRefs
    BY <1>2
<1>4. interact_void(n, a, b) = m
    BY DEF interact_void
<1>5. interact_anni(n, a, b) =
           CASE SelfLoop(n, a) /\ SelfLoop(n, b) -> m
             [] SelfLoop(n, b) /\ ~SelfLoop(n, a) -> link(m, a1, a2)
             [] SelfLoop(n, a) /\ ~SelfLoop(n, b) -> link(m, b1, b2)
             [] OTHER -> IF n.agents[a] = "Con"
                         THEN link(link(m, a1, b2), a2, b1)
                         ELSE link(link(m, a1, b1), a2, b2)
    BY DEF interact_anni
<1>6. interact_eras(n, a, b) =
           LET e1 == NewAgentId(m)
               m1 == create_agent(m, "Era")
               e2 == NewAgentId(m1)
               m2 == create_agent(m1, "Era")
           IN  IF SelfLoop(n, a) THEN m
               ELSE link(link(m2, AgentPort(e1, 0), a1), AgentPort(e2, 0), a2)
    BY DEF interact_eras
<1>7. interact_comm(n, a, b) =
           CASE SelfLoop(n, a) /\ SelfLoop(n, b) -> m
             [] SelfLoop(n, a) /\ ~SelfLoop(n, b) -> CopySelfLoop(m, "Con", b1, b2)
             [] SelfLoop(n, b) /\ ~SelfLoop(n, a) -> CopySelfLoop(m, "Dup", a1, a2)
             [] OTHER -> Commuted(m, a1, a2, b1, b2)
    BY DEF interact_comm
<1>8. \A k : HasRoomFor(n, k) <=> HasRoomFor(m, k)
    BY <1>1 DEF HasRoomFor
<1> HIDE DEF m, a1, a2, b1, b2
<1>9. 0 \in PortIds /\ 1 \in PortIds /\ 2 \in PortIds
    BY DEF PortIds
<1>10. Arena(interact_anni(n, a, b))
    <2>1. \A x, y \in PortRefs : Arena(link(m, x, y))
        BY <1>1, LinkArena
    <2>2. \A x, y, z, w \in PortRefs : Arena(link(link(m, x, y), z, w))
        BY <2>1, LinkArena
    <2>3. CASE SelfLoop(n, a) /\ SelfLoop(n, b)
        BY <1>1, <1>5, <2>3
    <2>4. CASE SelfLoop(n, b) /\ ~SelfLoop(n, a)
        BY <1>3, <1>5, <2>1, <2>4
    <2>5. CASE SelfLoop(n, a) /\ ~SelfLoop(n, b)
        BY <1>3, <1>5, <2>1, <2>5
    <2>6. CASE ~SelfLoop(n, a) /\ ~SelfLoop(n, b)
        <3>1. interact_anni(n, a, b) = IF n.agents[a] = "Con"
                                       THEN link(link(m, a1, b2), a2, b1)
                                       ELSE link(link(m, a1, b1), a2, b2)
            BY <1>5, <2>6
        <3> QED
            BY <1>3, <2>2, <3>1
    <2> QED
        BY <2>3, <2>4, <2>5, <2>6
<1>11. ASSUME HasRoomFor(n, 2)
       PROVE  Arena(interact_eras(n, a, b))
    <2> DEFINE e1 == NewAgentId(m)
               m1 == create_agent(m, "Era")
               e2 == NewAgentId(m1)
               m2 == create_agent(m1, "Era")
    <2>1. HasRoomFor(m, 1 + 1)
        BY <1>8, <1>11
    <2>2. Arena(m1) /\ HasRoomFor(m1, 1) /\ AgentPort(e1, 0) \in PortRefs
        BY <1>1, <1>9, <2>1, ArenaCreates DEF Symbols
    <2> HIDE DEF m1, e1
    <2>3. HasRoomFor(m1, 0 + 1)
        BY <2>2
    <2>4. Arena(m2) /\ AgentPort(e2, 0) \in PortRefs
        BY <1>9, <2>2, <2>3, ArenaCreates DEF Symbols
    <2> HIDE DEF m2, e2
    <2>5. Arena(link(m2, AgentPort(e1, 0), a1))
        BY <1>3, <2>2, <2>4, LinkArena
    <2>6. Arena(link(link(m2, AgentPort(e1, 0), a1), AgentPort(e2, 0), a2))
        BY <1>3, <2>4, <2>5, LinkArena
    <2> QED
        BY <1>1, <1>6, <2>6 DEF m2, e2, m1, e1
<1>12. ASSUME HasRoomFor(n, 4), NEW sym \in {"Con", "Dup"}, NEW w1 \in PortRefs, NEW w2 \in PortRefs
       PROVE  Arena(CopySelfLoop(m, sym, w1, w2))
    <2> DEFINE x  == NewAgentId(m)
               m1 == create_agent(m, sym)
               y  == NewAgentId(m1)
               m2 == create_agent(m1, sym)
               X(p) == AgentPort(x, p)
               Y(p) == AgentPort(y, p)
               mx == connect(m2, X(1), X(2))
               my == connect(mx, Y(1), Y(2))
               mw == link(my, X(0), w1)
    <2>1. CopySelfLoop(m, sym, w1, w2) = link(mw, Y(0), w2)
        BY DEF CopySelfLoop
    <2>2. HasRoomFor(m, 3 + 1)
        BY <1>8, <1>12
    <2>3. Arena(m1) /\ HasRoomFor(m1, 3) /\ \A p \in PortIds : X(p) \in PortRefs
        BY <1>1, <2>2, ArenaCreates DEF Symbols
    <2> HIDE DEF m1, x
    <2>4. HasRoomFor(m1, 2 + 1)
        BY <2>3
    <2>5. Arena(m2) /\ \A p \in PortIds : Y(p) \in PortRefs
        BY <2>3, <2>4, ArenaCreates DEF Symbols
    <2> HIDE DEF m2, y, X, Y
    <2>6. Arena(mx)
        BY <1>9, <2>3, <2>5, ArenaConnect
    <2> HIDE DEF mx
    <2>7. Arena(my)
        BY <1>9, <2>5, <2>6, ArenaConnect
    <2> HIDE DEF my
    <2>8. Arena(mw)
        BY <1>9, <1>12, <2>3, <2>7, LinkArena
    <2> HIDE DEF mw
    <2>9. Arena(link(mw, Y(0), w2))
        BY <1>9, <1>12, <2>5, <2>8, LinkArena
    <2> QED
        BY <2>1, <2>9
<1>13. ASSUME HasRoomFor(n, 4)
       PROVE  Arena(Commuted(m, a1, a2, b1, b2))
    <2> DEFINE p  == NewAgentId(m)
               m1 == create_agent(m, "Dup")
               q  == NewAgentId(m1)
               m2 == create_agent(m1, "Dup")
               r  == NewAgentId(m2)
               m3 == create_agent(m2, "Con")
               s  == NewAgentId(m3)
               m4 == create_agent(m3, "Con")
               P(k) == AgentPort(p, k)
               Q(k) == AgentPort(q, k)
               R(k) == AgentPort(r, k)
               S(k) == AgentPort(s, k)
               x1 == link(m4, P(0), a1)
               x2 == link(x1, Q(0), a2)
               x3 == link(x2, R(0), b1)
               x4 == link(x3, S(0), b2)
               i1 == connect(x4, P(1), R(1))
               i2 == connect(i1, P(2), S(1))
               i3 == connect(i2, Q(1), R(2))
    <2>1. Commuted(m, a1, a2, b1, b2) = connect(i3, Q(2), S(2))
        BY DEF Commuted
    <2>2. HasRoomFor(m, 3 + 1)
        BY <1>8, <1>13
    <2>3. Arena(m1) /\ HasRoomFor(m1, 3) /\ \A k \in PortIds : P(k) \in PortRefs
        BY <1>1, <2>2, ArenaCreates DEF Symbols
    <2> HIDE DEF m1, p
    <2>4. HasRoomFor(m1, 2 + 1)
        BY <2>3
    <2>5. Arena(m2) /\ HasRoomFor(m2, 2) /\ \A k \in PortIds : Q(k) \in PortRefs
        BY <2>3, <2>4, ArenaCreates DEF Symbols
    <2> HIDE DEF m2, q
    <2>6. HasRoomFor(m2, 1 + 1)
        BY <2>5
    <2>7. Arena(m3) /\ HasRoomFor(m3, 1) /\ \A k \in PortIds : R(k) \in PortRefs
        BY <2>5, <2>6, ArenaCreates DEF Symbols
    <2> HIDE DEF m3, r
    <2>8. HasRoomFor(m3, 0 + 1)
        BY <2>7
    <2>9. Arena(m4) /\ \A k \in PortIds : S(k) \in PortRefs
        BY <2>7, <2>8, ArenaCreates DEF Symbols
    <2> HIDE DEF m4, s, P, Q, R, S
    <2>10. Arena(x1)
        BY <1>3, <1>9, <2>3, <2>9, LinkArena
    <2> HIDE DEF x1
    <2>11. Arena(x2)
        BY <1>3, <1>9, <2>5, <2>10, LinkArena
    <2> HIDE DEF x2
    <2>12. Arena(x3)
        BY <1>3, <1>9, <2>7, <2>11, LinkArena
    <2> HIDE DEF x3
    <2>13. Arena(x4)
        BY <1>3, <1>9, <2>9, <2>12, LinkArena
    <2> HIDE DEF x4
    <2>14. Arena(i1)
        BY <1>9, <2>3, <2>7, <2>13, ArenaConnect
    <2> HIDE DEF i1
    <2>15. Arena(i2)
        BY <1>9, <2>3, <2>9, <2>14, ArenaConnect
    <2> HIDE DEF i2
    <2>16. Arena(i3)
        BY <1>9, <2>5, <2>7, <2>15, ArenaConnect
    <2> HIDE DEF i3
    <2>17. Arena(connect(i3, Q(2), S(2)))
        BY <1>9, <2>5, <2>9, <2>16, ArenaConnect
    <2> QED
        BY <2>1, <2>17
<1>14. ASSUME HasRoomFor(n, 4)
       PROVE  Arena(interact_comm(n, a, b))
    <2>1. CASE SelfLoop(n, a) /\ SelfLoop(n, b)
        BY <1>1, <1>7, <2>1
    <2>2. CASE SelfLoop(n, a) /\ ~SelfLoop(n, b)
        <3>1. interact_comm(n, a, b) = CopySelfLoop(m, "Con", b1, b2)
            BY <1>7, <2>2
        <3> QED
            BY <1>3, <1>12, <1>14, <3>1
    <2>3. CASE SelfLoop(n, b) /\ ~SelfLoop(n, a)
        <3>1. interact_comm(n, a, b) = CopySelfLoop(m, "Dup", a1, a2)
            BY <1>7, <2>3
        <3> QED
            BY <1>3, <1>12, <1>14, <3>1
    <2>4. CASE ~SelfLoop(n, a) /\ ~SelfLoop(n, b)
        <3>1. interact_comm(n, a, b) = Commuted(m, a1, a2, b1, b2)
            BY <1>7, <2>4
        <3> QED
            BY <1>13, <1>14, <3>1
    <2> QED
        BY <2>1, <2>2, <2>3, <2>4
<1> QED
    BY <1>1, <1>4, <1>10, <1>11, <1>14

-----------------------------------------------------------------------------
(* reduce_step: the first valid entry of the queue, and what is popped.    *)
Valid(n, k) == is_valid_redex(n, n.queue[k][1], n.queue[k][2])

(* FirstValid finds the first entry of the queue that is an active pair.   *)
LEMMA FirstValidIs ==
    ASSUME NEW n, NetType(n)
    PROVE  \/ /\ FirstValid(n) = 0
              /\ \A k \in 1 .. Len(n.queue) : ~Valid(n, k)
           \/ /\ FirstValid(n) \in 1 .. Len(n.queue)
              /\ Valid(n, FirstValid(n))
              /\ \A k \in 1 .. FirstValid(n) - 1 : ~Valid(n, k)
<1> DEFINE I == {k \in 1 .. Len(n.queue) : Valid(n, k)}
<1>1. FirstValid(n) = IF I # {} THEN Min(I) ELSE 0
    BY DEF FirstValid, SelectInSeq, Valid
<1>2. Len(n.queue) \in Nat
    BY DEF NetType
<1>3. CASE I = {}
    BY <1>1, <1>3
<1>4. CASE I # {}
    <2>1. I \subseteq Nat
        BY <1>2
    <2>2. PICK x \in I : \A y \in I : ~(<<y, x>> \in OpToRel(<, Nat))
        <3> HIDE DEF I
        <3> QED
            BY <1>4, <2>1, NatLessThanWellFounded, WFMin
    <2>3. \A y \in I : x <= y
        <3> SUFFICES ASSUME NEW y \in I, ~(x <= y)
                     PROVE  FALSE
            OBVIOUS
        <3>1. x \in Nat /\ y \in Nat
            BY <2>1
        <3>2. y < x
            BY <3>1
        <3>3. <<y, x>> \in OpToRel(<, Nat)
            BY <3>1, <3>2 DEF OpToRel
        <3> QED
            BY <2>2, <3>3
    <2>4. Min(I) \in I /\ \A y \in I : Min(I) <= y
        <3> HIDE DEF I
        <3> QED
            BY <2>3 DEF Min
    <2>5. FirstValid(n) = Min(I)
        BY <1>1, <1>4
    <2>6. \A k \in 1 .. Min(I) - 1 : ~Valid(n, k)
        <3> SUFFICES ASSUME NEW k \in 1 .. Min(I) - 1, Valid(n, k)
                     PROVE  FALSE
            OBVIOUS
        <3>1. Min(I) \in 1 .. Len(n.queue)
            BY <2>4
        <3>2. k \in 1 .. Len(n.queue) /\ k < Min(I)
            <4> HIDE DEF I
            <4> QED
                BY <1>2, <3>1
        <3>3. k \in I
            BY <3>2
        <3> HIDE DEF I
        <3> QED
            BY <1>2, <2>4, <3>1, <3>2, <3>3
    <2>7. Min(I) \in 1 .. Len(n.queue) /\ Valid(n, Min(I))
        BY <2>4
    <2> QED
        BY <2>5, <2>6, <2>7
<1> QED
    BY <1>3, <1>4

(* The queue may be replaced without any effect on the rest.               *)
LEMMA Requeued ==
    ASSUME NEW n, NetType(n), NEW q \in Seq(AgentIds \X AgentIds)
    PROVE  LET m == [n EXCEPT !.queue = q]
           IN  /\ NetType(m)
               /\ SameArena(m, n)
               /\ m.ports = n.ports
               /\ m.queue = q
               /\ m.redirects = n.redirects
<1> DEFINE m == [n EXCEPT !.queue = q]
<1>1. m = [agents |-> n.agents, ports |-> n.ports, queue |-> q,
           next_id |-> n.next_id, free_list |-> n.free_list,
           redirects |-> n.redirects, shadow |-> n.shadow,
           protected |-> n.protected, policy |-> n.policy, root |-> n.root]
    <2>1. n = [agents |-> n.agents, ports |-> n.ports, queue |-> n.queue,
               next_id |-> n.next_id, free_list |-> n.free_list,
               redirects |-> n.redirects, shadow |-> n.shadow,
               protected |-> n.protected, policy |-> n.policy, root |-> n.root]
        BY DEF NetType
    <2>2. m = [n EXCEPT !.queue = q]
        OBVIOUS
    <2> HIDE DEF m
    <2> QED
        BY <2>1, <2>2
<1> HIDE DEF m
<1>2. NetType(m)
    BY <1>1 DEF NetType
<1> QED
    BY <1>1, <1>2 DEF SameArena, m

(* A net with the same agents and wires is as well wired.                  *)
LEMMA SameWiring ==
    ASSUME NEW n, NEW m, NEW D, Dangling(n, D), SameArena(m, n), m.ports = n.ports
    PROVE  Dangling(m, D) /\ \A r : Tgt(m, r) = Tgt(n, r)
<1>1. \A r : Tgt(m, r) = Tgt(n, r)
    BY DEF Tgt
<1>2. \A r : LiveRef(m, r) <=> LiveRef(n, r)
    BY DEF LiveRef, SameArena
<1>3. m.root = n.root
    BY DEF SameArena
<1> QED
    BY <1>1, <1>2, <1>3 DEF Dangling

(* The symbols each rule is dispatched for.                                *)
LEMMA RuleCases ==
    ASSUME NEW sa \in Symbols, NEW sb \in Symbols, Rank(sa) <= Rank(sb)
    PROVE  \/ get_rule(sa, sb) = "Void" /\ sa = "Era" /\ sb = "Era"
           \/ get_rule(sa, sb) = "Anni" /\ sa = sb /\ sa \in {"Con", "Dup"}
           \/ get_rule(sa, sb) = "Eras" /\ sa \in {"Con", "Dup"} /\ sb = "Era"
           \/ get_rule(sa, sb) = "Comm" /\ sa = "Con" /\ sb = "Dup"
<1>1. Rank("Con") = 0 /\ Rank("Dup") = 1 /\ Rank("Era") = 2
    BY DEF Rank
<1>2. CASE sb = "Con"
    <2>1. sa = "Con"
        BY <1>1, <1>2 DEF Symbols
    <2> QED
        BY <1>2, <2>1 DEF get_rule
<1>3. CASE sb = "Dup"
    <2>1. sa = "Con" \/ sa = "Dup"
        BY <1>1, <1>3 DEF Symbols
    <2>2. CASE sa = "Con"
        BY <1>3, <2>2 DEF get_rule
    <2>3. CASE sa = "Dup"
        BY <1>3, <2>3 DEF get_rule
    <2> QED
        BY <2>1, <2>2, <2>3
<1>4. CASE sb = "Era"
    <2>1. CASE sa = "Con"
        BY <1>4, <2>1 DEF get_rule
    <2>2. CASE sa = "Dup"
        BY <1>4, <2>2 DEF get_rule
    <2>3. CASE sa = "Era"
        BY <1>4, <2>3 DEF get_rule
    <2> QED
        BY <2>1, <2>2, <2>3 DEF Symbols
<1> QED
    BY <1>2, <1>3, <1>4 DEF Symbols

(* The pair reduce_step works on, as the queue has it or swapped.          *)
LEMMA HeadIs ==
    ASSUME NEW n, Arena(n), FirstValid(n) # 0
    PROVE  LET k == FirstValid(n)
               a == HeadPair(n)[1]
               b == HeadPair(n)[2]
           IN  /\ k \in 1 .. Len(n.queue)
               /\ Valid(n, k)
               /\ \A l \in 1 .. k - 1 : ~Valid(n, l)
               /\ a \in Live(n) /\ b \in Live(n)
               /\ \/ n.queue[k][1] = a /\ n.queue[k][2] = b
                  \/ n.queue[k][1] = b /\ n.queue[k][2] = a
               /\ n.queue[k] = <<n.queue[k][1], n.queue[k][2]>>
               /\ n.agents[a] \in Symbols /\ n.agents[b] \in Symbols
               /\ Rank(n.agents[a]) <= Rank(n.agents[b])
<1> DEFINE k == FirstValid(n)
           u == n.queue[k][1]
           v == n.queue[k][2]
<1>1. /\ k \in 1 .. Len(n.queue)
      /\ Valid(n, k)
      /\ \A l \in 1 .. k - 1 : ~Valid(n, l)
    BY FirstValidIs DEF Arena
<1> HIDE DEF k
<1>2. u \in Live(n) /\ v \in Live(n)
    BY <1>1 DEF Valid, is_valid_redex
<1>3. n.queue[k] \in AgentIds \X AgentIds
    BY <1>1 DEF Arena, NetType
<1>4. n.queue[k] = <<u, v>>
    BY <1>3
<1>5. HeadPair(n) = IF Rank(n.agents[u]) <= Rank(n.agents[v]) THEN <<u, v>> ELSE <<v, u>>
    BY DEF HeadPair, normalize_pair, k
<1>6. n.agents[u] \in Symbols /\ n.agents[v] \in Symbols
    BY <1>2 DEF Live, Arena, NetType
<1>7. Rank(n.agents[u]) \in Nat /\ Rank(n.agents[v]) \in Nat
    <2>1. \A s \in Symbols : Rank(s) \in Nat
        BY DEF Rank, Symbols
    <2> QED
        BY <1>6, <2>1
<1> HIDE DEF u, v
<1>8. CASE Rank(n.agents[u]) <= Rank(n.agents[v])
    <2>1. HeadPair(n)[1] = u /\ HeadPair(n)[2] = v
        BY <1>5, <1>8
    <2> QED
        BY <1>1, <1>2, <1>4, <1>6, <1>8, <2>1 DEF u, v, k
<1>9. CASE ~(Rank(n.agents[u]) <= Rank(n.agents[v]))
    <2>1. HeadPair(n)[1] = v /\ HeadPair(n)[2] = u
        BY <1>5, <1>9
    <2>2. Rank(n.agents[v]) <= Rank(n.agents[u])
        BY <1>7, <1>9
    <2> QED
        BY <1>1, <1>2, <1>4, <1>6, <2>1, <2>2 DEF u, v, k
<1> QED
    BY <1>8, <1>9

Popped(n) == [n EXCEPT !.queue = SubSeq(@, FirstValid(n) + 1, Len(@))]

(* The FreePorts of K that are still followed once the agents of ids are   *)
(* removed: not the relayed ones that lose their redirect.                 *)
Kept(K, n, ids) == K \ Purged(n, ids)

LEMMA Forgetting ==
    ASSUME NEW K, NEW n, NEW ids, Turned(K, n, {})
    PROVE  /\ Turned(Kept(K, n, ids), n, {})
           /\ ids \cap Kept(K, n, ids) \cap DOMAIN n.redirects = {}
<1> DEFINE L == Kept(K, n, ids)
           R == n.redirects
<1>1. /\ L \subseteq K
      /\ \A k \in L : k \in DOMAIN R => k \notin ids /\ R[k][2] \notin ids
      /\ \A k \in K : k \notin L => k \in DOMAIN R
      /\ \A k \in K : k \in DOMAIN R /\ k \notin ids /\ R[k][2] \notin ids => k \in L
    BY DEF Kept, Purged
<1>2. Apart(K) /\ Apart(L)
    BY <1>1 DEF Turned, Apart
<1> HIDE DEF L
<1>3. /\ \A f \in Faces(K) : f[2] \in K /\ f = FreePort(f[2])
      /\ \A f \in Faces(L) : f[2] \in L /\ f = FreePort(f[2])
      /\ \A k \in L : FreePort(k) \in Faces(L)
      /\ Faces(L) \subseteq Faces(K)
    BY <1>1, <1>2, FaceForms DEF Faces
<1>4. ASSUME L # {}
      PROVE  Facing(L, n, {})
    <2>1. Facing(K, n, {})
        BY <1>1, <1>4 DEF Turned
    <2>2. \A f \in Faces(K) : f \notin Faces(L) => f[2] \in DOMAIN R /\ ~Held(n, f)
        BY <1>1, <1>3, <2>1 DEF Facing
    <2>3. \A r \in AgentRefs : Tgt(n, r) \in AgentRefs \cup Faces(L) \cup {DISCONNECTED}
        BY <2>1, <2>2 DEF Facing, Held
    <2>4. \A r, s \in AgentRefs : Tgt(n, r) \in Faces(L) /\ Tgt(n, s) = Tgt(n, r) => r = s
        BY <1>3, <2>1 DEF Facing
    <2>5. \A f \in Faces(L) : f \in {} <=> f[2] \notin DOMAIN R /\ ~Held(n, f)
        BY <1>3, <2>1 DEF Facing
    <2>6. ASSUME NEW f \in Faces(L), f[2] \in DOMAIN R
          PROVE  /\ ~Held(n, f)
                 /\ R[f[2]] \in Faces(L)
                 /\ R[f[2]][2] \in DOMAIN R
                 /\ R[R[f[2]][2]] = f
        <3> DEFINE g == R[f[2]]
        <3>1. /\ ~Held(n, f) /\ g \in Faces(K) /\ g[2] \in DOMAIN R /\ R[g[2]] = f
            BY <1>3, <2>1, <2>6 DEF Facing
        <3>2. f[2] \notin ids /\ g[2] \notin ids
            BY <1>1, <1>3, <2>6
        <3> HIDE DEF g
        <3>3. g[2] \in L
            BY <1>1, <1>3, <3>1, <3>2
        <3>4. g \in Faces(L)
            BY <1>3, <3>1, <3>3
        <3> QED
            BY <3>1, <3>4 DEF g
    <2> QED
        BY <2>3, <2>4, <2>5, <2>6 DEF Facing
<1>5. {} \subseteq AgentRefs \cup Faces(L)
    OBVIOUS
<1>6. ids \cap L \cap DOMAIN R = {}
    BY <1>1
<1> QED
    BY <1>2, <1>4, <1>5, <1>6 DEF Turned, L

(* The pair reduce_step pops is active, and the rest of the net is         *)
(* unchanged.                                                              *)
LEMMA PoppedPair ==
    ASSUME NEW n, Arena(n), FirstValid(n) # 0
    PROVE  /\ Arena(Popped(n))
           /\ SameArena(Popped(n), n)
           /\ Popped(n).ports = n.ports
           /\ \A K : Sound(K, n, {}) =>
                  LET a == HeadPair(n)[1]
                      b == HeadPair(n)[2]
                  IN  ActivePair(Kept(K, n, {a, b}), Popped(n), a, b)
<1> DEFINE k == FirstValid(n)
           a == HeadPair(n)[1]
           b == HeadPair(n)[2]
           q == SubSeq(n.queue, k + 1, Len(n.queue))
           m == Popped(n)
<1>1. /\ k \in 1 .. Len(n.queue)
      /\ Valid(n, k)
      /\ \A l \in 1 .. k - 1 : ~Valid(n, l)
      /\ a \in Live(n) /\ b \in Live(n)
      /\ \/ n.queue[k][1] = a /\ n.queue[k][2] = b
         \/ n.queue[k][1] = b /\ n.queue[k][2] = a
      /\ n.queue[k] = <<n.queue[k][1], n.queue[k][2]>>
    BY HeadIs
<1>2. n.queue \in Seq(AgentIds \X AgentIds) /\ Len(n.queue) \in Nat
      /\ DOMAIN n.queue = 1 .. Len(n.queue) /\ NetType(n)
    BY DEF Arena, NetType
<1> HIDE DEF k, a, b
<1>3. /\ q \in Seq(AgentIds \X AgentIds)
      /\ DOMAIN q = 1 .. Len(n.queue) - k
      /\ \A l \in 1 .. Len(n.queue) - k : q[l] = n.queue[l + k]
    <2>1. k \in Nat /\ k <= Len(n.queue)
        BY <1>1, <1>2
    <2>2. q \in Seq(AgentIds \X AgentIds) /\ Len(q) = Len(n.queue) - k
        BY <1>2, <2>1
    <2>3. \A l \in 1 .. Len(n.queue) - k : q[l] = n.queue[k + 1 + l - 1]
        BY <1>2, <2>1
    <2>4. \A l \in 1 .. Len(n.queue) - k : k + 1 + l - 1 = l + k
        BY <1>2, <2>1
    <2>5. DOMAIN q = 1 .. Len(q)
        BY <2>2
    <2> HIDE DEF q
    <2> QED
        BY <2>2, <2>3, <2>4, <2>5
<1>4. m = [n EXCEPT !.queue = q]
    BY DEF Popped, k
<1> HIDE DEF q, m
<1>5. /\ NetType(m) /\ SameArena(m, n) /\ m.ports = n.ports /\ m.queue = q
      /\ m.redirects = n.redirects
    BY <1>2, <1>3, <1>4, Requeued
<1>6. Arena(m)
    BY <1>5, ArenaKept
<1>7. ASSUME NEW K, Sound(K, n, {})
      PROVE  ActivePair(Kept(K, n, {a, b}), m, a, b)
    <2> DEFINE L == Kept(K, n, {a, b})
    <2>1. Dangling(n, {}) /\ Queued(n, {})
        BY <1>7, NoFaces DEF Tied
    <2>2. Dangling(m, {}) /\ \A r : Tgt(m, r) = Tgt(n, r)
        BY <1>5, <2>1, SameWiring
    <2>3. Turned(L, m, {}) /\ {a, b} \cap L \cap DOMAIN m.redirects = {}
        <3>1. Turned(K, n, {})
            BY <1>7 DEF Sound
        <3>2. Turned(L, n, {}) /\ {a, b} \cap L \cap DOMAIN n.redirects = {}
            BY <3>1, Forgetting
        <3> HIDE DEF L
        <3>3. RelaysKept(L, m, n)
            BY <1>5 DEF RelaysKept
        <3> QED
            BY <1>5, <2>2, <3>2, <3>3, TurnedKept
    <2> HIDE DEF L
    <2>4. a \in AgentIds /\ b \in AgentIds /\ 0 \in PortIds
        BY <1>1 DEF Live, PortIds
    <2>5. \A i \in AgentIds : AgentPort(i, 0) \in AgentRefs /\ AgentPort(i, 0)[2] = i
                              /\ get_target(n, AgentPort(i, 0)) = Tgt(n, AgentPort(i, 0))
        BY <1>2, <2>4, RefForms, GetTarget
    <2>6. Tgt(n, AgentPort(a, 0)) = AgentPort(b, 0)
        <3>1. \/ Tgt(n, AgentPort(a, 0)) = AgentPort(b, 0)
              \/ Tgt(n, AgentPort(b, 0)) = AgentPort(a, 0)
            BY <1>1, <2>4, <2>5 DEF Valid, is_valid_redex
        <3> QED
            BY <2>1, <2>4, <2>5, <3>1 DEF Dangling
    <2>7. a \in Live(m) /\ b \in Live(m)
        BY <1>1, <1>5 DEF Live, SameArena
    <2>8. Queued(m, {a, b})
        <3> SUFFICES ASSUME NEW i \in AgentIds, NEW j \in AgentIds,
                            Tgt(n, AgentPort(i, 0)) = AgentPort(j, 0),
                            i \notin {a, b}, j \notin {a, b}
                     PROVE  InQueue(m, i, j)
            BY <2>2 DEF Queued
        <3>1. Tgt(n, AgentPort(j, 0)) = AgentPort(i, 0)
            BY <2>1, <2>5 DEF Dangling
        <3>2. i \in Live(n) /\ j \in Live(n)
            <4>1. LiveRef(n, AgentPort(i, 0)) /\ LiveRef(n, AgentPort(j, 0))
                BY <2>1, <2>5, <3>1, RefForms DEF Dangling
            <4> QED
                BY <2>5, <4>1 DEF LiveRef, Live
        <3>3. InQueue(n, i, j)
            BY <2>1 DEF Queued
        <3>4. PICK l \in DOMAIN n.queue : n.queue[l] = <<i, j>> \/ n.queue[l] = <<j, i>>
            BY <3>3 DEF InQueue
        <3>5. Valid(n, l)
            BY <2>5, <3>1, <3>2, <3>4 DEF Valid, is_valid_redex
        <3>6. l # k
            BY <1>1, <3>4
        <3>7. l \in 1 .. Len(n.queue) /\ ~(l \in 1 .. k - 1)
            BY <1>1, <1>2, <3>5
        <3>8. l - k \in 1 .. Len(n.queue) - k /\ (l - k) + k = l
            BY <1>1, <1>2, <3>6, <3>7
        <3>9. l - k \in DOMAIN m.queue /\ m.queue[l - k] = n.queue[l]
            BY <1>3, <1>5, <3>8
        <3> QED
            BY <3>4, <3>9 DEF InQueue
    <2> QED
        BY <1>6, <2>2, <2>6, <2>7, <2>8, <2>3 DEF ActivePair, L
<1> QED
    BY <1>5, <1>6, <1>7 DEF m, a, b

-----------------------------------------------------------------------------
(* One call of reduce_step.                                                *)
LEMMA StepArena ==
    ASSUME NEW n, Arena(n), HasRoomFor(n, Creates(HeadRule(n))) \/ FirstValid(n) = 0
    PROVE  Arena(reduce_step(n))
<1>1. CASE FirstValid(n) = 0
    <2>1. reduce_step(n) = [n EXCEPT !.queue = <<>>]
        BY <1>1 DEF reduce_step
    <2>2. NetType(n) /\ <<>> \in Seq(AgentIds \X AgentIds)
        BY DEF Arena
    <2> QED
        BY <2>1, <2>2, Requeued, ArenaKept
<1>2. CASE FirstValid(n) # 0
    <2> DEFINE a == HeadPair(n)[1]
               b == HeadPair(n)[2]
               m == Popped(n)
               rule == HeadRule(n)
    <2>1. /\ a \in Live(n) /\ b \in Live(n)
          /\ n.agents[a] \in Symbols /\ n.agents[b] \in Symbols
          /\ Rank(n.agents[a]) <= Rank(n.agents[b])
        BY <1>2, HeadIs
    <2>2. Arena(m) /\ m.next_id = n.next_id
        BY <1>2, PoppedPair DEF SameArena
    <2>3. reduce_step(n) = Interact(m, rule, a, b)
        BY <1>2 DEF reduce_step, Popped
    <2>4. rule \in {"Void", "Anni", "Eras", "Comm"}
        BY <2>1, RuleCases DEF HeadRule
    <2>5. a \in AgentIds /\ b \in AgentIds
        BY <2>1 DEF Live
    <2>6. HasRoomFor(m, Creates(rule))
        BY <1>2, <2>2 DEF HasRoomFor
    <2> HIDE DEF a, b, m, rule
    <2>7. /\ Arena(interact_void(m, a, b))
          /\ Arena(interact_anni(m, a, b))
          /\ HasRoomFor(m, 2) => Arena(interact_eras(m, a, b))
          /\ HasRoomFor(m, 4) => Arena(interact_comm(m, a, b))
        BY <2>2, <2>5, RulesArena
    <2>8. /\ rule = "Eras" => HasRoomFor(m, 2)
          /\ rule = "Comm" => HasRoomFor(m, 4)
        BY <2>6 DEF Creates
    <2> QED
        BY <2>3, <2>4, <2>7, <2>8 DEF Interact
<1> QED
    BY <1>1, <1>2

(* reduce_step leaves a sound net unless the pair is entangled; the relays *)
(* that go with the agents of the pair are no longer followed.             *)
LEMMA StepSound ==
    ASSUME NEW K, NEW n, Sound(K, n, {}), FirstValid(n) # 0,
           HasRoomFor(n, Creates(HeadRule(n))),
           ~Entangled(n, HeadPair(n)[1], HeadPair(n)[2])
    PROVE  Sound(Kept(K, n, {HeadPair(n)[1], HeadPair(n)[2]}), reduce_step(n), {})
<1> DEFINE a == HeadPair(n)[1]
           b == HeadPair(n)[2]
           L == Kept(K, n, {a, b})
           m == Popped(n)
           rule == HeadRule(n)
<1>1. /\ a \in Live(n) /\ b \in Live(n)
      /\ n.agents[a] \in Symbols /\ n.agents[b] \in Symbols
      /\ Rank(n.agents[a]) <= Rank(n.agents[b])
    BY HeadIs DEF Sound, Tied
<1>2. /\ SameArena(m, n)
      /\ m.ports = n.ports
      /\ ActivePair(L, m, a, b)
    BY PoppedPair DEF Sound, Tied
<1>3. reduce_step(n) = Interact(m, rule, a, b)
    BY DEF reduce_step, Popped
<1>4. \/ rule = "Void" /\ n.agents[a] = "Era" /\ n.agents[b] = "Era"
      \/ rule = "Anni" /\ n.agents[a] = n.agents[b] /\ n.agents[a] \in {"Con", "Dup"}
      \/ rule = "Eras" /\ n.agents[a] \in {"Con", "Dup"} /\ n.agents[b] = "Era"
      \/ rule = "Comm" /\ n.agents[a] = "Con" /\ n.agents[b] = "Dup"
    BY <1>1, RuleCases DEF HeadRule
<1> SUFFICES Sound(L, reduce_step(n), {})
    OBVIOUS
<1> HIDE DEF a, b, L, m, rule
<1>5. m.agents = n.agents /\ HasRoomFor(m, Creates(rule))
    BY <1>2 DEF SameArena, HasRoomFor, rule
<1>6. ~Entangled(m, a, b)
    <2>1. ~Entangled(n, a, b)
        BY DEF a, b
    <2>2. \A i, p : Aux(m, i, p) = Aux(n, i, p)
        BY <1>2 DEF Aux, get_target
    <2>3. CASE n.agents[a] = "Con" /\ n.agents[b] = "Con"
        BY <1>5, <2>1, <2>2, <2>3 DEF Entangled, Wired
    <2>4. CASE n.agents[a] = "Dup" /\ n.agents[b] = "Dup"
        BY <1>5, <2>1, <2>2, <2>4 DEF Entangled, Wired
    <2>5. CASE n.agents[a] = "Con" /\ n.agents[b] = "Dup"
        BY <1>5, <2>1, <2>2, <2>5 DEF Entangled, Wired
    <2>6. CASE n.agents[b] = "Era"
        BY <1>5, <2>6 DEF Entangled
    <2> QED
        BY <1>4, <2>3, <2>4, <2>5, <2>6
<1>7. CASE rule = "Void"
    <2>1. m.agents[a] = "Era" /\ m.agents[b] = "Era"
        BY <1>4, <1>5, <1>7
    <2> QED
        BY <1>2, <1>3, <1>7, <2>1, VoidSound DEF Interact
<1>8. CASE rule = "Anni"
    <2>1. m.agents[a] = m.agents[b] /\ m.agents[a] \in {"Con", "Dup"}
        BY <1>4, <1>5, <1>8
    <2>2. reduce_step(n) = interact_anni(m, a, b)
        BY <1>3, <1>8 DEF Interact
    <2> QED
        BY <1>2, <1>6, <2>1, <2>2, AnniSound
<1>9. CASE rule = "Eras"
    <2>1. m.agents[a] \in {"Con", "Dup"} /\ m.agents[b] = "Era"
        BY <1>4, <1>5, <1>9
    <2>2. reduce_step(n) = interact_eras(m, a, b)
        BY <1>3, <1>9 DEF Interact
    <2>3. HasRoomFor(m, 2)
        BY <1>5, <1>9 DEF Creates
    <2> QED
        BY <1>2, <2>1, <2>2, <2>3, ErasSound
<1>10. CASE rule = "Comm"
    <2>1. m.agents[a] = "Con" /\ m.agents[b] = "Dup"
        BY <1>4, <1>5, <1>10
    <2>2. reduce_step(n) = interact_comm(m, a, b)
        BY <1>3, <1>10 DEF Interact
    <2>3. HasRoomFor(m, 4)
        BY <1>5, <1>10 DEF Creates
    <2> QED
        BY <1>2, <1>6, <2>1, <2>2, <2>3, CommSound
<1> QED
    BY <1>4, <1>7, <1>8, <1>9, <1>10

(* NormalForm: the queue held stale entries only.                          *)
LEMMA NormalFormSound ==
    ASSUME NEW K, NEW n, Sound(K, n, {}), FirstValid(n) = 0
    PROVE  Sound(K, reduce_step(n), {})
<1> DEFINE m == [n EXCEPT !.queue = <<>>]
<1>1. reduce_step(n) = m
    BY DEF reduce_step
<1>2. NetType(n) /\ <<>> \in Seq(AgentIds \X AgentIds)
    BY DEF Sound, Tied, Arena
<1>3. NetType(m) /\ SameArena(m, n) /\ m.ports = n.ports /\ m.redirects = n.redirects
    BY <1>2, Requeued
<1> HIDE DEF m
<1>4. Arena(m)
    BY <1>3, ArenaKept DEF Sound, Tied
<1>5. Dangling(n, {}) /\ Queued(n, {})
    BY NoFaces DEF Tied
<1>6. Dangling(m, {}) /\ \A r : Tgt(m, r) = Tgt(n, r)
    BY <1>3, <1>5, SameWiring
<1>7. ASSUME NEW i \in AgentIds, NEW j \in AgentIds,
             Tgt(n, AgentPort(i, 0)) = AgentPort(j, 0)
      PROVE  FALSE
    <2>1. 0 \in PortIds
        BY DEF PortIds
    <2>2. \A k \in {i, j} : /\ AgentPort(k, 0) \in AgentRefs /\ AgentPort(k, 0)[2] = k
                            /\ get_target(n, AgentPort(k, 0)) = Tgt(n, AgentPort(k, 0))
        BY <1>2, <2>1, RefForms, GetTarget
    <2>3. Tgt(n, AgentPort(j, 0)) = AgentPort(i, 0)
        BY <1>5, <1>7, <2>2 DEF Dangling
    <2>4. LiveRef(n, AgentPort(i, 0)) /\ LiveRef(n, AgentPort(j, 0))
        BY <1>5, <1>7, <2>2, <2>3, RefForms DEF Dangling
    <2>5. i \in Live(n) /\ j \in Live(n)
        BY <2>2, <2>4 DEF LiveRef, Live
    <2>6. PICK k \in DOMAIN n.queue : n.queue[k] = <<i, j>> \/ n.queue[k] = <<j, i>>
        BY <1>5, <1>7 DEF Queued, InQueue
    <2>7. Valid(n, k)
        BY <1>7, <2>2, <2>3, <2>5, <2>6 DEF Valid, is_valid_redex
    <2>8. k \in 1 .. Len(n.queue) /\ \A l \in 1 .. Len(n.queue) : ~Valid(n, l)
        <3>1. Len(n.queue) \in Nat /\ DOMAIN n.queue = 1 .. Len(n.queue)
            BY <1>2 DEF NetType
        <3>2. FirstValid(n) \notin 1 .. Len(n.queue)
            BY <3>1
        <3>3. \A l \in 1 .. Len(n.queue) : ~Valid(n, l)
            BY <1>2, <3>2, FirstValidIs
        <3> QED
            BY <2>6, <3>1, <3>3
    <2> QED
        BY <2>7, <2>8
<1>8. Queued(m, {})
    BY <1>6, <1>7 DEF Queued
<1> QED
    <2>1. Turned(K, n, {}) /\ RelaysKept(K, m, n)
        BY <1>3 DEF Sound, RelaysKept
    <2>2. Turned(K, m, {})
        BY <1>6, <2>1, TurnedKept
    <2>3. {} \cap AgentRefs = {}
        OBVIOUS
    <2> QED
        BY <1>1, <1>4, <1>6, <1>8, <2>2, <2>3 DEF Sound, Tied

-----------------------------------------------------------------------------
(* Tied(n, {}) is what the checks of net/debug.rs say, no more.           *)
LEMMA LivePortIs ==
    ASSUME NEW n, NetType(n)
    PROVE  /\ \A r \in AgentRefs : LiveRef(n, r) <=> <<r[2], r[3]>> \in LivePorts(n)
           /\ \A ip \in LivePorts(n) :
                  /\ AgentPort(ip[1], ip[2]) \in AgentRefs
                  /\ ip[1] \in AgentIds /\ ip[2] \in PortIds
                  /\ LiveRef(n, AgentPort(ip[1], ip[2]))
                  /\ n.ports[ip[1]][ip[2]] = Tgt(n, AgentPort(ip[1], ip[2]))
<1>1. ASSUME NEW r \in AgentRefs
      PROVE  LiveRef(n, r) <=> <<r[2], r[3]>> \in LivePorts(n)
    <2>1. <<r[2], r[3]>> \in AgentIds \X PortIds
        BY RefForms
    <2> QED
        BY <2>1 DEF LiveRef, LivePorts
<1>2. ASSUME NEW ip \in LivePorts(n)
      PROVE  /\ AgentPort(ip[1], ip[2]) \in AgentRefs
             /\ ip[1] \in AgentIds /\ ip[2] \in PortIds
             /\ LiveRef(n, AgentPort(ip[1], ip[2]))
             /\ n.ports[ip[1]][ip[2]] = Tgt(n, AgentPort(ip[1], ip[2]))
    <2>1. ip[1] \in AgentIds /\ ip[2] \in PortIds
          /\ n.agents[ip[1]] # None /\ ip[2] < total_ports(n.agents[ip[1]])
        BY DEF LivePorts
    <2>2. /\ AgentPort(ip[1], ip[2]) \in AgentRefs
          /\ AgentPort(ip[1], ip[2])[2] = ip[1]
          /\ AgentPort(ip[1], ip[2])[3] = ip[2]
        BY <2>1, RefForms
    <2> QED
        BY <2>1, <2>2 DEF LiveRef, Tgt
<1> QED
    BY <1>1, <1>2

(* What a caller hands to reduce_all is tied.                              *)
LEMMA InputTied ==
    ASSUME NEW n, InputNet(n)
    PROVE  Tied(n, {})
<1>1. NetType(n) /\ assert_all_invariants(n) /\ Arena(n) /\ RedexesQueued(n)
    BY DEF InputNet, Arena
<1>2. \A r \in AgentRefs : Tgt(n, r) # r /\ (~LiveRef(n, r) => Tgt(n, r) = DISCONNECTED)
    <2> SUFFICES ASSUME NEW r \in AgentRefs
                 PROVE  Tgt(n, r) # r /\ (~LiveRef(n, r) => Tgt(n, r) = DISCONNECTED)
        OBVIOUS
    <2>1. r[2] \in AgentIds /\ r[3] \in PortIds /\ r = AgentPort(r[2], r[3])
        BY RefForms
    <2>2. /\ n.ports[r[2]][r[3]] # AgentPort(r[2], r[3])
          /\ <<r[2], r[3]>> \notin LivePorts(n) => n.ports[r[2]][r[3]] = DISCONNECTED
        BY <2>1 DEF InputNet
    <2> QED
        BY <1>1, <2>1, <2>2, LivePortIs DEF Tgt
<1>3. \A r \in AgentRefs : get_target(n, r) = Tgt(n, r) /\ Tgt(n, r) \in PortRefs
    BY <1>1, GetTarget, RefForms
<1>4. n.root # DISCONNECTED =>
          /\ n.root \in AgentRefs /\ n.root[3] = 0
          /\ LiveRef(n, n.root) /\ Tgt(n, n.root) = DISCONNECTED
    <2> SUFFICES ASSUME n.root # DISCONNECTED
                 PROVE  /\ n.root \in AgentRefs /\ n.root[3] = 0
                        /\ LiveRef(n, n.root) /\ Tgt(n, n.root) = DISCONNECTED
        OBVIOUS
    <2>1. IsPrincipal(n.root) /\ n.root[2] \in Live(n) /\ get_target(n, n.root) = DISCONNECTED
        BY <1>1 DEF assert_all_invariants, RootConsistent
    <2>2. n.root \in AgentRefs /\ n.root[3] = 0
        BY <1>1, <2>1, RefForms DEF IsPrincipal, NetType
    <2>3. n.agents[n.root[2]] \in Symbols
        BY <1>1, <2>1 DEF Live, NetType
    <2>4. \A s \in Symbols : s # None /\ 0 < total_ports(s)
        BY DEF Symbols, None, total_ports, arity
    <2>5. LiveRef(n, n.root)
        BY <2>2, <2>3, <2>4 DEF LiveRef
    <2> QED
        BY <1>3, <2>1, <2>2, <2>5
<1>5. \A r \in AgentRefs : LiveRef(n, r) /\ Tgt(n, r) = DISCONNECTED => r = n.root
    <2> SUFFICES ASSUME NEW r \in AgentRefs, LiveRef(n, r), Tgt(n, r) = DISCONNECTED
                 PROVE  r = n.root
        OBVIOUS
    <2>1. <<r[2], r[3]>> \in LivePorts(n) /\ n.ports[r[2]][r[3]] = DISCONNECTED
        BY <1>1, LivePortIs DEF Tgt
    <2>2. IsRootPrincipal(n, r[2], r[3])
        BY <1>1, <2>1 DEF assert_all_invariants, PortLinearity
    <2> QED
        BY <2>2, RefForms DEF IsRootPrincipal
<1>6. \A r \in AgentRefs :
          Tgt(n, r) = DISCONNECTED <=> (~LiveRef(n, r) \/ r \in {} \/ r = n.root)
    BY <1>2, <1>4, <1>5, RefForms
<1>7. \A r \in AgentRefs : Tgt(n, r) \in AgentRefs => Tgt(n, Tgt(n, r)) = r /\ Tgt(n, r) # r
    <2> SUFFICES ASSUME NEW r \in AgentRefs, Tgt(n, r) \in AgentRefs
                 PROVE  Tgt(n, Tgt(n, r)) = r
        BY <1>2
    <2>1. LiveRef(n, r)
        BY <1>2, RefForms
    <2>2. <<r[2], r[3]>> \in LivePorts(n) /\ n.ports[r[2]][r[3]] = Tgt(n, r)
        BY <1>1, <2>1, LivePortIs DEF Tgt
    <2>3. IsAgentPort(Tgt(n, r))
        BY RefForms
    <2>4. get_target(n, Tgt(n, r)) = AgentPort(r[2], r[3])
        BY <1>1, <2>2, <2>3 DEF assert_all_invariants, AdjacencySymmetric
    <2> QED
        BY <1>3, <2>4, RefForms
<1>8. Dangling(n, {})
    BY <1>4, <1>6, <1>7 DEF Dangling
<1>9. Queued(n, {})
    <2> SUFFICES ASSUME NEW i \in AgentIds, NEW j \in AgentIds,
                        Tgt(n, AgentPort(i, 0)) = AgentPort(j, 0)
                 PROVE  InQueue(n, i, j)
        BY DEF Queued
    <2>1. 0 \in PortIds
        BY DEF PortIds
    <2>2. \A k \in {i, j} : AgentPort(k, 0) \in AgentRefs /\ AgentPort(k, 0)[2] = k
        BY <2>1, RefForms
    <2>3. Tgt(n, AgentPort(j, 0)) = AgentPort(i, 0)
        BY <1>7, <2>2
    <2>4. i \in Live(n) /\ j \in Live(n)
        <3>1. LiveRef(n, AgentPort(i, 0)) /\ LiveRef(n, AgentPort(j, 0))
            BY <1>2, <2>2, <2>3, RefForms
        <3> QED
            BY <2>2, <3>1 DEF LiveRef, Live
    <2>5. <<i, j>> \in ActivePairs(n)
        BY <1>3, <2>2, <2>4 DEF ActivePairs, is_valid_redex
    <2>6. \E k \in DOMAIN n.queue : n.queue[k] \in {<<i, j>>, <<j, i>>}
        BY <1>1, <2>5 DEF RedexesQueued
    <2> QED
        BY <2>6 DEF InQueue
<1> QED
    BY <1>1, <1>8, <1>9 DEF Tied

(* A tied net passes  the checks of net/debug.rs and has no redex outside  *)
(* its queue.                                                              *)
LEMMA TiedChecked ==
    ASSUME NEW n, Tied(n, {})
    PROVE  assert_all_invariants(n) /\ RedexesQueued(n)
<1>1. NetType(n) /\ Arena(n) /\ Dangling(n, {}) /\ Queued(n, {})
    BY DEF Tied, Arena
<1>2. /\ \A r \in AgentRefs : Tgt(n, r) = DISCONNECTED <=> (~LiveRef(n, r) \/ r = n.root)
      /\ \A r \in AgentRefs : Tgt(n, r) \in AgentRefs => Tgt(n, Tgt(n, r)) = r
      /\ n.root # DISCONNECTED => n.root \in AgentRefs /\ n.root[3] = 0 /\ LiveRef(n, n.root)
    BY <1>1 DEF Dangling
<1>3. \A r \in AgentRefs : get_target(n, r) = Tgt(n, r) /\ Tgt(n, r) \in PortRefs
    BY <1>1, GetTarget, RefForms
<1>4. PortLinearity(n)
    <2> SUFFICES ASSUME NEW ip \in LivePorts(n), n.ports[ip[1]][ip[2]] = DISCONNECTED
                 PROVE  IsRootPrincipal(n, ip[1], ip[2])
        BY DEF PortLinearity
    <2> DEFINE r == AgentPort(ip[1], ip[2])
    <2>1. r \in AgentRefs /\ LiveRef(n, r) /\ Tgt(n, r) = DISCONNECTED
        BY <1>1, LivePortIs
    <2>2. r = n.root /\ r[3] = 0
        BY <1>2, <2>1, RefForms
    <2>3. ip[2] = 0
        BY <2>2, NewPorts DEF AgentPort
    <2> QED
        BY <2>2, <2>3 DEF IsRootPrincipal
<1>5. AdjacencySymmetric(n) /\ RefsValid(n)
    <2> SUFFICES ASSUME NEW ip \in LivePorts(n), IsAgentPort(n.ports[ip[1]][ip[2]])
                 PROVE  LET t == n.ports[ip[1]][ip[2]]
                        IN  /\ get_target(n, t) = AgentPort(ip[1], ip[2])
                            /\ <<t[2], t[3]>> \in LivePorts(n)
        BY DEF AdjacencySymmetric, RefsValid
    <2> DEFINE r == AgentPort(ip[1], ip[2])
               t == n.ports[ip[1]][ip[2]]
    <2>1. r \in AgentRefs /\ t = Tgt(n, r)
        BY <1>1, LivePortIs
    <2>2. t \in AgentRefs
        BY <1>3, <2>1, RefForms
    <2> HIDE DEF r, t
    <2>3. Tgt(n, t) = r
        BY <1>2, <2>1, <2>2
    <2>4. LiveRef(n, t)
        BY <1>2, <2>1, <2>2, <2>3, RefForms
    <2>5. <<t[2], t[3]>> \in LivePorts(n)
        BY <1>1, <2>2, <2>4, LivePortIs
    <2> QED
        BY <1>3, <2>2, <2>3, <2>5 DEF r, t
<1>6. NextIdValid(n)
    <2>1. n.next_id \in Nat /\ Live(n) \subseteq 0 .. n.next_id - 1
        BY <1>1 DEF Arena, NetType, FreeListAccounts
    <2> QED
        BY <2>1 DEF NextIdValid
<1>7. EraPortsClean(n)
    <2> SUFFICES ASSUME NEW i \in Live(n), n.agents[i] = "Era", NEW p \in {1, 2}
                 PROVE  n.ports[i][p] = DISCONNECTED
        BY DEF EraPortsClean
    <2>1. i \in AgentIds /\ p \in PortIds
        BY DEF Live, PortIds
    <2>2. /\ AgentPort(i, p) \in AgentRefs
          /\ AgentPort(i, p)[2] = i
          /\ AgentPort(i, p)[3] = p
        BY <2>1, RefForms
    <2>3. ~LiveRef(n, AgentPort(i, p))
        BY <2>2 DEF LiveRef, total_ports, arity
    <2>4. Tgt(n, AgentPort(i, p)) = DISCONNECTED
        BY <1>2, <2>2, <2>3
    <2> QED
        BY <2>2, <2>4 DEF Tgt
<1>8. RootConsistent(n)
    <2> SUFFICES ASSUME n.root # DISCONNECTED
                 PROVE  /\ IsPrincipal(n.root)
                        /\ n.root[2] \in Live(n)
                        /\ get_target(n, n.root) = DISCONNECTED
        BY DEF RootConsistent
    <2>1. n.root \in AgentRefs /\ n.root[3] = 0 /\ LiveRef(n, n.root)
        BY <1>2
    <2>2. n.root[2] \in Live(n)
        BY <2>1, RefForms DEF LiveRef, Live
    <2>3. get_target(n, n.root) = DISCONNECTED
        BY <1>2, <1>3, <2>1
    <2> QED
        BY <2>1, <2>2, <2>3, RefForms DEF IsPrincipal
<1>9. RedexesQueued(n)
    <2> SUFFICES ASSUME NEW ab \in ActivePairs(n)
                 PROVE  \E k \in DOMAIN n.queue : n.queue[k] \in {ab, <<ab[2], ab[1]>>}
        BY DEF RedexesQueued
    <2>1. /\ ab[1] \in AgentIds /\ ab[2] \in AgentIds /\ ab = <<ab[1], ab[2]>>
          /\ get_target(n, AgentPort(ab[1], 0)) = AgentPort(ab[2], 0)
        BY DEF ActivePairs, is_valid_redex, Live
    <2>2. 0 \in PortIds
        BY DEF PortIds
    <2>3. AgentPort(ab[1], 0) \in AgentRefs
        BY <2>1, <2>2, RefForms
    <2>4. InQueue(n, ab[1], ab[2])
        BY <1>1, <1>3, <2>1, <2>3 DEF Queued
    <2> QED
        BY <2>1, <2>4 DEF InQueue
<1> QED
    BY <1>4, <1>5, <1>6, <1>7, <1>8, <1>9 DEF assert_all_invariants

-----------------------------------------------------------------------------
(* The theorems.                                                           *)
LEMMA InitInv == Init => EngineInv
BY InputAssumption, InputTied DEF Init, EngineInv, Tied

(* Every step of the engine preserves the invariant.                       *)
LEMMA StepInv == EngineInv /\ [Next]_vars => EngineInv'
<1> SUFFICES ASSUME EngineInv, [Next]_vars
             PROVE  EngineInv'
    OBVIOUS
<1>1. ASSUME NEW rule, Reduce(rule)
      PROVE  EngineInv'
    <2>1. /\ FirstValid(net) # 0
          /\ HasRoomFor(net, Creates(HeadRule(net)))
          /\ net' = reduce_step(net)
        BY <1>1 DEF Reduce, IsNormalForm
    <2>2. tangled' = (tangled \/ Entangled(net, HeadPair(net)[1], HeadPair(net)[2]))
        BY <1>1 DEF Reduce
    <2>3. Arena(net')
        BY <2>1, StepArena DEF EngineInv
    <2>4. tangled' \in BOOLEAN
        BY <2>2
    <2>5. ASSUME ~tangled'
          PROVE  Tied(net', {})
        <3>1. ~tangled /\ ~Entangled(net, HeadPair(net)[1], HeadPair(net)[2])
            BY <2>2, <2>5
        <3>2. Sound({}, net, {})
            BY <3>1, NoFaces DEF EngineInv
        <3> QED
            BY <2>1, <3>1, <3>2, StepSound, NoFaces DEF Kept
    <2> QED
        BY <2>3, <2>4, <2>5 DEF EngineInv
<1>2. CASE ReturnNormalForm
    <2>1. FirstValid(net) = 0 /\ net' = reduce_step(net) /\ tangled' = tangled
        BY <1>2 DEF ReturnNormalForm, IsNormalForm
    <2>2. Arena(net')
        BY <2>1, StepArena DEF EngineInv
    <2>3. ~tangled => Tied(net', {})
        BY <2>1, NormalFormSound, NoFaces DEF EngineInv
    <2> QED
        BY <2>1, <2>2, <2>3 DEF EngineInv
<1>3. CASE UNCHANGED vars
    BY <1>3 DEF vars, EngineInv
<1> QED
    BY <1>1, <1>2, <1>3 DEF Next

(* Every net the engine reaches has a sound arena, and is well-wired with  *)
(* every active pair queued as long as no entangled pair was reduced.      *)
THEOREM EngineInductive == Spec => []EngineInv
BY InitInv, StepInv, PTL DEF Spec

(* SPEC-22 R6/R9: reduce_step never loses an id and never hands one out    *)
(* twice, whatever it reduces, entangled pairs included.                   *)
THEOREM FreeListSoundCorrect == Spec => []FreeListSound
<1>1. EngineInv => FreeListSound
    BY DEF EngineInv, Arena, FreeListSound
<1> QED
    BY <1>1, EngineInductive, PTL

(* The debug check at the end of reduce_step never fires on a net without  *)
(* entangled pairs.                                                        *)
THEOREM UntangledNetKeptWellFormedCorrect == Spec => []UntangledNetKeptWellFormed
<1>1. EngineInv => UntangledNetKeptWellFormed
    BY TiedChecked DEF EngineInv, UntangledNetKeptWellFormed
<1> QED
    BY <1>1, EngineInductive, PTL

(* When reduce_all finds its queue empty, the net is in normal form: no    *)
(* active pair was dropped on the way.                                     *)
THEOREM NoLostRedexCorrect == Spec => []NoLostRedex
<1>1. EngineInv => NoLostRedex
    BY TiedChecked DEF EngineInv, NoLostRedex
<1> QED
    BY <1>1, EngineInductive, PTL

-----------------------------------------------------------------------------
(* The interface ports of the net a caller hands over: each is held by one *)
(* port and not yet relayed.                                               *)
InterfaceInput(n) ==
    \A k \in FreeIndices(n) :
        /\ k \notin DOMAIN n.redirects
        /\ Cardinality(Holders(n, k)) = 1

(* The inductive invariant of the interface.                               *)
InterfaceInv == EngineInv /\ (~tangled => Sound(interface \ lost, net, {}))

(* A FreePort is held by one port when it has one holder.                  *)
LEMMA OneHolder ==
    ASSUME NEW n, Tied(n, {}), NEW k \in Nat, k # U32Max
    PROVE  /\ Cardinality(Holders(n, k)) = 1 <=>
                  \E r \in AgentRefs : \A s \in AgentRefs : Tgt(n, s) = FreePort(k) <=> s = r
           /\ Holders(n, k) = {} <=> ~Held(n, FreePort(k))
<1> DEFINE H == Holders(n, k)
           f == FreePort(k)
<1>1. NetType(n) /\ Dangling(n, {})
    BY DEF Tied, Arena
<1>2. f # DISCONNECTED
    BY NetAssumption DEF FreePort, DISCONNECTED
<1>3. ASSUME NEW i \in AgentIds, NEW p \in PortIds
      PROVE  /\ <<i, p>> \in H <=> Tgt(n, AgentPort(i, p)) = f
             /\ AgentPort(i, p) \in AgentRefs
    <2>1. AgentPort(i, p) \in AgentRefs /\ AgentPort(i, p)[2] = i /\ AgentPort(i, p)[3] = p
        BY RefForms
    <2>2. LiveRef(n, AgentPort(i, p)) <=> <<i, p>> \in LivePorts(n)
        BY <1>1, <2>1, LivePortIs
    <2>3. Tgt(n, AgentPort(i, p)) = n.ports[i][p]
        BY <2>1 DEF Tgt
    <2>4. Tgt(n, AgentPort(i, p)) = f => LiveRef(n, AgentPort(i, p))
        BY <1>1, <1>2, <2>1 DEF Dangling
    <2>5. <<i, p>>[1] = i /\ <<i, p>>[2] = p
        OBVIOUS
    <2> QED
        BY <2>1, <2>2, <2>3, <2>4, <2>5 DEF Holders
<1>4. \A s \in AgentRefs : s[2] \in AgentIds /\ s[3] \in PortIds /\ s = AgentPort(s[2], s[3])
    BY RefForms
<1>5. \A ip \in H : ip[1] \in AgentIds /\ ip[2] \in PortIds /\ ip = <<ip[1], ip[2]>>
    BY DEF Holders, LivePorts
<1>6. IsFiniteSet(H)
    <2>1. ArenaSize - 1 \in Int
        BY NetAssumption
    <2>2. IsFiniteSet(AgentIds) /\ IsFiniteSet(PortIds)
        <3>1. \A i, j \in Int : IsFiniteSet(i .. j)
            BY FS_Interval
        <3>2. 0 \in Int /\ 2 \in Int
            OBVIOUS
        <3> QED
            BY <2>1, <3>1, <3>2 DEF AgentIds, PortIds
    <2>3. IsFiniteSet(AgentIds \X PortIds)
        BY <2>2, FS_Product
    <2>4. H \subseteq AgentIds \X PortIds
        BY DEF Holders, LivePorts
    <2> QED
        BY <2>3, <2>4, FS_Subset
<1> HIDE DEF H, f
<1>7. Cardinality(H) = 1 <=> \E ip : H = {ip}
    BY <1>6, FS_Singleton
<1>8. ASSUME NEW ip, H = {ip}
      PROVE  \E r \in AgentRefs : \A s \in AgentRefs : Tgt(n, s) = f <=> s = r
    <2> DEFINE r == AgentPort(ip[1], ip[2])
    <2>1. ip[1] \in AgentIds /\ ip[2] \in PortIds /\ ip = <<ip[1], ip[2]>>
        BY <1>5, <1>8
    <2>2. r \in AgentRefs /\ Tgt(n, r) = f
        BY <1>3, <1>8, <2>1
    <2>3. \A s \in AgentRefs : Tgt(n, s) = f => s = r
        <3> SUFFICES ASSUME NEW s \in AgentRefs, Tgt(n, s) = f
                     PROVE  s = r
            OBVIOUS
        <3>1. <<s[2], s[3]>> \in H
            BY <1>3, <1>4
        <3>2. <<s[2], s[3]>> = <<ip[1], ip[2]>>
            BY <1>8, <2>1, <3>1
        <3>3. s[2] = ip[1] /\ s[3] = ip[2]
            BY <3>2
        <3> QED
            BY <1>4, <3>3
    <2> HIDE DEF r
    <2> QED
        BY <2>2, <2>3
<1>9. ASSUME NEW r \in AgentRefs, \A s \in AgentRefs : Tgt(n, s) = f <=> s = r
      PROVE  \E ip : H = {ip}
    <2>1. <<r[2], r[3]>> \in H
        BY <1>3, <1>4, <1>9
    <2>2. \A ip \in H : ip = <<r[2], r[3]>>
        <3> SUFFICES ASSUME NEW ip \in H
                     PROVE  ip = <<r[2], r[3]>>
            OBVIOUS
        <3>1. Tgt(n, AgentPort(ip[1], ip[2])) = f /\ AgentPort(ip[1], ip[2]) \in AgentRefs
            BY <1>3, <1>5
        <3>2. AgentPort(ip[1], ip[2]) = r
            BY <1>9, <3>1
        <3> QED
            BY <1>5, <3>2 DEF AgentPort
    <2>3. H = {<<r[2], r[3]>>}
        BY <2>1, <2>2
    <2> QED
        BY <2>3
<1>10. H = {} <=> ~Held(n, f)
    BY <1>3, <1>4, <1>5 DEF Held
<1> QED
    BY <1>7, <1>8, <1>9, <1>10 DEF H, f

(* What a caller hands over is sound with every FreePort it holds.         *)
LEMMA InputFaces ==
    ASSUME NEW n, Tied(n, {}), InterfaceInput(n)
    PROVE  Sound(FreeIndices(n), n, {})
<1> DEFINE K == FreeIndices(n)
<1>1. NetType(n) /\ Dangling(n, {})
    BY DEF Tied, Arena
<1>2. \A r \in AgentRefs : Tgt(n, r) \in PortRefs
    BY <1>1, GetTarget, RefForms
<1>3. ASSUME NEW r \in AgentRefs, Tgt(n, r) \notin AgentRefs, Tgt(n, r) # DISCONNECTED
      PROVE  Tgt(n, r)[2] \in K /\ Tgt(n, r) = FreePort(Tgt(n, r)[2])
    <2>1. LiveRef(n, r)
        BY <1>1, <1>3 DEF Dangling
    <2>2. <<r[2], r[3]>> \in LivePorts(n)
        BY <1>1, <2>1, LivePortIs
    <2>3. IsFreePort(n.ports[r[2]][r[3]]) /\ n.ports[r[2]][r[3]] # DISCONNECTED
        BY <1>2, <1>3, RefForms DEF Tgt
    <2>4. n.ports[r[2]][r[3]][2] \in K
        <3> DEFINE ip == <<r[2], r[3]>>
        <3>1. ip[1] = r[2] /\ ip[2] = r[3] /\ ip \in LivePorts(n)
            BY <2>2
        <3> HIDE DEF ip
        <3>2. n.ports[ip[1]][ip[2]][2] \in K
            BY <2>3, <3>1 DEF FreeIndices
        <3> QED
            BY <3>1, <3>2
    <2>5. Tgt(n, r) \in {"free"} \X Nat \X {0}
        BY <1>2, <1>3 DEF PortRefs, AgentRefs
    <2> QED
        BY <2>4, <2>5 DEF Tgt, FreePort
<1>4. ASSUME NEW k \in K
      PROVE  k \in Nat /\ k # U32Max
    <2>1. PICK ip \in LivePorts(n) : /\ IsFreePort(n.ports[ip[1]][ip[2]])
                                     /\ n.ports[ip[1]][ip[2]] # DISCONNECTED
                                     /\ k = n.ports[ip[1]][ip[2]][2]
        BY <1>4 DEF FreeIndices
    <2> DEFINE t == n.ports[ip[1]][ip[2]]
    <2>2. t \in PortRefs
        BY <1>1 DEF LivePorts, NetType
    <2>3. t \in {"free"} \X Nat \X {0}
        BY <2>1, <2>2, RefForms DEF PortRefs, AgentRefs
    <2>4. t[2] \in Nat /\ t = FreePort(t[2])
        BY <2>3 DEF FreePort
    <2> QED
        BY <2>1, <2>4 DEF DISCONNECTED
<1>5. Apart(K)
    BY <1>4 DEF Apart
<1> HIDE DEF K
<1>6. \A f \in Faces(K) : f[2] \in K /\ f = FreePort(f[2]) /\ f \notin AgentRefs
    BY <1>5, FaceForms
<1>7. \A f \in Faces(K) : f[2] \notin DOMAIN n.redirects
    BY <1>6 DEF InterfaceInput, K
<1>8. \A f \in Faces(K) :
          \E r \in AgentRefs : \A s \in AgentRefs : Tgt(n, s) = f <=> s = r
    <2> SUFFICES ASSUME NEW f \in Faces(K)
                 PROVE  \E r \in AgentRefs : \A s \in AgentRefs : Tgt(n, s) = f <=> s = r
        OBVIOUS
    <2>1. f[2] \in K /\ f = FreePort(f[2])
        BY <1>6
    <2>2. Cardinality(Holders(n, f[2])) = 1
        BY <2>1 DEF InterfaceInput, K
    <2> QED
        BY <1>4, <2>1, <2>2, OneHolder
<1>9. \A r \in AgentRefs : Tgt(n, r) \in AgentRefs \cup Faces(K) \cup {DISCONNECTED}
    BY <1>3 DEF Faces
<1>10. \A r, s \in AgentRefs : Tgt(n, r) \in Faces(K) /\ Tgt(n, s) = Tgt(n, r) => r = s
    BY <1>8
<1>11. \A f \in Faces(K) : Held(n, f)
    BY <1>8 DEF Held
<1>12. Facing(K, n, {})
    BY <1>7, <1>9, <1>10, <1>11 DEF Facing
<1>13. {} \cap AgentRefs = {}
    OBVIOUS
<1> QED
    BY <1>5, <1>12, <1>13 DEF Sound, Turned, K

(* A sound net has lost no FreePort.                                       *)
LEMMA FacesPreserved ==
    ASSUME NEW K, NEW n, Sound(K, n, {}), NEW k \in K
    PROVE  \/ Cardinality(Holders(n, k)) = 1 /\ k \notin DOMAIN n.redirects
           \/ /\ Holders(n, k) = {}
              /\ k \in DOMAIN n.redirects
              /\ n.redirects[k][2] \in DOMAIN n.redirects
              /\ n.redirects[n.redirects[k][2]] = FreePort(k)
<1> DEFINE f == FreePort(k)
<1>1. Tied(n, {}) /\ Apart(K) /\ Facing(K, n, {})
    BY NoFaces DEF Sound, Turned
<1>2. k \in Nat /\ k # U32Max /\ f \in Faces(K) /\ f[2] = k
    BY <1>1, FaceForms DEF Apart
<1> HIDE DEF f
<1>3. CASE k \in DOMAIN n.redirects
    <2>1. /\ ~Held(n, f)
          /\ n.redirects[k][2] \in DOMAIN n.redirects
          /\ n.redirects[n.redirects[k][2]] = f
        BY <1>1, <1>2, <1>3 DEF Facing
    <2> QED
        BY <1>1, <1>2, <1>3, <2>1, OneHolder DEF f
<1>4. CASE k \notin DOMAIN n.redirects
    <2>1. Held(n, f)
        BY <1>1, <1>2, <1>4 DEF Facing
    <2>2. PICK r \in AgentRefs : Tgt(n, r) = f
        BY <2>1 DEF Held
    <2>3. \A s \in AgentRefs : Tgt(n, s) = f <=> s = r
        BY <1>1, <1>2, <2>2 DEF Facing
    <2> QED
        BY <1>1, <1>2, <1>4, <2>3, OneHolder DEF f
<1> QED
    BY <1>3, <1>4

(* Every step of the engine keeps the interface.                           *)
LEMMA StepInterface == InterfaceInv /\ [Next]_vars => InterfaceInv'
<1> SUFFICES ASSUME InterfaceInv, [Next]_vars
             PROVE  InterfaceInv'
    OBVIOUS
<1>1. EngineInv /\ EngineInv'
    BY StepInv DEF InterfaceInv
<1>2. ASSUME NEW rule, Reduce(rule)
      PROVE  InterfaceInv'
    <2>1. /\ FirstValid(net) # 0
          /\ HasRoomFor(net, Creates(HeadRule(net)))
          /\ net' = reduce_step(net)
          /\ interface' = interface
          /\ tangled' = (tangled \/ Entangled(net, HeadPair(net)[1], HeadPair(net)[2]))
          /\ lost' = lost \cup Purged(net, {HeadPair(net)[1], HeadPair(net)[2]})
        BY <1>2 DEF Reduce, IsNormalForm
    <2>2. ASSUME ~tangled'
          PROVE  Sound(interface' \ lost', net', {})
        <3>1. ~tangled /\ ~Entangled(net, HeadPair(net)[1], HeadPair(net)[2])
            BY <2>1, <2>2
        <3>2. Sound(interface \ lost, net, {})
            BY <3>1 DEF InterfaceInv
        <3>3. interface' \ lost' =
                  Kept(interface \ lost, net, {HeadPair(net)[1], HeadPair(net)[2]})
            BY <2>1 DEF Kept
        <3> QED
            BY <2>1, <3>1, <3>2, <3>3, StepSound
    <2> QED
        BY <1>1, <2>2 DEF InterfaceInv
<1>3. CASE ReturnNormalForm
    <2>1. /\ FirstValid(net) = 0 /\ net' = reduce_step(net)
          /\ tangled' = tangled /\ interface' = interface /\ lost' = lost
        BY <1>3 DEF ReturnNormalForm, IsNormalForm
    <2>2. ~tangled => Sound(interface' \ lost', net', {})
        BY <2>1, NormalFormSound DEF InterfaceInv
    <2> QED
        BY <1>1, <2>1, <2>2 DEF InterfaceInv
<1>4. CASE UNCHANGED vars
    BY <1>1, <1>4 DEF vars, InterfaceInv
<1> QED
    BY <1>2, <1>3, <1>4 DEF Next

(* D5: reduce_all loses an interface port in one way only.  Each of them   *)
(* stays the target of one port, or two of them are relayed to one another *)
(* until an agent with the number of one of the two is removed.            *)
THEOREM InterfacePreservedCorrect == Spec /\ InterfaceInput(net) => []InterfacePreserved
<1>1. Init /\ InterfaceInput(net) => InterfaceInv
    <2> SUFFICES ASSUME Init, InterfaceInput(net)
                 PROVE  InterfaceInv
        OBVIOUS
    <2>1. EngineInv /\ ~tangled /\ interface \ lost = FreeIndices(net)
        BY InitInv DEF Init
    <2>2. Tied(net, {})
        BY <2>1 DEF EngineInv
    <2> QED
        BY <2>1, <2>2, InputFaces DEF InterfaceInv
<1>2. InterfaceInv => InterfacePreserved
    BY FacesPreserved DEF InterfaceInv, InterfacePreserved
<1> QED
    BY <1>1, <1>2, StepInterface, PTL DEF Spec
=============================================================================
