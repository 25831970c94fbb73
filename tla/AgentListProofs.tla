--------------------------- MODULE AgentListProofs ---------------------------
(***************************************************************************)
(* The agent list is right for every registry and every number of crashes: *)
(* its type invariant, FoundersVisible and ListAscending, from one         *)
(* inductive invariant, AgentInv.                                          *)
(***************************************************************************)
EXTENDS AgentList, TLAPS

\* A list holds the founders up to n, each at its own position.
HoldsFounders(s, n) == \A f \in Founder : f <= n => f \in DOMAIN s /\ s[f] = f

RegistryInv ==
  /\ Founder \subseteq registry.live
  /\ NumFounders <= registry.last

\* Between two pages the founders read so far are a prefix of the list; once
\* the last page is there all of them are.
PagesInv ==
  /\ refresh.pc = "page" =>
       /\ HoldsFounders(refresh.got, refresh.key - 1)
       /\ refresh.key <= NumFounders => Len(refresh.got) = refresh.key - 1
  /\ refresh.pc \in {"compare", "ptr", "len"} =>
       HoldsFounders(refresh.got, NumFounders)

OrderInv ==
  /\ Ascending(refresh.got)
  /\ \A i \in DOMAIN refresh.got : refresh.got[i] < refresh.key
  /\ Ascending(agents.ptr)

\* There is no list before the first one is stored.
PhaseInv ==
  /\ phase = "down" => refresh.pc = "idle"
  /\ phase # "running" /\ refresh.pc \in {"idle", "page", "compare"} => agents = NilAgents

AgentInv ==
  /\ AgentTypeOK
  /\ RegistryInv
  /\ PagesInv
  /\ OrderInv
  /\ PhaseInv
  /\ FoundersVisible

-----------------------------------------------------------------------------
(* The invariant holds when the process has never run.                     *)
LEMMA AgentInvInit == AgentInit => AgentInv
<1> SUFFICES ASSUME AgentInit PROVE AgentInv
  OBVIOUS
<1> USE AgentAssumption, CrashAssumption DEF AgentInit
<1>1. AgentTypeOK
  BY DEF AgentTypeOK, NilAgents, RefreshIdle, Agent
<1>2. RegistryInv
  BY DEF RegistryInv, Founder
<1>3. PagesInv /\ OrderInv /\ PhaseInv /\ FoundersVisible
  BY DEF PagesInv, OrderInv, PhaseInv, FoundersVisible, Ascending, NilAgents, RefreshIdle
<1> QED BY <1>1, <1>2, <1>3 DEF AgentInv

(* Taking a page: the smallest agent left is appended, and it is the next  *)
(* founder as long as founders are left.                                   *)
LEMMA FetchPageKeeps == AgentInv /\ FetchPage => AgentInv'
<1> SUFFICES ASSUME AgentInv, FetchPage PROVE AgentInv'
  OBVIOUS
<1> USE AgentAssumption
<1>0. UNCHANGED <<registry, agents, phase, crashes>> /\ refresh.pc = "page"
  BY DEF FetchPage
<1>t. AgentTypeOK BY DEF AgentInv
<1>1. CASE \E a \in RemainingAgents :
             /\ \A b \in RemainingAgents : a <= b
             /\ refresh' = [pc  |-> IF RemainingAgents = {a} THEN "compare" ELSE "page",
                            got |-> Append(refresh.got, a),
                            key |-> a + 1]
  <2>1. PICK a \in RemainingAgents :
             /\ \A b \in RemainingAgents : a <= b
             /\ refresh' = [pc  |-> IF RemainingAgents = {a} THEN "compare" ELSE "page",
                            got |-> Append(refresh.got, a),
                            key |-> a + 1]
    BY <1>1
  <2> DEFINE got == refresh.got
  <2>2. /\ got \in Seq(Agent)
        /\ a \in Agent /\ a >= refresh.key
        /\ refresh.key \in 1..(NumAgents + 1)
    BY <1>t DEF AgentTypeOK, RemainingAgents, Agent
  <2>3. /\ refresh'.got = Append(got, a) /\ refresh'.key = a + 1
        /\ refresh'.pc = IF RemainingAgents = {a} THEN "compare" ELSE "page"
    BY <2>1
  <2>4. /\ Append(got, a) \in Seq(Agent)
        /\ Len(Append(got, a)) = Len(got) + 1
        /\ DOMAIN got = 1..Len(got) /\ Len(got) \in Nat
        /\ DOMAIN Append(got, a) = 1..(Len(got) + 1)
        /\ \A i \in 1..Len(got) : Append(got, a)[i] = got[i]
        /\ Append(got, a)[Len(got) + 1] = a
    BY <2>2
  <2>5. AgentTypeOK'
    BY <1>0, <1>t, <2>1, <2>2, <2>4 DEF AgentTypeOK, Agent
  <2>6. OrderInv'
    <3>1. Ascending(got) /\ \A i \in DOMAIN got : got[i] < refresh.key
      BY DEF AgentInv, OrderInv
    <3>2. \A i \in 1..Len(got) : got[i] \in Int
      BY <2>2, <2>4 DEF Agent
    <3> DEFINE new == Append(got, a)
    <3>a. \A i \in 1..Len(got) : got[i] < a
      <4> SUFFICES ASSUME NEW i \in 1..Len(got) PROVE got[i] < a
        OBVIOUS
      <4>1. got[i] < refresh.key /\ got[i] \in Int
        BY <2>4, <3>1, <3>2
      <4>2. a \in Int /\ refresh.key \in Int
        BY <2>2 DEF Agent
      <4> HIDE DEF got
      <4> QED BY <2>2, <4>1, <4>2
    <3>b. /\ DOMAIN new = 1..(Len(got) + 1)
          /\ \A i \in 1..Len(got) : new[i] = got[i]
          /\ new[Len(got) + 1] = a
      BY <2>4
    <3> HIDE DEF new, got
    <3>3. Ascending(new)
      <4> SUFFICES ASSUME NEW i \in 1..(Len(got) + 1), NEW j \in 1..(Len(got) + 1), i < j
                   PROVE  new[i] < new[j]
        BY <3>b DEF Ascending
      <4>1. i \in 1..Len(got) BY <2>4
      <4>2. CASE j = Len(got) + 1 BY <3>a, <3>b, <4>1, <4>2
      <4>3. CASE j \in 1..Len(got) BY <2>4, <3>1, <3>b, <4>1, <4>3 DEF Ascending
      <4> QED BY <2>4, <4>2, <4>3
    <3>4. \A i \in 1..(Len(got) + 1) : new[i] < a + 1
      <4> SUFFICES ASSUME NEW i \in 1..(Len(got) + 1) PROVE new[i] < a + 1
        OBVIOUS
      <4>1. a \in Int /\ Len(got) \in Nat
        BY <2>2, <2>4 DEF Agent, got
      <4>2. CASE i = Len(got) + 1 BY <3>b, <4>1, <4>2
      <4>3. CASE i \in 1..Len(got)
        <5>1. new[i] < a /\ new[i] \in Int BY <3>a, <3>b, <3>2, <4>3
        <5> QED BY <4>1, <5>1
      <4> QED BY <4>1, <4>2, <4>3
    <3> USE DEF new, got
    <3> QED BY <1>0, <2>3, <2>4, <3>3, <3>4 DEF AgentInv, OrderInv
  <2>7. \A f \in Founder : f >= refresh.key => f \in RemainingAgents
    BY DEF AgentInv, RegistryInv, RemainingAgents
  <2>8. refresh.key <= NumFounders => a = refresh.key /\ Len(got) = refresh.key - 1
    <3> SUFFICES ASSUME refresh.key <= NumFounders
                 PROVE  a = refresh.key /\ Len(got) = refresh.key - 1
      OBVIOUS
    <3>1. refresh.key \in RemainingAgents
      BY <2>2, <2>7 DEF Founder
    <3> QED BY <1>0, <2>1, <2>2, <3>1 DEF AgentInv, PagesInv, Agent
  <2>9. HoldsFounders(got, refresh.key - 1)
    BY <1>0 DEF AgentInv, PagesInv
  <2>10. HoldsFounders(Append(got, a), a)
    <3> SUFFICES ASSUME NEW f \in Founder, f <= a
                 PROVE  f \in 1..(Len(got) + 1) /\ Append(got, a)[f] = f
      BY <2>4 DEF HoldsFounders
    <3>1. CASE f < refresh.key
      <4>1. f \in Int /\ refresh.key \in Int
        BY <2>2 DEF Founder
      <4>2. f \in DOMAIN got /\ got[f] = f
        BY <2>9, <3>1, <4>1 DEF HoldsFounders
      <4>3. f \in 1..Len(got)
        BY <2>4, <4>2
      <4>4. f \in 1..(Len(got) + 1)
        BY <2>4, <4>3
      <4> QED BY <2>4, <4>2, <4>3, <4>4
    <3>2. CASE f >= refresh.key
      BY <2>2, <2>4, <2>8, <3>2 DEF Founder, Agent
    <3> QED BY <2>2, <3>1, <3>2 DEF Founder
  <2>11. PagesInv'
    <3>1. CASE RemainingAgents = {a}
      <4>1. \A f \in Founder : f <= a
        <5> SUFFICES ASSUME NEW f \in Founder PROVE f <= a
          OBVIOUS
        <5>1. f \in Int /\ a \in Int /\ refresh.key \in Int
          BY <2>2 DEF Founder, Agent
        <5>2. f < refresh.key \/ f = a
          BY <2>7, <3>1, <5>1
        <5> QED BY <2>2, <5>1, <5>2
      <4>2. HoldsFounders(Append(got, a), NumFounders)
        BY <2>10, <4>1 DEF HoldsFounders
      <4> QED BY <2>3, <3>1, <4>2 DEF PagesInv
    <3>2. CASE RemainingAgents # {a}
      <4>1. a + 1 <= NumFounders => Len(Append(got, a)) = (a + 1) - 1
        BY <2>2, <2>4, <2>8 DEF Agent
      <4>2. HoldsFounders(Append(got, a), (a + 1) - 1)
        <5>1. (a + 1) - 1 = a BY <2>2 DEF Agent
        <5> HIDE DEF got
        <5> QED BY <2>10, <5>1
      <4> QED BY <2>3, <3>2, <4>1, <4>2 DEF PagesInv
    <3> QED BY <3>1, <3>2
  <2>12. RegistryInv' /\ PhaseInv' /\ FoundersVisible'
    BY <1>0, <2>3 DEF AgentInv, RegistryInv, PhaseInv, FoundersVisible, Readable
  <2> QED BY <2>5, <2>6, <2>11, <2>12 DEF AgentInv
<1>2. CASE RemainingAgents = {} /\ refresh' = [refresh EXCEPT !.pc = "compare"]
  <2>1. AgentTypeOK'
    BY <1>0, <1>t, <1>2 DEF AgentTypeOK
  <2>2. refresh'.got = refresh.got /\ refresh'.key = refresh.key /\ refresh'.pc = "compare"
    BY <1>t, <1>2 DEF AgentTypeOK
  <2>3. \A f \in Founder : f < refresh.key
    BY <1>2, <1>t DEF AgentInv, RegistryInv, RemainingAgents, AgentTypeOK, Founder
  <2>4. HoldsFounders(refresh.got, NumFounders)
    <3>1. HoldsFounders(refresh.got, refresh.key - 1)
      BY <1>0 DEF AgentInv, PagesInv
    <3> QED BY <1>t, <2>3, <3>1 DEF HoldsFounders, Founder, AgentTypeOK
  <2>5. PagesInv'
    BY <2>2, <2>4 DEF PagesInv
  <2>6. RegistryInv' /\ OrderInv' /\ PhaseInv' /\ FoundersVisible'
    BY <1>0, <2>2 DEF AgentInv, RegistryInv, OrderInv, PhaseInv, FoundersVisible, Readable
  <2> QED BY <2>1, <2>5, <2>6 DEF AgentInv
<1> QED BY <1>1, <1>2 DEF FetchPage

(* Every other step of the refresh, of the registry and of the process.    *)
LEMMA AgentInvNext == AgentInv /\ [AgentNext]_agentVars => AgentInv'
<1> SUFFICES ASSUME AgentInv, [AgentNext]_agentVars PROVE AgentInv'
  OBVIOUS
<1> USE AgentAssumption, CrashAssumption
<1>t. AgentTypeOK BY DEF AgentInv
<1>a. ASSUME refresh' = [RefreshIdle EXCEPT !.pc = "page"]
      PROVE  /\ refresh' \in [pc : {"page"}, got : Seq(Agent), key : 1..(NumAgents + 1)]
             /\ PagesInv'
             /\ agents' = agents => OrderInv'
  <2>1. refresh' = [pc |-> "page", got |-> <<>>, key |-> 1]
    BY <1>a DEF RefreshIdle
  <2>2. PagesInv'
    <3>1. HoldsFounders(<<>>, 0) BY DEF HoldsFounders, Founder
    <3> QED BY <2>1, <3>1 DEF PagesInv
  <2>3. agents' = agents => OrderInv'
    BY <2>1 DEF AgentInv, OrderInv, Ascending
  <2> QED BY <2>1, <2>2, <2>3
<1>1. CASE StartProcess
  BY <1>1, <1>a, <1>t DEF StartProcess, AgentInv, AgentTypeOK, RegistryInv, PhaseInv,
                          FoundersVisible
<1>2. CASE StartRefresh
  BY <1>2, <1>a, <1>t DEF StartRefresh, AgentInv, AgentTypeOK, RegistryInv, PhaseInv,
                          FoundersVisible, Readable
<1>3. CASE FetchPage
  BY <1>3, FetchPageKeeps
<1>4. CASE PageError
  BY <1>4 DEF PageError, AgentInv, AgentTypeOK, RegistryInv, PagesInv, OrderInv, PhaseInv,
              FoundersVisible, Readable, RefreshIdle, Ascending
<1>5. CASE KeepList
  <2>1. /\ refresh.pc = "compare" /\ refresh.got = agents.ptr
        /\ refresh' = RefreshIdle /\ phase' = "running"
        /\ UNCHANGED <<registry, agents, crashes>>
    BY <1>5 DEF KeepList, Loaded
  <2>2. AgentTypeOK' /\ RegistryInv' /\ PagesInv' /\ OrderInv' /\ PhaseInv'
    BY <2>1, <1>t DEF AgentInv, AgentTypeOK, RegistryInv, PagesInv, OrderInv, PhaseInv,
                      RefreshIdle, Ascending
  <2>3. CASE phase = "running"
    <3>1. FoundersVisible'
      BY <2>1, <2>3 DEF AgentInv, FoundersVisible, Readable
    <3> QED BY <2>2, <3>1 DEF AgentInv
  <2>4. CASE phase # "running"
    <3>1. agents = NilAgents
      BY <2>1, <2>4 DEF AgentInv, PhaseInv
    <3>2. HoldsFounders(refresh.got, NumFounders)
      BY <2>1 DEF AgentInv, PagesInv
    <3>3. Founder = {}
      BY <2>1, <3>1, <3>2 DEF HoldsFounders, NilAgents, Founder
    <3>4. FoundersVisible'
      BY <3>3 DEF FoundersVisible
    <3> QED BY <2>2, <3>4 DEF AgentInv
  <2> QED BY <2>3, <2>4
<1>6. CASE StoreFirstWord
  <2>1. /\ refresh.pc = "compare" /\ UNCHANGED <<registry, phase, crashes>>
        /\ \/ /\ agents' = [agents EXCEPT !.ptr = refresh.got]
              /\ refresh' = [refresh EXCEPT !.pc = "len"]
           \/ /\ agents' = [agents EXCEPT !.len = Len(refresh.got)]
              /\ refresh' = [refresh EXCEPT !.pc = "ptr"]
    BY <1>6 DEF StoreFirstWord
  <2>2. /\ refresh'.pc \in {"ptr", "len"} /\ refresh'.got = refresh.got
        /\ refresh'.key = refresh.key
        /\ agents'.ptr \in {agents.ptr, refresh.got}
        /\ agents'.len \in {agents.len, Len(refresh.got)}
        /\ agents' \in [ptr : Seq(Agent), len : Nat]
    BY <2>1, <1>t DEF AgentTypeOK
  <2>3. AgentTypeOK' /\ RegistryInv'
    BY <2>1, <2>2, <1>t DEF AgentInv, AgentTypeOK, RegistryInv
  <2>4. PagesInv' /\ OrderInv' /\ PhaseInv'
    BY <2>1, <2>2 DEF AgentInv, PagesInv, OrderInv, PhaseInv, Ascending
  <2>5. HoldsFounders(refresh.got, NumFounders)
    BY <2>1 DEF AgentInv, PagesInv
  <2>6. FoundersVisible'
    <3> SUFFICES ASSUME phase = "running", NEW f \in Founder
                 PROVE  Readable(f)' /\ agents'.ptr[f] = f
      BY <2>1 DEF FoundersVisible
    <3>1. f \in DOMAIN refresh.got /\ refresh.got[f] = f /\ f \in 1..Len(refresh.got)
      BY <2>5, <1>t DEF HoldsFounders, Founder, AgentTypeOK
    <3>2. f \in DOMAIN agents.ptr /\ agents.ptr[f] = f /\ f \in 1..agents.len
      BY DEF AgentInv, FoundersVisible, Readable
    <3> QED BY <2>2, <3>1, <3>2 DEF Readable
  <2> QED BY <2>3, <2>4, <2>6 DEF AgentInv
<1>7. CASE StoreSecondWord
  <2>1. /\ refresh.pc \in {"ptr", "len"} /\ UNCHANGED <<registry, crashes>>
        /\ agents' = [ptr |-> refresh.got, len |-> Len(refresh.got)]
        /\ refresh' = RefreshIdle /\ phase' = "running"
    BY <1>7 DEF StoreSecondWord, Loaded
  <2>2. AgentTypeOK' /\ RegistryInv'
    BY <2>1, <1>t DEF AgentInv, AgentTypeOK, RegistryInv, RefreshIdle
  <2>3. PagesInv' /\ OrderInv' /\ PhaseInv'
    BY <2>1 DEF AgentInv, PagesInv, OrderInv, PhaseInv, Ascending, RefreshIdle
  <2>4. HoldsFounders(refresh.got, NumFounders)
    BY <2>1 DEF AgentInv, PagesInv
  <2>5. FoundersVisible'
    BY <2>1, <2>4, <1>t DEF HoldsFounders, Founder, AgentTypeOK, FoundersVisible, Readable
  <2> QED BY <2>2, <2>3, <2>5 DEF AgentInv
<1>8. CASE AddAgent
  BY <1>8 DEF AddAgent, processVars, AgentInv, AgentTypeOK, RegistryInv, PagesInv, OrderInv,
              PhaseInv, FoundersVisible, Readable, Agent
<1>9. CASE \E a \in Agent : RemoveAgent(a)
  <2>1. PICK a \in Agent : RemoveAgent(a) BY <1>9
  <2>2. /\ registry' = [live |-> registry.live \ {a}, last |-> registry.last]
        /\ a \notin Founder
    BY <2>1, <1>t DEF RemoveAgent, AgentTypeOK
  <2>3. UNCHANGED processVars BY <2>1 DEF RemoveAgent
  <2> QED
    BY <2>2, <2>3, <1>t DEF processVars, AgentInv, AgentTypeOK, RegistryInv, PagesInv, OrderInv,
                            PhaseInv, FoundersVisible, Readable
<1>10. CASE KillProcess
  BY <1>10 DEF KillProcess, AgentInv, AgentTypeOK, RegistryInv, PagesInv, OrderInv, PhaseInv,
               FoundersVisible, RefreshIdle, NilAgents, Ascending
<1>11. CASE UNCHANGED agentVars
  BY <1>11 DEF agentVars, AgentInv, AgentTypeOK, RegistryInv, PagesInv, OrderInv, PhaseInv,
               FoundersVisible, Readable
<1> QED
  BY <1>1, <1>2, <1>3, <1>4, <1>5, <1>6, <1>7, <1>8, <1>9, <1>10, <1>11
  DEF AgentNext, RefreshNext, RegistryNext

(* Reachable states of the agent list satisfy the inductive invariant.     *)
THEOREM AgentInvariant == AgentSpec => []AgentInv
<1> QED BY AgentInvInit, AgentInvNext, PTL DEF AgentSpec

(* The variables of updateAgentsList always have their types.              *)
THEOREM AgentTypeCorrect == AgentSpec => []AgentTypeOK
<1>1. AgentInv => AgentTypeOK BY DEF AgentInv
<1> QED BY <1>1, AgentInvariant, PTL

(* No reader of r.agents ever misses an agent that was there all along.    *)
THEOREM FoundersAlwaysVisible == AgentSpec => []FoundersVisible
<1>1. AgentInv => FoundersVisible BY DEF AgentInv
<1> QED BY <1>1, AgentInvariant, PTL

(* The list that readers search is in the order of the ids.                *)
THEOREM ListAlwaysAscending == AgentSpec => []ListAscending
<1>1. AgentInv => ListAscending BY DEF AgentInv, OrderInv, ListAscending
<1> QED BY <1>1, AgentInvariant, PTL

-----------------------------------------------------------------------------
(* GetAgentByAddress returns nil for no address of a founder.              *)
LEMMA NoMatchNoFounder ==
  ASSUME AgentInv, phase = "running", NEW addr, NoMatch(addr)
  PROVE  \A f \in Founder : AgentAddr[f] # addr
BY DEF AgentInv, FoundersVisible, NoMatch, Matches, Readable
=============================================================================
