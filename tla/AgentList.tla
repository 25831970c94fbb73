------------------------------ MODULE AgentList ------------------------------
(***************************************************************************)
(* The agent list of the BTC relayer: how it is loaded when the relayer is *)
(* built, how the goroutine updateAgentsListLoop refreshes it every ten    *)
(* seconds, and what the scan and submit goroutines can read of it         *)
(* meanwhile.                                                              *)
(*                                                                         *)
(* The field TxRelayer.agents has no lock.  A Go slice is a header with a  *)
(* pointer and a length, and `r.agents = agents` writes the two words one  *)
(* after the other, in an order the language does not fix: a reader may    *)
(* find the pointer of one list with the length of the other.  A read past *)
(* the end of the array finds memory that is no agent, so it matches no    *)
(* address, or kills the process, which Crash allows at any time.          *)
(***************************************************************************)
EXTENDS BtcTx

CONSTANTS MaxCrashes     \* bound: how often the process dies

ASSUME CrashAssumption == MaxCrashes \in Nat

VARIABLES
  registry,  \* the agents on Lorenzo: live ids, and the last id given out
  agents,    \* TxRelayer.agents: [ptr: the array's content, len]
  refresh,   \* the updateAgentsList in progress: [pc, got, key]
  phase,     \* "down", "loading" (in NewTxRelayer) or "running"
  crashes

agentVars   == <<registry, agents, refresh, phase, crashes>>
processVars == <<agents, refresh, phase, crashes>>

RefreshIdle == [pc |-> "idle", got |-> <<>>, key |-> 1]
NilAgents   == [ptr |-> <<>>, len |-> 0]

AgentTypeOK ==
  /\ registry \in [live : SUBSET Agent, last : 0..NumAgents]
  /\ agents \in [ptr : Seq(Agent), len : Nat]
  /\ refresh \in [pc : {"idle", "page", "compare", "ptr", "len"},
                  got : Seq(Agent), key : 1..(NumAgents + 1)]
  /\ phase \in {"down", "loading", "running"}
  /\ crashes \in 0..MaxCrashes

AgentInit ==
  /\ registry \in {[live |-> 1..n, last |-> n] : n \in NumFounders..NumAgents}
  /\ agents = NilAgents
  /\ refresh = RefreshIdle
  /\ phase = "down"
  /\ crashes = 0

-----------------------------------------------------------------------------
\* Lorenzo's agent registry: ids grow, a removed id is never reused.

AddAgent ==
  /\ registry.last < NumAgents
  /\ registry' = [live |-> registry.live \cup {registry.last + 1},
                  last |-> registry.last + 1]
  /\ UNCHANGED processVars

RemoveAgent(a) ==
  /\ a \in registry.live \ Founder
  /\ registry' = [registry EXCEPT !.live = @ \ {a}]
  /\ UNCHANGED processVars

-----------------------------------------------------------------------------
\* The process comes up: NewTxRelayer loads the list before Start.

StartProcess ==
  /\ phase = "down"
  /\ phase' = "loading"
  /\ refresh' = [RefreshIdle EXCEPT !.pc = "page"]
  /\ UNCHANGED <<registry, agents, crashes>>

\* updateAgentsListLoop calls updateAgentsList.
StartRefresh ==
  /\ phase = "running"
  /\ refresh.pc = "idle"
  /\ refresh' = [RefreshIdle EXCEPT !.pc = "page"]
  /\ UNCHANGED <<registry, agents, phase, crashes>>

\* The list is in place; the goroutines start if this was the first load.
Loaded ==
  /\ refresh' = RefreshIdle
  /\ phase' = "running"

\* One page of the Agents query: the agents of ids from key on.  A page holds
\* one agent here, the finest interleaving with AddAgent and RemoveAgent.
RemainingAgents == {a \in registry.live : a >= refresh.key}

FetchPage ==
  /\ refresh.pc = "page"
  /\ \/ \E a \in RemainingAgents :
          /\ \A b \in RemainingAgents : a <= b
          /\ refresh' = [pc  |-> IF RemainingAgents = {a} THEN "compare" ELSE "page",
                         got |-> Append(refresh.got, a),
                         key |-> a + 1]
     \/ /\ RemainingAgents = {}
        /\ refresh' = [refresh EXCEPT !.pc = "compare"]
  /\ UNCHANGED <<registry, agents, phase, crashes>>

\* Mutant of PageError: the pages read so far are taken for the whole list.
PageErrorStopsShort ==
  /\ refresh.pc = "page"
  /\ refresh' = [refresh EXCEPT !.pc = "compare"]
  /\ UNCHANGED <<registry, agents, phase, crashes>>

\* Mutant of PageError: the first page again, behind those already read.
PageErrorStartsOver ==
  /\ refresh.pc = "page"
  /\ refresh' = [refresh EXCEPT !.key = 1]
  /\ UNCHANGED <<registry, agents, phase, crashes>>

\* A page fails: the list in use stays.  In NewTxRelayer the process panics.
PageError ==
  /\ refresh.pc = "page"
  /\ refresh' = RefreshIdle
  /\ phase' = IF phase = "loading" THEN "down" ELSE phase
  /\ UNCHANGED <<registry, agents, crashes>>

\* Mutant of KeepList: lists of one length count as equal.
KeepListOfSameLength ==
  /\ refresh.pc = "compare"
  /\ Len(refresh.got) = Len(agents.ptr)
  /\ Loaded
  /\ UNCHANGED <<registry, agents, crashes>>

\* reflect.DeepEqual finds no difference: nothing is stored.
KeepList ==
  /\ refresh.pc = "compare"
  /\ refresh.got = agents.ptr
  /\ Loaded
  /\ UNCHANGED <<registry, agents, crashes>>

\* r.agents = agents, first word.
StoreFirstWord ==
  /\ refresh.pc = "compare"
  /\ refresh.got # agents.ptr
  /\ \/ /\ agents' = [agents EXCEPT !.ptr = refresh.got]
        /\ refresh' = [refresh EXCEPT !.pc = "len"]
     \/ /\ agents' = [agents EXCEPT !.len = Len(refresh.got)]
        /\ refresh' = [refresh EXCEPT !.pc = "ptr"]
  /\ UNCHANGED <<registry, phase, crashes>>

\* r.agents = agents, second word.
StoreSecondWord ==
  /\ refresh.pc \in {"ptr", "len"}
  /\ agents' = [ptr |-> refresh.got, len |-> Len(refresh.got)]
  /\ Loaded
  /\ UNCHANGED <<registry, crashes>>

\* The process dies, or is stopped; what it had in memory is gone.
KillProcess ==
  /\ phase # "down"
  /\ crashes < MaxCrashes
  /\ crashes' = crashes + 1
  /\ phase' = "down"
  /\ agents' = NilAgents
  /\ refresh' = RefreshIdle
  /\ UNCHANGED registry

-----------------------------------------------------------------------------
\* What a reader of r.agents finds.

Readable(i) == i \in 1..agents.len /\ i \in DOMAIN agents.ptr

Matches(i, addr) == Readable(i) /\ AgentAddr[agents.ptr[i]] = addr

\* GetAgentByAddress returns the agent at position i.
FirstMatch(i, addr) ==
  /\ Matches(i, addr)
  /\ \A j \in 1..(i - 1) : ~Matches(j, addr)

\* GetAgentByAddress returns nil, IsValidDepositReceiver false.
NoMatch(addr) == \A i \in DOMAIN agents.ptr : ~Matches(i, addr)

IsValidDepositReceiver(addr) == ~NoMatch(addr)

-----------------------------------------------------------------------------
RefreshNext ==
  \/ StartRefresh \/ FetchPage \/ PageError
  \/ KeepList \/ StoreFirstWord \/ StoreSecondWord

RegistryNext == AddAgent \/ \E a \in Agent : RemoveAgent(a)

AgentNext == StartProcess \/ RefreshNext \/ RegistryNext \/ KillProcess

AgentSpec == AgentInit /\ [][AgentNext]_agentVars

-----------------------------------------------------------------------------
(* While the goroutines run, an agent that was registered before the start *)
(* and never removed is at its place in what a reader finds: no refresh    *)
(* that fails half-way, no list caught between two pages and no half       *)
(* written slice header ever hides it.  (updateAgentsList, TxRelayer.agents)*)
FoundersVisible ==
  phase = "running" =>
    \A f \in Founder : Readable(f) /\ agents.ptr[f] = f

(* What a refresh stores is in the order of the ids, without repetition:   *)
(* the first match is the oldest agent of an address, whatever the         *)
(* registry did between two pages.  (updateAgentsList, GetAgentByAddress)  *)
Ascending(s) == \A i, j \in DOMAIN s : i < j => s[i] < s[j]
ListAscending == Ascending(agents.ptr)

(* When the registry stops changing the relayer ends up, for good, with    *)
(* exactly the registered agents and a whole slice header.                 *)
ListConverges ==
  <>[](/\ agents.len = Len(agents.ptr)
       /\ {agents.ptr[i] : i \in DOMAIN agents.ptr} = registry.live)
=============================================================================
