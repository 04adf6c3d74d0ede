----------------------------- MODULE MCSurfaces -----------------------------
(***************************************************************************)
(* Four small parts in one run.  They share no state, so a behaviour follows *)
(* one of them and the others stand still: a stream of the v2 reference host *)
(* (EventStream), one of a v1 host (HostStreams), the in-memory host's files *)
(* and runs (InMemoryHost), a workflow that chains are put into              *)
(* (ChainExpansion).                                                         *)
(***************************************************************************)
EXTENDS EventStream, HostStreams, InMemoryHost, ChainExpansion

\* The requests a stream can be asked for with (events.ts parseStreamModes:
\* values alone, or any of the others together).
AllModes == {{"values"}} \cup (SUBSET {"updates", "messages", "debug"} \ {{}})

AllRequests == [modes : AllModes, buffered : BOOLEAN]

\* Ids a stream of a v1 host may resume from: none, and the first two events.
FirstIds == -1..1

\* A workflow that is paused by a delay on its way, one that fails after it.
Flows == [pause |-> <<"noop", "delay", "wasm">>, fails |-> <<"delay", "wasm fails">>]

---------------------------------------------------------------------------
(* Packs of chains *)

Node(id) == [id |-> id, type |-> "t", config |-> {}, irreversible |-> FALSE, inverse |-> "none", mapping |-> {}]

\* An inverse told of its own node and of a parameter; a parameter in a text;
\* an inverse told a parameter alone.
Pay == [Node("pay") EXCEPT !.config = {Param("who")}, !.inverse = "t", !.mapping = {Text, Ref("pay"), Param("who")}]
Ship == [Node("ship") EXCEPT !.config = {Text, Param("who")}]
Log == [Node("log") EXCEPT !.inverse = "t", !.mapping = {Param("who")}]

Edge(a, b, rule) == [from |-> Ref(a), to |-> Ref(b), rule |-> rule]

Chain(nodes, edges, policy) == [nodes |-> nodes, edges |-> edges, policy |-> policy]

\* Chains that fit, two that name a node of the parent, and two that do not.
Chains ==
  [order |-> Chain(<<Pay, Ship>>, {Edge("pay", "ship", "all_success"), Edge("ship", "own", "none")}, "reverse"),
   note |-> Chain(<<Log, [Ship EXCEPT !.irreversible = TRUE]>>, {Edge("log", "ship", "none")}, "none"),
   refund |-> Chain(<<Pay>>, {}, "graph"),
   both |-> Chain(<<[Pay EXCEPT !.irreversible = TRUE]>>, {}, "none"),
   odd |-> Chain(<<[Pay EXCEPT !.inverse = "unheard of"]>>, {}, "none")]

Pack == [kind |-> "workflow-chain", version |-> "1", signature |-> "none", chains |-> Chains]

Packs == [sample |-> Pack, nodes |-> [Pack EXCEPT !.kind = "node"], forged |-> [Pack EXCEPT !.signature = "bad"],
          signed |-> [Pack EXCEPT !.signature = "good", !.version = "2"]]

Given == [structured : BOOLEAN, parts : {{Text}, {Ref("own")}}]

AllAsks == [pack : DOMAIN Packs \cup {"lost"}, version : {"any", "1"}, chain : DOMAIN Chains,
            params : {<<>>} \cup [{"who"} -> Given]]

---------------------------------------------------------------------------
VARIABLE followed

streamVars == <<vars, hostStreamVars>>

\* What is not followed starts, and stays, in one state.
SurfacesInit ==
  /\ followed \in {"v2 stream", "v1 stream", "memory", "chains"}
  /\ Init /\ HostInit /\ MemoryInit /\ ChainInit
  /\ followed # "v2 stream" => req = [modes |-> {"debug"}, buffered |-> FALSE]
  /\ followed # "v1 stream" => host = "sqlite" /\ reader = "poller"
  /\ followed # "chains" => flow.policy = "none"

V2(A) == followed = "v2 stream" /\ A /\ UNCHANGED <<followed, hostStreamVars, memoryVars, chainVars>>

V1(A) == followed = "v1 stream" /\ A /\ UNCHANGED <<followed, vars, memoryVars, chainVars>>

SurfacesNext ==
  \/ V2(Next)
  \/ V1(HostNext)
  \/ followed = "memory" /\ MemoryNext /\ UNCHANGED <<followed, streamVars, chainVars>>
  \/ followed = "chains" /\ ChainNext /\ UNCHANGED <<followed, streamVars, memoryVars>>

surfacesVars == <<followed, streamVars, memoryVars, chainVars>>

\* As in EventStream's FairSpec, and: the Postgres connection answers every
\* statement, a batch's timer fires.
FairSurfaces ==
  /\ SurfacesInit /\ [][SurfacesNext]_surfacesVars
  /\ WF_surfacesVars(V2(Connect)) /\ WF_surfacesVars(V2(FlushTimer)) /\ WF_surfacesVars(V2(Receive))
  /\ WF_surfacesVars(V1(Statement)) /\ WF_surfacesVars(V1(BatchTimer))
=============================================================================
