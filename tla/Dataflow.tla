------------------------------ MODULE Dataflow ------------------------------
(***************************************************************************)
(* What an executor promises to the fabric, whatever its threads do: a      *)
(* write-once dataflow graph.  Operations join the graph at any time.  A    *)
(* result without a local operation takes its value from outside (constant, *)
(* allocated or sent by the peer); an output of an operation gets the       *)
(* operation's value once all of the arguments have theirs; a handle that   *)
(* awaits a result is handed exactly that result's value.                   *)
(***************************************************************************)
EXTENDS Naturals, Sequences

CONSTANTS ResultIds, OpIds, Handles, Apply(_, _), Source(_)

VARIABLES
    graph,     \* per op id, <<>> or <<operation>>
    value,     \* per result id, <<>> or <<value>>
    awaiting,  \* per handle, <<>> or <<result id>>
    delivered  \* per handle, <<>> or <<value>>

vars == <<graph, value, awaiting, delivered>>

Outputs(op) == op.result_id .. op.result_id + op.output_arity - 1

Computed(r) == \E o \in OpIds : graph[o] # <<>> /\ r \in Outputs(graph[o][1])

Init ==
    /\ graph = [o \in OpIds |-> <<>>]
    /\ value = [r \in ResultIds |-> <<>>]
    /\ awaiting = [h \in Handles |-> <<>>]
    /\ delivered = [h \in Handles |-> <<>>]

\* An operation joins the graph.  Its outputs are new and nothing else's.
Issue(o, op) ==
    /\ graph[o] = <<>>
    /\ \A r \in Outputs(op) : ~Computed(r) /\ value[r] = <<>>
    /\ graph' = [graph EXCEPT ![o] = <<op>>]
    /\ UNCHANGED <<value, awaiting, delivered>>

\* A result of no local operation becomes available.
Provide(r) ==
    /\ value[r] = <<>>
    /\ ~Computed(r)
    /\ value' = [value EXCEPT ![r] = <<Source(r)>>]

\* An operation's output becomes available, from the values of all its arguments.
Resolve(r) ==
    /\ value[r] = <<>>
    /\ \E o \in OpIds :
         /\ graph[o] # <<>> /\ r \in Outputs(graph[o][1])
         /\ LET args == graph[o][1].args IN
              /\ \A k \in DOMAIN args : value[args[k]] # <<>>
              /\ value' = [value EXCEPT ![r] =
                     <<Apply(r, [k \in DOMAIN args |-> value[args[k]][1]])>>]

Await(h, r) ==
    /\ awaiting[h] = <<>>
    /\ awaiting' = [awaiting EXCEPT ![h] = <<r>>]
    /\ UNCHANGED <<graph, value, delivered>>

\* Handles may be handed their value in the step that makes it available, or
\* later; a handle that has its value keeps it.
Deliver ==
    \A h \in Handles :
        \/ delivered'[h] = delivered[h]
        \/ /\ awaiting[h] # <<>>
           /\ delivered[h] = <<>>
           /\ delivered'[h] = value'[awaiting[h][1]]
           /\ delivered'[h] # <<>>

Next ==
    \/ \E o \in OpIds : \E op \in {graph'[o][i] : i \in DOMAIN graph'[o]} : Issue(o, op)
    \/ \E h \in Handles : \E r \in ResultIds : Await(h, r)
    \/ /\ UNCHANGED <<graph, awaiting>>
       /\ DOMAIN delivered' = Handles
       /\ Deliver
       /\ UNCHANGED value \/ \E r \in ResultIds : Provide(r) \/ Resolve(r)

Spec == Init /\ [][Next]_vars
=============================================================================
