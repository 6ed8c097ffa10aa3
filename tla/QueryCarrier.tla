---------------------------- MODULE QueryCarrier ----------------------------
(***************************************************************************)
(* Who holds the query while the interpreter builds and pulls iterators.   *)
(*                                                                         *)
(* Building an iterator chain takes calls to the adapter.  Each takes the  *)
(* query out of the QueryCarrier it runs with, lends it to the adapter in  *)
(* a ResolveInfo, and puts it back when the adapter returns ("query was    *)
(* not returned" is the panic when the carrier is empty).  Iterators are   *)
(* lazy, but an adapter may pull the contexts it is given before it        *)
(* returns.  That runs the closures of every @fold built so far, and a     *)
(* fold builds and drains the chain of its own component for each of its   *)
(* elements, with adapter calls of its own, while the outer call is still  *)
(* under way.                                                              *)
(*                                                                         *)
(* A node is a component: Root is the root component's, a fold's Eid its   *)
(* own.  Outer[n] are the nodes around n.  Running code is a stack of      *)
(* frames: the frame of a node builds its chain and then drains it, the    *)
(* outputs frame of a fold computes its outputs.                           *)
(***************************************************************************)
EXTENDS Integers, Sequences

CONSTANTS
  Folds,  \* Eids of the query's folds, numbered depth first
  Outer   \* the nodes whose component contains a node, at any depth

Root == 0

Node == {Root} \cup Folds

\* Eids increase from the outside in, and whatever is numbered between a fold
\* and something inside it is inside it too.
ASSUME NodeAssumption ==
  /\ Folds \subseteq Nat \ {Root}
  /\ Outer \in [Node -> SUBSET Node]
  /\ Outer[Root] = {}
  /\ \A f \in Folds : Root \in Outer[f]
  /\ \A n \in Node : \A o \in Outer[n] : o < n /\ Outer[o] \subseteq Outer[n]
  /\ \A n, m \in Node : \A o \in Outer[n] : o < m /\ m < n => o \in Outer[m]

VARIABLES
  holds,  \* for each carrier: "absent", or whether the query is in it
  stack   \* the frames that are running, the innermost last

carrierVars == <<holds, stack>>

Kind == {"component", "outputs"}

Carrier == Node \X Kind

Frame == [node : Node, kind : Kind, state : {"building", "calling", "draining"},
          elements : SUBSET Folds, outputs : SUBSET Folds]

\* Mutant of CarrierOf: every closure runs with the carrier of the whole query.
SharedCarrier(frame) == <<Root, "component">>

CarrierOf(frame) == <<frame.node, frame.kind>>

\* Folds right inside the component of n.
InnerFolds(n) == {f \in Folds : Outer[f] = Outer[n] \cup {n}}

\* Folds built before n in the components around it.  The elements of n come
\* from an adapter's iterator over the contexts those folds produce.
Upstream(n) == {f \in Folds : f < n /\ f \notin Outer[n] /\ Outer[f] \subseteq Outer[n]}

NewFrame(n, kind) ==
  [node |-> n, kind |-> kind, state |-> "building", elements |-> {}, outputs |-> {}]

Top == stack[Len(stack)]

ReplaceTop(frame) == [stack EXCEPT ![Len(stack)] = frame]

Running(kind, state) ==
  /\ stack # <<>>
  /\ Top.kind = kind
  /\ Top.state = state

-----------------------------------------------------------------------------
\* interpret_ir() runs the root component's build with a fresh carrier, which
\* gets the query once resolve_starting_vertices() has returned.
CarrierInit ==
  /\ holds = [c \in Carrier |-> IF c = <<Root, "component">> THEN "full" ELSE "absent"]
  /\ stack = <<NewFrame(Root, "component")>>

\* carrier.query.take() before a resolver is called.
Call ==
  /\ \E kind \in Kind : Running(kind, "building")
  /\ holds[CarrierOf(Top)] = "full"
  /\ holds' = [holds EXCEPT ![CarrierOf(Top)] = "taken"]
  /\ stack' = ReplaceTop([Top EXCEPT !.state = "calling"])

\* The resolver returns and carrier.query is Some again.
ResolverReturns ==
  /\ \E kind \in Kind : Running(kind, "calling")
  /\ holds' = [holds EXCEPT ![CarrierOf(Top)] = "full"]
  /\ stack' = ReplaceTop([Top EXCEPT !.state = "building"])

\* compute_fold() of the next fold: its neighbors are resolved, and the
\* closure that will fold the elements gets a clone of the carrier.
BuildElements(f) ==
  /\ Running("component", "building")
  /\ f \in InnerFolds(Top.node) \ Top.elements
  /\ \A g \in InnerFolds(Top.node) : g < f => g \in Top.outputs
  /\ holds' = [holds EXCEPT ![<<f, "component">>] = holds[CarrierOf(Top)]]
  /\ stack' = ReplaceTop([Top EXCEPT !.elements = @ \cup {f}])

\* ... and, after the post-fold filters, the closure for its outputs another.
BuildOutputs(f) ==
  /\ Running("component", "building")
  /\ f \in Top.elements \ Top.outputs
  /\ holds' = [holds EXCEPT ![<<f, "outputs">>] = holds[CarrierOf(Top)]]
  /\ stack' = ReplaceTop([Top EXCEPT !.outputs = @ \cup {f}])

\* The chain is built; a fold collects its elements, the root's caller pulls.
Drain ==
  /\ Running("component", "building")
  /\ InnerFolds(Top.node) \subseteq Top.outputs
  /\ stack' = ReplaceTop([Top EXCEPT !.state = "draining"])
  /\ UNCHANGED holds

\* Something pulls the iterators built so far: an adapter inside a call, or
\* whoever drains the chain.  The closure of fold f runs on its next context.
Pulls(f, built) ==
  /\ Running("component", "calling") \/ Running("component", "draining")
  /\ f \in built \cup Upstream(Top.node)

FoldElements(f) ==
  /\ stack # <<>>
  /\ Pulls(f, Top.elements)
  /\ stack' = Append(stack, NewFrame(f, "component"))
  /\ UNCHANGED holds

FoldOutputs(f) ==
  /\ stack # <<>>
  /\ Pulls(f, Top.outputs)
  /\ stack' = Append(stack, NewFrame(f, "outputs"))
  /\ UNCHANGED holds

\* The closure returns to whatever pulled it.
LeaveClosure ==
  /\ Running("component", "draining") \/ Running("outputs", "building")
  /\ Top.node # Root
  /\ stack' = SubSeq(stack, 1, Len(stack) - 1)
  /\ UNCHANGED holds

CarrierNext ==
  \/ Call \/ ResolverReturns \/ Drain \/ LeaveClosure
  \/ \E f \in Folds : BuildElements(f) \/ BuildOutputs(f) \/ FoldElements(f) \/ FoldOutputs(f)

CarrierSpec == CarrierInit /\ [][CarrierNext]_carrierVars

-----------------------------------------------------------------------------
\* Type correctness: the query is with its carrier, or with the one frame that
\* took it.
CarrierTypeOK ==
  /\ holds \in [Carrier -> {"absent", "full", "taken"}]
  /\ stack \in Seq(Frame)

\* No code that may need the query finds its carrier empty: "query was not
\* returned" cannot be reached, whatever an adapter pulls inside its calls.
QueryReturned ==
  Top.state = "building" => holds[CarrierOf(Top)] = "full"
=============================================================================
