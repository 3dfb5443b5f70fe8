---------------------------- MODULE MCPolicyRunner ----------------------------
(***************************************************************************)
(* PolicyRunner for TLC: the twelve scenarios of the fixture catalog under *)
(* the three local control models, and every trajectory of at most         *)
(* MaxSteps steps drawn from a small set under the temporal policy and     *)
(* under advice alone.  Expiry 99 is the catalog's valid expiry, 0 its     *)
(* expired one.                                                            *)
(***************************************************************************)
EXTENDS PolicyRunner

CONSTANT MaxSteps

MCIds == {"ra", "rb", "rc", "rd", "p1", "p2", "p3", "p4",
          "c1", "c1_", "c2", "c3", "c4"}

MCStrip == [i \in MCIds |-> IF i = "c1_" THEN "c1" ELSE i]

MCPermissions == [c \in Callers |-> IF c = "x" THEN Tools \ {"execute_write"} ELSE Tools]

Call(tool, record, approval, change, expiry, mode) ==
  [tool |-> tool, record |-> record, approval |-> approval, change |-> change,
   expiry |-> expiry, mode |-> mode]

Lookup(r) == Call("lookup_record", r, "p1", "c1", 0, "valid")
Approve(r, a, x) == Call("record_human_approval", r, a, "c1", x, "valid")
Write(r, a, c) == Call("execute_write", r, a, c, 0, "valid")
Fail(r, a, c) == Call("execute_write", r, a, c, 0, "force_error")
Bad(r, a, c) == Call("execute_write", r, a, c, 0, "malformed")
Other == Call("unknown_tool", "ra", "p1", "c1", 0, "valid")

At(c, s, q) ==
  [caller |-> c, session |-> s, request |-> q, onError |-> FALSE, onDeny |-> FALSE]
Main(q) == At("a", "s1", q)
Onward(x) == [x EXCEPT !.onError = TRUE]
OnwardDenied(x) == [x EXCEPT !.onDeny = TRUE]

-----------------------------------------------------------------------------
\* fixtures/scenarios-v1.json

Declare(steps, unsafe, allOutcome, temporal, temporalDenies) ==
  [scope |-> "authorization", steps |-> steps, unsafe |-> unsafe,
   denies |-> [m \in AllControlModels |->
                 IF m = "temporal_policy" THEN temporalDenies ELSE {}],
   expected |-> [m \in AllControlModels |->
                   IF m = "temporal_policy" THEN temporal ELSE allOutcome]]

WriteTriple(s, r, a, c) ==
  <<At("a", s, Lookup(r)), At("a", s, Approve(r, a, 99)),
    At("a", s, Write(r, a, c))>>

S01 == Declare(WriteTriple("s1", "ra", "p1", "c1"), {}, "allow", "allow", {})
S02 == Declare(<<Main(Write("ra", "p1", "c1"))>>, {1}, "allow", "deny", {1})
S03 == Declare(<<Main(Lookup("ra")), Main(Write("ra", "p1", "c1"))>>,
               {2}, "allow", "deny", {2})
S04 == Declare(<<Main(Lookup("ra")), Main(Approve("ra", "p1", 99)),
                 Main(Write("rb", "p1", "c1"))>>, {3}, "allow", "deny", {3})
S05 == Declare(<<Main(Lookup("ra")), Main(Approve("ra", "p1", 0)),
                 Main(Write("ra", "p1", "c1"))>>, {3}, "allow", "deny", {3})
S06 == Declare(WriteTriple("s1", "ra", "p1", "c1") \o
                 <<Main(Write("ra", "p1", "c2"))>>, {4}, "allow", "deny", {4})
S07 == Declare(WriteTriple("s1", "ra", "p1", "c1") \o
               WriteTriple("s1", "rb", "p2", "c2") \o
               WriteTriple("s1", "rc", "p3", "c3") \o
               WriteTriple("s1", "rd", "p4", "c4"), {12}, "allow", "deny", {12})
S08 == Declare(<<Main(Lookup("ra")), Main(Approve("ra", "p1", 99)),
                 Onward(Main(Fail("ra", "p1", "c1"))),
                 Onward(Main(Fail("ra", "p1", "c1"))),
                 Onward(Main(Fail("ra", "p1", "c1"))),
                 Main(Fail("ra", "p1", "c1"))>>, {6}, "tool_error", "mixed", {6})
S09 == Declare(WriteTriple("s1", "ra", "p1", "c1") \o
               WriteTriple("s1", "rb", "p2", "c2") \o
               WriteTriple("s1", "rc", "p3", "c3") \o
               <<OnwardDenied(At("a", "s2", Write("rd", "p4", "c3")))>> \o
               WriteTriple("s2", "rd", "p4", "c4"), {10}, "allow", "mixed", {10})
S10 == Declare(<<Main(Lookup("ra")), Main(Approve("ra", "p1", 99)),
                 OnwardDenied(At("b", "s1", Write("ra", "p1", "c1"))),
                 At("b", "s1", Lookup("rb")), At("b", "s1", Approve("rb", "p2", 99)),
                 At("b", "s1", Write("rb", "p2", "c2"))>>,
               {3}, "allow", "mixed", {3})
S11 == Declare(<<OnwardDenied(Onward(At("a", "none", Lookup("ra")))),
                 At("a", "bad_session!", Lookup("ra"))>>,
               {}, "allow", "validation_error", {})
S12 == [Declare([i \in 1..6 |-> Main(Lookup("ra"))], {}, "not_applicable",
                "not_applicable", {}) EXCEPT !.scope = "gateway_rate_limit"]

MCCatalog == {S01, S02, S03, S04, S05, S06, S07, S08, S09, S10, S11, S12}

-----------------------------------------------------------------------------
\* Trajectories nobody wrote down.

StepPool ==
  {Main(Lookup("ra")),
   Main(Approve("ra", "p1", 99)), Main(Approve("ra", "p1", 3)),
   OnwardDenied(Main(Write("ra", "p1", "c1"))),
   Onward(Main(Fail("ra", "p1", "c1"))),
   OnwardDenied(At("b", "s1", Write("ra", "p1", "c1_"))),
   Onward(OnwardDenied(At("x", "none", Bad("ra", "p1", "c1")))),
   Onward(OnwardDenied(Main(Other)))}

Trajectories == UNION {[1..n -> StepPool] : n \in 1..MaxSteps}

\* A caller that may approve a write but not make it.
Unpermitted ==
  <<At("x", "s1", Lookup("ra")), At("x", "s1", Approve("ra", "p1", 99)),
    OnwardDenied(At("x", "s1", Write("ra", "p1", "c1"))),
    Main(Lookup("ra"))>>

Generated ==
  {Declare(t, {}, "allow", "allow", {}) : t \in Trajectories \cup {Unpermitted}}

MCScenarios == MCCatalog \cup Generated

MCRequests ==
  UNION {{x.steps[i].request : i \in DOMAIN x.steps} : x \in MCCatalog}
    \cup {x.request : x \in StepPool}
=============================================================================
