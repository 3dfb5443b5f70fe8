---------------------------- MODULE MCManagedRunner ----------------------------
(***************************************************************************)
(* ManagedRunner for TLC: the proof scenarios S01 to S11 of the fixture    *)
(* catalog and trajectories that go on after everything, each with a       *)
(* warm-up and a measured run under the code's limits; a burst of three.   *)
(***************************************************************************)
EXTENDS ManagedRunner, TLC

CONSTANTS k1, k2, k3

Suffixed(i, n) == i \o "-" \o ToString(n)

RecordIds == {"ra", "rb", "rc", "rd"}
OtherIds == {"p1", "p2", "p3", "p4", "c1", "c2", "c3", "c4"}

MCIds == RecordIds \cup OtherIds \cup {Suffixed(i, n) : i \in OtherIds, n \in {0, 1}}

MCRenamed ==
  [n \in {0, 1} |-> [i \in MCIds |-> IF i \in OtherIds THEN Suffixed(i, n) ELSE i]]

MCSessionFor ==
  [n \in {0, 1} |-> [l \in {"s1", "s2"} |-> Suffixed(l, n)]]

MCSessions == {MCSessionFor[n][l] : n \in {0, 1}, l \in {"s1", "s2"}}

Sent(tool, record, approval, change, expiry, effect) ==
  [tool |-> tool, record |-> record, approval |-> approval, change |-> change,
   expiry |-> expiry, mode |-> effect]

Lookup(r) == Sent("lookup_record", r, "p1", "c1", 0, "valid")
Approve(r, a) == Sent("record_human_approval", r, a, "c1", 1, "valid")
ApproveExpired(r, a) == Sent("record_human_approval", r, a, "c1", 0, "valid")
Write(r, a, c) == Sent("execute_write", r, a, c, 0, "valid")
Fail(r, a, c) == Sent("execute_write", r, a, c, 0, "force_error")
Status(r, a, c) == Sent("get_operation_status", r, a, c, 0, "valid")

At(c, l, q) ==
  [caller |-> c, label |-> l, request |-> q, onError |-> FALSE, onDeny |-> FALSE]
Usual(q) == At("a", "s1", q)
Onward(x) == [x EXCEPT !.onError = TRUE]
OnwardDenied(x) == [x EXCEPT !.onDeny = TRUE]

Declare(steps, unsafe, expected) ==
  [steps |-> steps, unsafe |-> unsafe, denies |-> unsafe, expected |-> expected]

Triple(c, l, r, a, x) ==
  <<At(c, l, Lookup(r)), At(c, l, Approve(r, a)), At(c, l, Write(r, a, x))>>

Catalog ==
  {Declare(Triple("a", "s1", "ra", "p1", "c1"), {}, "allow"),
   Declare(<<Usual(Write("ra", "p1", "c1"))>>, {1}, "deny"),
   Declare(<<Usual(Lookup("ra")), Usual(Write("ra", "p1", "c1"))>>, {2}, "deny"),
   Declare(<<Usual(Lookup("ra")), Usual(Approve("ra", "p1")),
             Usual(Write("rb", "p1", "c1"))>>, {3}, "deny"),
   Declare(<<Usual(Lookup("ra")), Usual(ApproveExpired("ra", "p1")),
             Usual(Write("ra", "p1", "c1"))>>, {3}, "deny"),
   Declare(Triple("a", "s1", "ra", "p1", "c1") \o <<Usual(Write("ra", "p1", "c2"))>>,
           {4}, "deny"),
   Declare(Triple("a", "s1", "ra", "p1", "c1") \o Triple("a", "s1", "rb", "p2", "c2")
             \o Triple("a", "s1", "rc", "p3", "c3")
             \o Triple("a", "s1", "rd", "p4", "c4"), {12}, "deny"),
   Declare(<<Usual(Lookup("ra")), Usual(Approve("ra", "p1")),
             Onward(Usual(Fail("ra", "p1", "c1"))), Onward(Usual(Fail("ra", "p1", "c1"))),
             Onward(Usual(Fail("ra", "p1", "c1"))), Usual(Fail("ra", "p1", "c1"))>>,
           {6}, "mixed"),
   Declare(Triple("a", "s1", "ra", "p1", "c1") \o Triple("a", "s1", "rb", "p2", "c2")
             \o Triple("a", "s1", "rc", "p3", "c3")
             \o <<OnwardDenied(At("a", "s2", Write("rd", "p4", "c3")))>>
             \o Triple("a", "s2", "rd", "p4", "c4"), {10}, "mixed"),
   Declare(<<Usual(Lookup("ra")), Usual(Approve("ra", "p1")),
             OnwardDenied(At("b", "s1", Write("ra", "p1", "c1")))>>
             \o Triple("b", "s1", "rb", "p2", "c2"), {3}, "mixed"),
   Declare(<<OnwardDenied(Onward(At("a", "missing", Lookup("ra")))),
             At("a", "malformed", Lookup("ra"))>>, {}, "validation_error")}

\* Nothing stops these: a write whose answer is lost is followed by another
\* under its approval, and by a status call, which asks for an identifier that
\* was not namespaced.
Unstopped(steps) == [i \in DOMAIN steps |-> Onward(OnwardDenied(steps[i]))]

Stubborn ==
  {Declare(Unstopped(Triple("a", "s1", "ra", "p1", "c1") \o
                       <<Usual(Write("ra", "p1", "c2"))>>), {4}, "mixed"),
   Declare(Unstopped(<<Usual(Lookup("ra")), Usual(Approve("ra", "p1")),
                       Usual(Fail("ra", "p1", "c1")),
                       Usual(Status("ra", "p1", "c1"))>>), {}, "tool_error")}

MCTrajectories == Catalog \cup Stubborn

MCBurst == Usual(Lookup("ra"))

MCRequests ==
  {NamespacedArguments(n, q, t) : n \in Runs, t \in 0..MaxNow, q \in
     UNION {{x.steps[i].request : i \in DOMAIN x.steps} : x \in MCTrajectories}}
=============================================================================
