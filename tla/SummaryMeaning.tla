--------------------------- MODULE SummaryMeaning ---------------------------
(***************************************************************************)
(* What the functions of a translation unit do with their parameters, read *)
(* off the bodies themselves: the least relations that hold what one body  *)
(* does and pass it up from callee to caller.  The summaries are compared  *)
(* with them, so that a caller that relies on a summary relies on what the *)
(* callee does.  Trusted externals do what their summaries say.            *)
(***************************************************************************)
EXTENDS SummaryFixpoint, Functions, Integers

Code(f) == Range(unit.bodies[f].code)
Calls(f) == {e \in Code(f) : e.op = "call"}

\* An argument that is the object parameter i was passed.
Holds(arg, i) == i # 0 /\ (arg.direct = i \/ arg.alias = i)

\* The analysis of f leaves no obligation at a call: every callee is known, and
\* so is what it does with the arguments that matter.
Resolved(f) ==
    \A e \in Calls(f) :
        \/ e.fn \in {"free", "malloc"}
        \/ /\ e.fn \in DOMAIN store
           /\ ~store[e.fn].conflict
           /\ store[e.fn].return_effect # "Unknown"
           /\ \A j \in DOMAIN e.args :
                 (e.args[j].params # {} \/ e.args[j].alias # 0) =>
                     ParamOr(store[e.fn].params, j) # "Unknown"

Settled == phase = "done" /\ ~contract_error
AllResolved == Settled /\ \A f \in Bodies : Resolved(f)

-----------------------------------------------------------------------------
(* Effects on parameters *)

Arity(f) == unit.bodies[f].arity
Positions == UNION {{f} \X (1 .. Arity(f)) : f \in Bodies}

\* The parameters a call of their function passes at a place Reaches accepts.
PassedTo(Reaches(_, _)) ==
    {p \in Positions : \E e \in Calls(p[1]) : \E j \in DOMAIN e.args :
        Holds(e.args[j], p[2]) /\ Reaches(e.fn, j)}

External(g, j, wanted) ==
    /\ g \in DOMAIN store \ Bodies
    /\ ParamOr(store[g].params, j) \in wanted

\* What base holds, or a callee does.
PassedUp(base) ==
    LET up[n \in 0 .. Cardinality(Positions)] ==
            IF n = 0 THEN base
            ELSE LET below == up[n - 1]
                     Reaches(g, j) == <<g, j>> \in below
                 IN  below \cup PassedTo(Reaches)
    IN  up[Cardinality(Positions)]

Consumed ==
    LET Consumes(g, j) == g = "free" \/ External(g, j, Consuming)
    IN  PassedUp(PassedTo(Consumes))

Read ==
    LET Borrows(g, j) == External(g, j, {"Borrow"})
        inside == {p \in Positions : \E e \in Code(p[1]) :
                      e.op \in {"deref", "element"} /\ p[2] \in e.params}
    IN  PassedUp(inside \cup PassedTo(Borrows))

\* No function destroys or gives away what its summary says it only borrows or
\* ignores: callers go on using that object (SPEC-0002, section on summaries).
DestructionCovered ==
    AllResolved =>
        \A p \in Consumed : \/ store[p[1]].conflict
                            \/ store[p[1]].params[p[2]] \in Consuming \cup {"Unknown"}

\* No function reads what its summary says it ignores: callers may pass it an
\* object that is dead (ADR-0027: none upgrades to any stronger effect).
ReadsCovered ==
    AllResolved =>
        \A p \in Read : \/ store[p[1]].conflict
                        \/ store[p[1]].params[p[2]] # "None"

-----------------------------------------------------------------------------
(* Origins of returned pointers *)

Origin(kind, i) == [kind |-> kind, param |-> i]
Fresh == Origin("fresh", 0)
Elsewhere == Origin("elsewhere", 0)

\* The object parameter i of f was passed, if the name still stands for it.
Entry(f, i) ==
    IF i = 0 \/ i \in unit.bodies[f].assigned THEN Elsewhere ELSE Origin("param", i)

\* What f returns with e when the callee returns origin o.  An object the callee
\* took over, and f was not passed itself, was f's to give.
Mapped(f, e, o) ==
    LET entry == IF e.op = "return_call" /\ o.param \in DOMAIN e.args
                 THEN Entry(f, e.args[o.param].direct) ELSE Elsewhere
        given == /\ e.fn \in DOMAIN store
                 /\ ParamOr(store[e.fn].params, o.param) = "TakeOwnership"
    IN  IF o.kind # "param" THEN o
        ELSE IF entry = Elsewhere /\ given THEN Fresh ELSE entry

ExternalOrigin(g) ==
    IF g \notin DOMAIN store THEN Elsewhere
    ELSE CASE store[g].return_effect = "Owned" -> Fresh
           [] store[g].return_effect = "BorrowFromArg" ->
                 Origin("param", store[g].return_borrow_arg)
           [] OTHER -> Elsewhere

Returning == {"return_param", "return_call", "return_local", "return_other"}

\* The origins of what f returns with e, given those of its callees.
OriginsOf(f, e, origins) ==
    IF e.op = "return_param" THEN {Entry(f, e.param)}
    ELSE IF e.op = "return_other" THEN {Elsewhere}
    ELSE IF e.fn = "malloc" THEN {Fresh}
    ELSE IF e.fn \in Bodies
    THEN {Mapped(f, e, o[2]) : o \in {x \in origins : x[1] = e.fn}}
    ELSE {Mapped(f, e, ExternalOrigin(e.fn))}

\* Pairs of a function and an origin of what it returns.
Origins ==
    LET Returns == UNION {{<<f, e>> : e \in {x \in Code(f) : x.op \in Returning}} : f \in Bodies}
        bound == Cardinality(Bodies) * (Cardinality(Positions) + 2)
        after[n \in 0 .. bound] ==
            IF n = 0 THEN {}
            ELSE LET below == after[n - 1]
                 IN  below \cup UNION {{<<r[1], o>> : o \in OriginsOf(r[1], r[2], below)} : r \in Returns}
    IN  after[bound]

\* A function said to return an owned object returns a fresh one or one it was
\* given, on every path; a function said to return a borrow from a parameter
\* returns the object that was passed there and no other.
ReturnOriginsCovered ==
    Settled =>
        \A returned \in Origins :
            LET f == returned[1]
                o == returned[2]
            IN
            \/ store[f].conflict
            \/ store[f].return_effect = "Unknown"
            \/ /\ store[f].return_effect = "Owned"
               /\ \/ o = Fresh
                  \/ o.kind = "param" /\ store[f].params[o.param] \in {"TakeOwnership", "Unknown"}
            \/ /\ store[f].return_effect = "BorrowFromArg"
               /\ o = Origin("param", store[f].return_borrow_arg)
=============================================================================
