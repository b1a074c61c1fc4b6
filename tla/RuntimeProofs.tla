--------------------------- MODULE RuntimeProofs ---------------------------
(***************************************************************************)
(* The tree of contexts stays consistent, a deadline ends a context when   *)
(* it is due, a cause is handed down and a stopped AfterFunc stays         *)
(* stopped, for any number of contexts, deadlines and calls                *)
(* (gs/context/context.ts); timers and tickers fire when they are due      *)
(* (gs/time/time.ts), the HTTP client releases a request                   *)
(* (gs/net/http/index.ts), and what is proved of contexts holds where the  *)
(* three run on one host.                                                  *)
(*                                                                         *)
(* The proof about contexts follows the operations.  First what the        *)
(* recursive walks along the parents return; then what cancel(), the       *)
(* change of one context and propagateCancel() do to a sound tree; then    *)
(* one lemma per action.                                                   *)
(***************************************************************************)
EXTENDS Sequences, MCRuntime, SequenceFacts, FiniteSetTheorems

-----------------------------------------------------------------------------
(* Walks along the parents.                                                *)

\* f is the walk on 0..m: on V it goes on at the parent, elsewhere it ends.
Walk(f, m, V, par, base) ==
  f = [x \in 0..m |-> IF x \in V THEN f[par[x]] ELSE base[x]]

LEMMA WalkExists ==
  ASSUME NEW n \in Nat, NEW V, NEW par, NEW base,
         \A x \in V \cap (0..n) : par[x] \in 0..n /\ par[x] < x
  PROVE  \E f : Walk(f, n, V, par, base)
<1> DEFINE Missing == {m \in 0..n : ~ \E f : Walk(f, m, V, par, base)}
<1>1. ASSUME Missing # {} PROVE FALSE
  <2>1. PICK m \in Missing : \A k \in Missing : m <= k
    <3>1. Missing \subseteq Nat
      OBVIOUS
    <3> HIDE DEF Missing
    <3> QED BY <3>1, <1>1, NatMin
  <2>2. m \in 0..n /\ ~ \E f : Walk(f, m, V, par, base)
    BY <2>1
  <2>3. \E g : m > 0 => Walk(g, m - 1, V, par, base)
    <3>1. CASE m = 0
      BY <3>1
    <3>2. CASE m > 0
      <4>1. m - 1 \in 0..n /\ m - 1 \notin Missing
        BY <2>1, <2>2, <3>2
      <4> QED BY <4>1
    <3> QED BY <2>2, <3>1, <3>2
  <2>4. PICK g : m > 0 => Walk(g, m - 1, V, par, base)
    BY <2>3
  <2> DEFINE f == [x \in 0..m |-> IF x < m THEN g[x]
                                  ELSE IF m \in V THEN g[par[m]] ELSE base[m]]
             h == [x \in 0..m |-> IF x \in V THEN f[par[x]] ELSE base[x]]
  <2>5. \A x \in 0..m : f[x] = h[x]
    <3> TAKE x \in 0..m
    <3>1. x \in V => par[x] \in 0..(m - 1) /\ par[x] < x
      BY <2>2
    <3>2. h[x] = IF x \in V THEN g[par[x]] ELSE base[x]
      BY <3>1, <2>2
    <3>3. CASE x = m
      BY <3>3, <3>2
    <3>4. CASE x < m
      <4>1. x \in 0..(m - 1) /\ Walk(g, m - 1, V, par, base)
        BY <3>4, <2>2, <2>4
      <4>2. g[x] = IF x \in V THEN g[par[x]] ELSE base[x]
        BY <4>1 DEF Walk
      <4> QED BY <4>2, <3>2, <3>4
    <3> QED BY <3>3, <3>4, <2>2
  <2>6. f = h
    <3> HIDE DEF f, h
    <3>1. f = [x \in 0..m |-> f[x]] /\ h = [x \in 0..m |-> h[x]]
      BY DEF f, h
    <3> QED BY <3>1, <2>5
  <2>7. Walk(f, m, V, par, base)
    BY <2>6 DEF Walk
  <2> QED BY <2>7, <2>2
<1> QED BY <1>1

\* f collects the sets item along the walk on 0..m.
Collect(f, m, V, par, item) ==
  f = [x \in 0..m |-> IF x \in V THEN f[par[x]] \cup item[x] ELSE {}]

LEMMA CollectExists ==
  ASSUME NEW n \in Nat, NEW V, NEW par, NEW item,
         \A x \in V \cap (0..n) : par[x] \in 0..n /\ par[x] < x
  PROVE  \E f : Collect(f, n, V, par, item)
<1> DEFINE Missing == {m \in 0..n : ~ \E f : Collect(f, m, V, par, item)}
<1>1. ASSUME Missing # {} PROVE FALSE
  <2>1. PICK m \in Missing : \A k \in Missing : m <= k
    <3>1. Missing \subseteq Nat
      OBVIOUS
    <3> HIDE DEF Missing
    <3> QED BY <3>1, <1>1, NatMin
  <2>2. m \in 0..n /\ ~ \E f : Collect(f, m, V, par, item)
    BY <2>1
  <2>3. \E g : m > 0 => Collect(g, m - 1, V, par, item)
    <3>1. CASE m = 0
      BY <3>1
    <3>2. CASE m > 0
      <4>1. m - 1 \in 0..n /\ m - 1 \notin Missing
        BY <2>1, <2>2, <3>2
      <4> QED BY <4>1
    <3> QED BY <2>2, <3>1, <3>2
  <2>4. PICK g : m > 0 => Collect(g, m - 1, V, par, item)
    BY <2>3
  <2> DEFINE f == [x \in 0..m |-> IF x < m THEN g[x]
                                  ELSE IF m \in V THEN g[par[m]] \cup item[m] ELSE {}]
             h == [x \in 0..m |-> IF x \in V THEN f[par[x]] \cup item[x] ELSE {}]
  <2>5. \A x \in 0..m : f[x] = h[x]
    <3> TAKE x \in 0..m
    <3>1. x \in V => par[x] \in 0..(m - 1) /\ par[x] < x
      BY <2>2
    <3>6. x \in V => f[par[x]] = g[par[x]]
      <4>1. x \in V => par[x] \in 0..m /\ par[x] < m
        BY <3>1, <2>2
      <4> QED BY <4>1
    <3>7. h[x] = IF x \in V THEN f[par[x]] \cup item[x] ELSE {}
      <4> HIDE DEF f
      <4> QED OBVIOUS
    <3>2. h[x] = IF x \in V THEN g[par[x]] \cup item[x] ELSE {}
      BY <3>6, <3>7, Zenon
    <3>3. CASE x = m
      BY <3>3, <3>2
    <3>4. CASE x < m
      <4>1. x \in 0..(m - 1) /\ Collect(g, m - 1, V, par, item)
        BY <3>4, <2>2, <2>4
      <4>2. g[x] = IF x \in V THEN g[par[x]] \cup item[x] ELSE {}
        BY <4>1 DEF Collect
      <4> QED BY <4>2, <3>2, <3>4
    <3> QED BY <3>3, <3>4, <2>2
  <2>6. f = h
    <3> HIDE DEF f, h
    <3>1. f = [x \in 0..m |-> f[x]] /\ h = [x \in 0..m |-> h[x]]
      BY DEF f, h
    <3> QED BY <3>1, <2>5
  <2>7. Collect(f, m, V, par, item)
    BY <2>6 DEF Collect
  <2> QED BY <2>7, <2>2
<1> QED BY <1>1

\* The contexts are numbered and a parent was created before its child.
Shaped(s) ==
  /\ \E n \in 0..MaxCtx : DOMAIN s = 0..n
  /\ \A c \in DOMAIN s : /\ s[c] \in Context /\ s[c].parent \in DOMAIN s
                         /\ s[c].kind # "background" => s[c].parent < c

UpWalk(s, f) ==
  f = [x \in DOMAIN s |-> IF s[x].kind = "value" THEN f[s[x].parent] ELSE x]

LEMMA UnwrapStep ==
  ASSUME NEW s, Shaped(s), NEW p \in DOMAIN s
  PROVE  Unwrap(s, p) = IF s[p].kind = "value" THEN Unwrap(s, s[p].parent) ELSE p
<1> DEFINE V == {x \in DOMAIN s : s[x].kind = "value"}
           par == [x \in DOMAIN s |-> s[x].parent]
           base == [x \in DOMAIN s |-> x]
           up == CHOOSE f : UpWalk(s, f)
<1>1. PICK n \in 0..MaxCtx : DOMAIN s = 0..n
  BY DEF Shaped
<1>2. \E f : Walk(f, n, V, par, base)
  <2>1. \A x \in V \cap (0..n) : par[x] \in 0..n /\ par[x] < x
    BY <1>1 DEF Shaped
  <2>2. n \in Nat
    BY ContextAssumption
  <2> HIDE DEF V, par, base
  <2> QED BY <2>1, <2>2, WalkExists
<1>3. ASSUME NEW f, Walk(f, n, V, par, base)
      PROVE  UpWalk(s, f)
  <2>1. \A x \in DOMAIN s : (IF x \in V THEN f[par[x]] ELSE base[x])
                             = IF s[x].kind = "value" THEN f[s[x].parent] ELSE x
    OBVIOUS
  <2> QED BY <2>1, <1>1, <1>3, Zenon DEF Walk, UpWalk
<1>4. UpWalk(s, up)
  <2>1. \E f : UpWalk(s, f)
    BY <1>2, <1>3
  <2> QED BY <2>1, Zenon
<1>5. \A x : Unwrap(s, x) = up[x]
  BY Zenon DEF Unwrap, UpWalk
<1> HIDE DEF up
<1>6. up[p] = IF s[p].kind = "value" THEN up[s[p].parent] ELSE p
  BY <1>4 DEF UpWalk
<1> QED BY <1>5, <1>6

DeadlineWalk(s, f) ==
  f = [x \in DOMAIN s |->
         IF s[x].kind \in {"value", "cancel"} THEN f[s[x].parent]
         ELSE IF s[x].kind = "timer" THEN s[x].deadline ELSE Null]

LEMMA DeadlineStep ==
  ASSUME NEW s, Shaped(s), NEW p \in DOMAIN s
  PROVE  Deadline(s, p) = IF s[p].kind \in {"value", "cancel"} THEN Deadline(s, s[p].parent)
                          ELSE IF s[p].kind = "timer" THEN s[p].deadline ELSE Null
<1> DEFINE V == {x \in DOMAIN s : s[x].kind \in {"value", "cancel"}}
           par == [x \in DOMAIN s |-> s[x].parent]
           base == [x \in DOMAIN s |-> IF s[x].kind = "timer" THEN s[x].deadline ELSE Null]
           up == CHOOSE f : DeadlineWalk(s, f)
<1>1. PICK n \in 0..MaxCtx : DOMAIN s = 0..n
  BY DEF Shaped
<1>2. \E f : Walk(f, n, V, par, base)
  <2>1. \A x \in V \cap (0..n) : par[x] \in 0..n /\ par[x] < x
    BY <1>1 DEF Shaped
  <2>2. n \in Nat
    BY ContextAssumption
  <2> HIDE DEF V, par, base
  <2> QED BY <2>1, <2>2, WalkExists
<1>3. ASSUME NEW f, Walk(f, n, V, par, base)
      PROVE  DeadlineWalk(s, f)
  <2>1. \A x \in DOMAIN s : (IF x \in V THEN f[par[x]] ELSE base[x])
          = IF s[x].kind \in {"value", "cancel"} THEN f[s[x].parent]
            ELSE IF s[x].kind = "timer" THEN s[x].deadline ELSE Null
    OBVIOUS
  <2> QED BY <2>1, <1>1, <1>3, Zenon DEF Walk, DeadlineWalk
<1>4. DeadlineWalk(s, up)
  <2>1. \E f : DeadlineWalk(s, f)
    BY <1>2, <1>3
  <2> QED BY <2>1, Zenon
<1>5. \A x : Deadline(s, x) = up[x]
  BY Zenon DEF Deadline, DeadlineWalk
<1> HIDE DEF up
<1>6. up[p] = IF s[p].kind \in {"value", "cancel"} THEN up[s[p].parent]
              ELSE IF s[p].kind = "timer" THEN s[p].deadline ELSE Null
  BY <1>4 DEF DeadlineWalk
<1> QED BY <1>5, <1>6

BindingWalk(s, f) ==
  f = [x \in DOMAIN s |->
         IF s[x].kind \notin {"value", "cancel", "timer"} THEN {}
         ELSE f[s[x].parent] \cup (IF s[x].kind = "timer" THEN {s[x].deadline} ELSE {})]

LEMMA BindingStep ==
  ASSUME NEW s, Shaped(s), NEW p \in DOMAIN s
  PROVE  Binding(s, p) = IF s[p].kind \notin {"value", "cancel", "timer"} THEN {}
                         ELSE Binding(s, s[p].parent)
                                \cup (IF s[p].kind = "timer" THEN {s[p].deadline} ELSE {})
<1> DEFINE V == {x \in DOMAIN s : s[x].kind \in {"value", "cancel", "timer"}}
           par == [x \in DOMAIN s |-> s[x].parent]
           item == [x \in DOMAIN s |-> IF s[x].kind = "timer" THEN {s[x].deadline} ELSE {}]
           up == CHOOSE f : BindingWalk(s, f)
<1>1. PICK n \in 0..MaxCtx : DOMAIN s = 0..n
  BY DEF Shaped
<1>2. \E f : Collect(f, n, V, par, item)
  <2>1. \A x \in V \cap (0..n) : par[x] \in 0..n /\ par[x] < x
    BY <1>1 DEF Shaped
  <2>2. n \in Nat
    BY ContextAssumption
  <2> HIDE DEF V, par, item
  <2> QED BY <2>1, <2>2, CollectExists
<1>3. ASSUME NEW f, Collect(f, n, V, par, item)
      PROVE  BindingWalk(s, f)
  <2>1. \A x \in DOMAIN s : (IF x \in V THEN f[par[x]] \cup item[x] ELSE {})
          = IF s[x].kind \notin {"value", "cancel", "timer"} THEN {}
            ELSE f[s[x].parent] \cup (IF s[x].kind = "timer" THEN {s[x].deadline} ELSE {})
    OBVIOUS
  <2> QED BY <2>1, <1>1, <1>3, Zenon DEF Collect, BindingWalk
<1>4. BindingWalk(s, up)
  <2>1. \E f : BindingWalk(s, f)
    BY <1>2, <1>3
  <2> QED BY <2>1, Zenon
<1>5. \A x : Binding(s, x) = up[x]
  BY Zenon DEF Binding, BindingWalk
<1> HIDE DEF up
<1>6. up[p] = IF s[p].kind \notin {"value", "cancel", "timer"} THEN {}
              ELSE up[s[p].parent] \cup (IF s[p].kind = "timer" THEN {s[p].deadline} ELSE {})
  BY <1>4 DEF BindingWalk
<1> QED BY <1>5, <1>6

\* What is below a context that has no smaller counterexample holds for all.
LEMMA ContextNumbers ==
  ASSUME NEW s, Shaped(s)
  PROVE  DOMAIN s \subseteq Nat /\ \A p \in DOMAIN s : \A q \in 0..p : q \in DOMAIN s
<1>1. PICK n \in 0..MaxCtx : DOMAIN s = 0..n
  BY DEF Shaped
<1>2. n \in Nat
  BY ContextAssumption
<1> QED BY <1>1, <1>2

LEMMA UnwrapEnds ==
  ASSUME NEW s, Shaped(s), NEW p \in DOMAIN s
  PROVE  /\ Unwrap(s, p) \in DOMAIN s /\ Unwrap(s, p) <= p
         /\ s[Unwrap(s, p)].kind # "value"
<1> DEFINE Good(q) == /\ Unwrap(s, q) \in DOMAIN s /\ Unwrap(s, q) <= q
                      /\ s[Unwrap(s, q)].kind # "value"
           Missing == {q \in DOMAIN s : ~Good(q)}
<1>1. ASSUME Missing # {} PROVE FALSE
  <2>1. Missing \subseteq Nat
    BY ContextNumbers
  <2>2. PICK m \in Missing : \A k \in Missing : m <= k
    <3> HIDE DEF Missing
    <3> QED BY <2>1, <1>1, NatMin
  <2>3. m \in DOMAIN s /\ m \in Nat /\ ~Good(m)
    BY <2>1, <2>2
  <2>4. Unwrap(s, m) = IF s[m].kind = "value" THEN Unwrap(s, s[m].parent) ELSE m
    BY <2>3, UnwrapStep
  <2>5. CASE s[m].kind = "value"
    <3> DEFINE q == s[m].parent
    <3>1. q \in DOMAIN s /\ q < m /\ q \in Nat
      BY <2>3, <2>5, ContextNumbers DEF Shaped
    <3>2. Good(q)
      BY <3>1, <2>2, <2>3
    <3>3. Unwrap(s, q) \in Nat
      BY <3>2, ContextNumbers
    <3> HIDE DEF q
    <3>4. Unwrap(s, m) = Unwrap(s, q)
      BY <2>4, <2>5 DEF q
    <3> QED BY <3>1, <3>2, <3>3, <3>4, <2>3
  <2>6. CASE s[m].kind # "value"
    BY <2>3, <2>4, <2>6
  <2> QED BY <2>5, <2>6
<1>2. Missing = {}
  BY <1>1
<1> QED BY <1>2

\* s with more contexts, or other states of the same.
Continues(s, t) ==
  /\ DOMAIN s \subseteq DOMAIN t
  /\ \A x \in DOMAIN s : /\ t[x].kind = s[x].kind /\ t[x].parent = s[x].parent
                         /\ t[x].deadline = s[x].deadline

LEMMA WalksStay ==
  ASSUME NEW s, NEW t, Shaped(s), Shaped(t), Continues(s, t), NEW p \in DOMAIN s
  PROVE  /\ Unwrap(t, p) = Unwrap(s, p) /\ Deadline(t, p) = Deadline(s, p)
         /\ Binding(t, p) = Binding(s, p)
<1> DEFINE Good(q) == /\ Unwrap(t, q) = Unwrap(s, q) /\ Deadline(t, q) = Deadline(s, q)
                      /\ Binding(t, q) = Binding(s, q)
           Missing == {q \in DOMAIN s : ~Good(q)}
<1>1. ASSUME Missing # {} PROVE FALSE
  <2>1. Missing \subseteq Nat
    BY ContextNumbers
  <2>2. PICK m \in Missing : \A k \in Missing : m <= k
    <3> HIDE DEF Missing
    <3> QED BY <2>1, <1>1, NatMin
  <2>3. m \in DOMAIN s /\ m \in Nat /\ ~Good(m) /\ m \in DOMAIN t
        /\ t[m].kind = s[m].kind /\ t[m].parent = s[m].parent /\ t[m].deadline = s[m].deadline
    BY <2>1, <2>2 DEF Continues
  <2> DEFINE q == s[m].parent
  <2>4. s[m].kind # "background" => Good(q)
    <3>1. s[m].kind # "background" => q \in DOMAIN s /\ q < m /\ q \in Nat
      BY <2>3, ContextNumbers DEF Shaped
    <3> QED BY <3>1, <2>2, <2>3
  <2> HIDE DEF q
  <2>5. Unwrap(t, m) = Unwrap(s, m)
    <3>1. Unwrap(s, m) = IF s[m].kind = "value" THEN Unwrap(s, q) ELSE m
      BY <2>3, UnwrapStep DEF q
    <3>2. Unwrap(t, m) = IF s[m].kind = "value" THEN Unwrap(t, q) ELSE m
      BY <2>3, UnwrapStep DEF q
    <3> QED BY <3>1, <3>2, <2>4
  <2>6. Deadline(t, m) = Deadline(s, m)
    <3>1. Deadline(s, m) = IF s[m].kind \in {"value", "cancel"} THEN Deadline(s, q)
                           ELSE IF s[m].kind = "timer" THEN s[m].deadline ELSE Null
      BY <2>3, DeadlineStep DEF q
    <3>2. Deadline(t, m) = IF s[m].kind \in {"value", "cancel"} THEN Deadline(t, q)
                           ELSE IF s[m].kind = "timer" THEN s[m].deadline ELSE Null
      BY <2>3, DeadlineStep DEF q
    <3> QED BY <3>1, <3>2, <2>4
  <2>7. Binding(t, m) = Binding(s, m)
    <3>1. Binding(s, m) = IF s[m].kind \notin {"value", "cancel", "timer"} THEN {}
             ELSE Binding(s, q) \cup (IF s[m].kind = "timer" THEN {s[m].deadline} ELSE {})
      BY <2>3, BindingStep DEF q
    <3>2. Binding(t, m) = IF s[m].kind \notin {"value", "cancel", "timer"} THEN {}
             ELSE Binding(t, q) \cup (IF s[m].kind = "timer" THEN {s[m].deadline} ELSE {})
      BY <2>3, BindingStep DEF q
    <3> QED BY <3>1, <3>2, <2>4
  <2> QED BY <2>3, <2>5, <2>6, <2>7
<1>2. Missing = {}
  BY <1>1
<1> QED BY <1>2

\* Value contexts are bound by the deadlines of the context they wrap.
LEMMA UnwrapBinds ==
  ASSUME NEW s, Shaped(s), NEW p \in DOMAIN s
  PROVE  Binding(s, Unwrap(s, p)) = Binding(s, p)
<1> DEFINE Good(q) == Binding(s, Unwrap(s, q)) = Binding(s, q)
           Missing == {q \in DOMAIN s : ~Good(q)}
<1>1. ASSUME Missing # {} PROVE FALSE
  <2>1. Missing \subseteq Nat
    BY ContextNumbers
  <2>2. PICK m \in Missing : \A k \in Missing : m <= k
    <3> HIDE DEF Missing
    <3> QED BY <2>1, <1>1, NatMin
  <2>3. m \in DOMAIN s /\ m \in Nat /\ ~Good(m)
    BY <2>1, <2>2
  <2>4. Unwrap(s, m) = IF s[m].kind = "value" THEN Unwrap(s, s[m].parent) ELSE m
    BY <2>3, UnwrapStep
  <2>5. CASE s[m].kind = "value"
    <3>1. s[m].parent \in DOMAIN s /\ s[m].parent < m /\ s[m].parent \in Nat
      BY <2>3, <2>5, ContextNumbers DEF Shaped
    <3>2. Good(s[m].parent)
      BY <3>1, <2>2, <2>3
    <3>3. Binding(s, m) = Binding(s, s[m].parent) \cup {}
      BY <2>3, <2>5, BindingStep
    <3> QED BY <3>2, <3>3, <2>4, <2>5, <2>3
  <2>6. CASE s[m].kind # "value"
    BY <2>3, <2>4, <2>6
  <2> QED BY <2>5, <2>6
<1>2. Missing = {}
  BY <1>1
<1> QED BY <1>2

LEMMA BindingTyped ==
  ASSUME NEW s, Shaped(s), NEW p \in DOMAIN s,
         \A c \in DOMAIN s : s[c].kind = "timer" => s[c].deadline \in Deadlines
  PROVE  Binding(s, p) \subseteq Deadlines
<1> DEFINE Good(q) == Binding(s, q) \subseteq Deadlines
           Missing == {q \in DOMAIN s : ~Good(q)}
<1>1. ASSUME Missing # {} PROVE FALSE
  <2>1. Missing \subseteq Nat
    BY ContextNumbers
  <2>2. PICK m \in Missing : \A k \in Missing : m <= k
    <3> HIDE DEF Missing
    <3> QED BY <2>1, <1>1, NatMin
  <2>3. m \in DOMAIN s /\ m \in Nat /\ ~Good(m)
    BY <2>1, <2>2
  <2>4. s[m].kind # "background" => Good(s[m].parent)
    <3>1. s[m].kind # "background" => s[m].parent \in DOMAIN s /\ s[m].parent < m /\ s[m].parent \in Nat
      BY <2>3, ContextNumbers DEF Shaped
    <3> QED BY <3>1, <2>2, <2>3
  <2>5. Binding(s, m) = IF s[m].kind \notin {"value", "cancel", "timer"} THEN {}
           ELSE Binding(s, s[m].parent) \cup (IF s[m].kind = "timer" THEN {s[m].deadline} ELSE {})
    BY <2>3, BindingStep
  <2> QED BY <2>3, <2>4, <2>5
<1>2. Missing = {}
  BY <1>1
<1> QED BY <1>2

-----------------------------------------------------------------------------
(* The context tree.                                                       *)

\* What holds of a context's place in the tree.
Registered(s) ==
  \A c \in DOMAIN s :
    /\ s[c].owner # Null =>
         /\ s[c].owner \in DOMAIN s /\ s[c].owner < c
         /\ s[c].owner = Unwrap(s, s[c].parent)
         /\ IsCancelCtx(s, s[c].owner) /\ IsCancelCtx(s, c)
         /\ s[c].watch = "no" /\ (Live(s, c) => s[c].linked)
    /\ s[c].watch # "no" => IsCancelCtx(s, c) /\ ~IsCancelCtx(s, Unwrap(s, s[c].parent))
    /\ ~IsCancelCtx(s, c) => s[c].children = {} /\ s[c].err \in {Null, "custom"}

\* A cancelContext keeps its live registered contexts, and none once it is over.
Tree(s) ==
  \A p \in DOMAIN s : IsCancelCtx(s, p) =>
    /\ s[p].children \subseteq DOMAIN s
    /\ \A c \in DOMAIN s : /\ c \in s[p].children <=> s[c].owner = p /\ Live(s, c)
                           /\ s[c].owner = p /\ ~Live(s, p) => ~Live(s, c)

\* A deadline that binds c has passed at time n, or is too far for the host.
Due(s, c, n) == \E d \in Binding(s, c) : d <= n \/ d > MaxDelay

Earliest(e, B) ==
  IF B = {} THEN e = Null ELSE e \in B /\ \A d \in B : e <= d

TimedContext(s, c, n) ==
  /\ s[c].kind = "timer" => s[c].deadline \in Deadlines
  /\ s[c].timer # Off => /\ s[c].kind = "timer"
                         /\ s[c].timer = s[c].deadline \/ s[c].deadline > MaxDelay
  /\ s[c].err = "DeadlineExceeded" => Due(s, c, n)
  /\ Earliest(Deadline(s, c), Binding(s, c))
Timed(s, n) == \A c \in DOMAIN s : TimedContext(s, c, n)

Sound(s, n) == Shaped(s) /\ Registered(s) /\ Tree(s) /\ Timed(s, n)

\* Where cancel() of c has an effect.
LEMMA ReachedSteps ==
  ASSUME NEW s, NEW c \in DOMAIN s, Live(s, c)
  PROVE  /\ c \in Reached(s, c) /\ Reached(s, c) \subseteq DOMAIN s
         /\ \A d \in Reached(s, c) : Live(s, d)
         /\ \A x \in Reached(s, c), y \in DOMAIN s :
              y \in s[x].children /\ Live(s, y) => y \in Reached(s, c)
BY DEF Reached

LEMMA ReachedLeast ==
  ASSUME NEW s, NEW c \in DOMAIN s, NEW R \in SUBSET {d \in DOMAIN s : d # c /\ Live(s, d)},
         \A x \in R \cup {c} : \A y \in DOMAIN s :
           y \in s[x].children /\ y # c /\ Live(s, y) => y \in R
  PROVE  Reached(s, c) \subseteq R \cup {c}
BY DEF Reached

LEMMA ReachedFacts ==
  ASSUME NEW s, Shaped(s), Registered(s), Tree(s),
         NEW c \in DOMAIN s, Live(s, c), IsCancelCtx(s, c)
  PROVE  \A d \in Reached(s, c) :
           /\ d >= c /\ IsCancelCtx(s, d) /\ Binding(s, c) \subseteq Binding(s, d)
           /\ d # c => s[d].owner \in Reached(s, c)
<1> DEFINE Fact(d) == /\ d >= c /\ IsCancelCtx(s, d) /\ Binding(s, c) \subseteq Binding(s, d)
                      /\ d # c => s[d].owner \in Reached(s, c)
           R == {d \in Reached(s, c) : d # c /\ Fact(d)}
<1>1. R \subseteq {d \in DOMAIN s : d # c /\ Live(s, d)}
  BY ReachedSteps
<1>2. ASSUME NEW x \in R \cup {c}, NEW y \in DOMAIN s,
             y \in s[x].children, y # c, Live(s, y)
      PROVE  y \in R
  <2>1. x \in Reached(s, c) /\ x \in DOMAIN s /\ x >= c /\ IsCancelCtx(s, x)
        /\ Binding(s, c) \subseteq Binding(s, x)
    <3>1. c \in Nat
      BY ContextNumbers
    <3> QED BY <1>2, <3>1, ReachedSteps
  <2>2. s[y].owner = x
    BY <2>1, <1>2 DEF Tree
  <2>3. x # Null
    BY <2>1, ContextNumbers, ContextAssumption
  <2>4. x < y /\ x = Unwrap(s, s[y].parent) /\ IsCancelCtx(s, y)
    BY <2>2, <2>3, <1>2 DEF Registered
  <2>5. y \in Reached(s, c)
    BY <2>1, <1>2, ReachedSteps
  <2>6. Binding(s, x) \subseteq Binding(s, y)
    <3>1. s[y].parent \in DOMAIN s
      BY <1>2 DEF Shaped
    <3>2. Binding(s, x) = Binding(s, s[y].parent)
      BY <3>1, <2>4, UnwrapBinds
    <3>3. Binding(s, s[y].parent) \subseteq Binding(s, y)
      BY <1>2, <2>4, BindingStep DEF IsCancelCtx
    <3> QED BY <3>2, <3>3
  <2>7. y >= c
    <3>1. x \in Nat /\ y \in Nat /\ c \in Nat
      BY <2>1, <1>2, ContextNumbers
    <3> QED BY <3>1, <2>4, <2>1
  <2> QED BY <2>1, <2>2, <2>4, <2>5, <2>6, <2>7, <1>2
<1>3. Reached(s, c) \subseteq R \cup {c}
  <2> HIDE DEF R
  <2> QED BY <1>1, <1>2, ReachedLeast
<1>4. c \in Nat
  BY ContextNumbers
<1> QED BY <1>3, <1>4

\* What stays of a context whatever happens to the tree.
SameContext(a, b) ==
  /\ b.kind = a.kind /\ b.parent = a.parent /\ b.owner = a.owner
  /\ b.watch = a.watch /\ b.deadline = a.deadline

\* What cancel() does to the contexts, field by field; hit is where it has an
\* effect.
Cancelled(s, c, remove, e, cause, hit, t) ==
  /\ DOMAIN t = DOMAIN s
  /\ \A x \in DOMAIN s : t[x] \in Context /\ SameContext(s[x], t[x])
  /\ \A x \in DOMAIN s \cap hit :
       t[x].err = e /\ t[x].cause = cause /\ t[x].children = {} /\ t[x].timer = Off
  /\ \A x \in DOMAIN s \ hit :
       /\ t[x].err = s[x].err /\ t[x].cause = s[x].cause /\ t[x].linked = s[x].linked
       /\ t[x].timer = IF x = c THEN Off ELSE s[x].timer
       /\ t[x].children =
            IF hit # {} /\ remove /\ s[c].linked /\ x = s[c].owner
            THEN s[x].children \ {c} ELSE s[x].children

LEMMA CancelFields ==
  ASSUME NEW s, NEW c \in DOMAIN s, NEW remove \in BOOLEAN,
         NEW e \in NewErrs, NEW cause \in {Null, "why"},
         \A x \in DOMAIN s : s[x] \in Context, Null \notin DOMAIN s
  PROVE  Cancelled(s, c, remove, e, cause, IF Live(s, c) THEN Reached(s, c) ELSE {},
                   Cancel(s, c, remove, e, cause))
<1> DEFINE hit == IF Live(s, c) THEN Reached(s, c) ELSE {}
           t == Cancel(s, c, remove, e, cause)
<1> DEFINE up == IF hit # {} /\ remove /\ s[c].linked THEN s[c].owner ELSE Null
           A(x) == [s[x] EXCEPT !.err = e, !.cause = cause, !.children = {}, !.timer = Off,
                                !.linked = IF x = c /\ up # Null THEN FALSE ELSE @]
           B(x) == [s[x] EXCEPT !.children = IF x = up THEN @ \ {c} ELSE @,
                                !.timer = IF x = c THEN Off ELSE @]
<1>1. t = [x \in DOMAIN s |-> IF x \in hit THEN A(x) ELSE B(x)]
  BY DEF Cancel
<1>2. DOMAIN t = DOMAIN s /\ \A x \in DOMAIN s : t[x] = IF x \in hit THEN A(x) ELSE B(x)
  <2> HIDE DEF A, B
  <2> QED BY <1>1
<1>3. ASSUME NEW x \in DOMAIN s, x \in hit
      PROVE  /\ A(x) \in Context /\ SameContext(s[x], A(x))
             /\ A(x).err = e /\ A(x).cause = cause /\ A(x).children = {} /\ A(x).timer = Off
  <2>1. s[x] \in Context /\ (IF x = c /\ up # Null THEN FALSE ELSE s[x].linked) \in BOOLEAN
    BY DEF Context
  <2> DEFINE l == IF x = c /\ up # Null THEN FALSE ELSE s[x].linked
  <2>2. l \in BOOLEAN
    BY <2>1
  <2> HIDE DEF l, up
  <2>3. A(x) = [s[x] EXCEPT !.err = e, !.cause = cause, !.children = {}, !.timer = Off, !.linked = l]
    BY DEF l
  <2> HIDE DEF A
  <2>4. A(x) \in Context
    BY <2>1, <2>2, <2>3 DEF Context, NewErrs
  <2>5. SameContext(s[x], A(x))
    BY <2>1, <2>3 DEF Context, SameContext
  <2>6. A(x).err = e /\ A(x).cause = cause /\ A(x).children = {} /\ A(x).timer = Off
    BY <2>1, <2>3 DEF Context
  <2> QED BY <2>4, <2>5, <2>6
<1>4. ASSUME NEW x \in DOMAIN s, x \notin hit
      PROVE  /\ B(x) \in Context /\ SameContext(s[x], B(x))
             /\ B(x).err = s[x].err /\ B(x).cause = s[x].cause /\ B(x).linked = s[x].linked
             /\ B(x).timer = (IF x = c THEN Off ELSE s[x].timer)
             /\ B(x).children = IF x = up THEN s[x].children \ {c} ELSE s[x].children
  <2> DEFINE k == IF x = up THEN s[x].children \ {c} ELSE s[x].children
             m == IF x = c THEN Off ELSE s[x].timer
  <2>1. s[x] \in Context /\ k \in SUBSET (1..MaxCtx) /\ m \in Times \cup {Off}
    BY DEF Context
  <2>2. B(x) = [s[x] EXCEPT !.children = k, !.timer = m]
    OBVIOUS
  <2> HIDE DEF k, m, up, B
  <2>4. B(x) \in Context
    BY <2>1, <2>2 DEF Context
  <2>5. SameContext(s[x], B(x))
    BY <2>1, <2>2 DEF Context, SameContext
  <2>6. B(x).err = s[x].err /\ B(x).cause = s[x].cause /\ B(x).children = k /\ B(x).timer = m
    BY <2>1, <2>2 DEF Context
  <2>7. B(x).linked = s[x].linked
    BY <2>1, <2>2 DEF Context
  <2> QED BY <2>4, <2>5, <2>6, <2>7 DEF k, m
<1>5. ASSUME NEW x \in DOMAIN s
      PROVE  x = up <=> hit # {} /\ remove /\ s[c].linked /\ x = s[c].owner
  OBVIOUS
<1>6. ASSUME NEW x \in DOMAIN s, x \notin hit
      PROVE  t[x].children = IF hit # {} /\ remove /\ s[c].linked /\ x = s[c].owner
                             THEN s[x].children \ {c} ELSE s[x].children
  <2>1. t[x] = B(x)
    BY <1>2, <1>6
  <2>2. t[x].children = IF x = up THEN s[x].children \ {c} ELSE s[x].children
    <3> HIDE DEF up, B
    <3> QED BY <2>1, <1>4, <1>6
  <2> HIDE DEF up
  <2> QED BY <2>2, <1>5
<1> HIDE DEF A, B, up
<1>7. \A x \in DOMAIN s : t[x] \in Context /\ SameContext(s[x], t[x])
  BY <1>2, <1>3, <1>4
<1>8. \A x \in DOMAIN s \cap hit :
        t[x].err = e /\ t[x].cause = cause /\ t[x].children = {} /\ t[x].timer = Off
  BY <1>2, <1>3
<1>9. \A x \in DOMAIN s \ hit :
        /\ t[x].err = s[x].err /\ t[x].cause = s[x].cause /\ t[x].linked = s[x].linked
        /\ t[x].timer = IF x = c THEN Off ELSE s[x].timer
  BY <1>2, <1>4
<1> HIDE DEF hit, t
<1>10. Cancelled(s, c, remove, e, cause, hit, t)
  BY <1>2, <1>6, <1>7, <1>8, <1>9 DEF Cancelled
<1> QED BY <1>10 DEF hit, t

\* What is over in s is over in t, with the same error and cause.
Later(s, t) ==
  /\ Continues(s, t)
  /\ \A x \in DOMAIN s : ~Live(s, x) =>
       t[x].err = s[x].err /\ t[x].cause = s[x].cause /\ t[x].owner = s[x].owner

\* What a step from s to t ended has its end from the context it is registered
\* with, or is where the cancellation started.
Inherits(s, t) ==
  \A c \in DOMAIN t :
    /\ t[c].err # Null
    /\ c \in DOMAIN s => Live(s, c)
    /\ t[c].owner # Null
    => \/ t[t[c].owner].err = Null
       \/ t[c].err = t[t[c].owner].err /\ t[c].cause = t[t[c].owner].cause

LEMMA SameShape ==
  ASSUME NEW s, NEW t, Shaped(s), DOMAIN t = DOMAIN s,
         \A x \in DOMAIN s : t[x] \in Context /\ t[x].kind = s[x].kind
                             /\ t[x].parent = s[x].parent
  PROVE  Shaped(t)
BY DEF Shaped

\* A call of cancel() of c at time n that the tree justifies.
Cancels(s, n, c, remove, e, cause, t) ==
  /\ n \in Nat /\ c \in DOMAIN s /\ IsCancelCtx(s, c)
  /\ remove \in BOOLEAN /\ (remove \/ s[c].owner = Null)
  /\ e \in NewErrs /\ (e = "DeadlineExceeded" => Due(s, c, n))
  /\ cause \in {Null, "why"}
  /\ t = Cancel(s, c, remove, e, cause)

LEMMA CancelKeeps ==
  ASSUME NEW s, NEW n, NEW c, NEW remove, NEW e, NEW cause, NEW t,
         Sound(s, n), Cancels(s, n, c, remove, e, cause, t)
  PROVE  Sound(t, n) /\ Later(s, t) /\ Inherits(s, t) /\ DOMAIN t = DOMAIN s
<1> /\ n \in Nat /\ c \in DOMAIN s /\ IsCancelCtx(s, c)
    /\ remove \in BOOLEAN /\ (remove \/ s[c].owner = Null)
    /\ e \in NewErrs /\ (e = "DeadlineExceeded" => Due(s, c, n))
    /\ cause \in {Null, "why"}
    /\ t = Cancel(s, c, remove, e, cause)
  BY DEF Cancels
<1> DEFINE hit == IF Live(s, c) THEN Reached(s, c) ELSE {}
<1>s. Shaped(s) /\ Registered(s) /\ Tree(s) /\ Timed(s, n)
  BY DEF Sound
<1>n. DOMAIN s \subseteq Nat /\ Null \notin DOMAIN s /\ \A x \in DOMAIN s : s[x] \in Context
  BY <1>s, ContextNumbers, ContextAssumption DEF Shaped
<1>1. /\ DOMAIN t = DOMAIN s
      /\ \A x \in DOMAIN s : t[x] \in Context /\ SameContext(s[x], t[x])
      /\ \A x \in DOMAIN s \cap hit :
           t[x].err = e /\ t[x].cause = cause /\ t[x].children = {} /\ t[x].timer = Off
      /\ \A x \in DOMAIN s \ hit :
           /\ t[x].err = s[x].err /\ t[x].cause = s[x].cause /\ t[x].linked = s[x].linked
           /\ t[x].timer = IF x = c THEN Off ELSE s[x].timer
           /\ t[x].children =
                IF hit # {} /\ remove /\ s[c].linked /\ x = s[c].owner
                THEN s[x].children \ {c} ELSE s[x].children
  <2> HIDE DEF hit
  <2>1. hit = IF Live(s, c) THEN Reached(s, c) ELSE {}
    BY DEF hit
  <2>2. Cancelled(s, c, remove, e, cause, hit, t)
    BY <1>n, <2>1, CancelFields
  <2> QED BY <2>2 DEF Cancelled
<1>2. /\ hit \subseteq DOMAIN s
      /\ hit # {} => c \in hit /\ Live(s, c)
      /\ \A d \in hit : Live(s, d) /\ IsCancelCtx(s, d) /\ Binding(s, c) \subseteq Binding(s, d)
                        /\ (d # c => s[d].owner \in hit)
      /\ \A x \in hit, y \in DOMAIN s : y \in s[x].children /\ Live(s, y) => y \in hit
  <2>1. CASE Live(s, c)
    BY <2>1, <1>s, ReachedSteps, ReachedFacts
  <2>2. CASE ~Live(s, c)
    BY <2>2
  <2> QED BY <2>1, <2>2
<1> HIDE DEF hit
<1>e. e # Null
  BY ContextAssumption DEF NewErrs
<1>3. \A x \in DOMAIN s : IsCancelCtx(t, x) <=> IsCancelCtx(s, x)
  BY <1>1 DEF IsCancelCtx, SameContext
<1>4. \A x \in DOMAIN s : Live(t, x) <=> Live(s, x) /\ x \notin hit
  BY <1>1, <1>e DEF Live
<1>5. Shaped(t)
  BY <1>1, <1>s, SameShape DEF SameContext
<1>6. Continues(s, t)
  BY <1>1 DEF Continues, SameContext
<1>7. \A x \in DOMAIN s : /\ Unwrap(t, x) = Unwrap(s, x) /\ Deadline(t, x) = Deadline(s, x)
                          /\ Binding(t, x) = Binding(s, x)
  BY <1>5, <1>6, <1>s, WalksStay
<1>8. Later(s, t)
  BY <1>6, <1>1, <1>2 DEF Later, SameContext
<1>9. Registered(t)
  <2> SUFFICES ASSUME NEW x \in DOMAIN t
               PROVE  /\ t[x].owner # Null =>
                           /\ t[x].owner \in DOMAIN t /\ t[x].owner < x
                           /\ t[x].owner = Unwrap(t, t[x].parent)
                           /\ IsCancelCtx(t, t[x].owner) /\ IsCancelCtx(t, x)
                           /\ t[x].watch = "no" /\ (Live(t, x) => t[x].linked)
                      /\ t[x].watch # "no" => IsCancelCtx(t, x) /\ ~IsCancelCtx(t, Unwrap(t, t[x].parent))
                      /\ ~IsCancelCtx(t, x) => t[x].children = {} /\ t[x].err \in {Null, "custom"}
    BY DEF Registered
  <2>1. x \in DOMAIN s /\ SameContext(s[x], t[x]) /\ s[x].parent \in DOMAIN s
    BY <1>1, <1>s DEF Shaped
  <2>2. Unwrap(t, s[x].parent) = Unwrap(s, s[x].parent) /\ Unwrap(s, s[x].parent) \in DOMAIN s
    BY <2>1, <1>7, <1>s, UnwrapEnds
  <2>3. ASSUME t[x].owner # Null
        PROVE  /\ t[x].owner \in DOMAIN t /\ t[x].owner < x
               /\ t[x].owner = Unwrap(t, t[x].parent)
               /\ IsCancelCtx(t, t[x].owner) /\ IsCancelCtx(t, x)
               /\ t[x].watch = "no" /\ (Live(t, x) => t[x].linked)
    <3>1. t[x].owner = s[x].owner /\ t[x].parent = s[x].parent /\ t[x].watch = s[x].watch
      BY <2>1 DEF SameContext
    <3>2. /\ s[x].owner \in DOMAIN s /\ s[x].owner < x
          /\ s[x].owner = Unwrap(s, s[x].parent)
          /\ IsCancelCtx(s, s[x].owner) /\ IsCancelCtx(s, x)
          /\ s[x].watch = "no" /\ (Live(s, x) => s[x].linked)
      BY <2>1, <2>3, <3>1, <1>s DEF Registered
    <3>3. Live(t, x) => t[x].linked
      BY <3>2, <1>4, <1>1, <2>1
    <3> QED BY <3>1, <3>2, <3>3, <2>1, <2>2, <1>1, <1>3
  <2>4. t[x].watch # "no" => IsCancelCtx(t, x) /\ ~IsCancelCtx(t, Unwrap(t, t[x].parent))
    <3>1. t[x].parent = s[x].parent /\ t[x].watch = s[x].watch
      BY <2>1 DEF SameContext
    <3>2. s[x].watch # "no" => IsCancelCtx(s, x) /\ ~IsCancelCtx(s, Unwrap(s, s[x].parent))
      BY <2>1, <1>s DEF Registered
    <3> QED BY <3>1, <3>2, <2>1, <2>2, <1>3
  <2>5. ~IsCancelCtx(t, x) => t[x].children = {} /\ t[x].err \in {Null, "custom"}
    <3> SUFFICES ASSUME ~IsCancelCtx(t, x) PROVE t[x].children = {} /\ t[x].err \in {Null, "custom"}
      OBVIOUS
    <3>1. ~IsCancelCtx(s, x) /\ x \notin hit
      BY <2>1, <1>3, <1>2
    <3>2. s[x].children = {} /\ s[x].err \in {Null, "custom"}
      BY <3>1, <2>1, <1>s DEF Registered
    <3> QED BY <3>1, <3>2, <2>1, <1>1
  <2> QED BY <2>3, <2>4, <2>5
<1>10. Tree(t)
  <2> SUFFICES ASSUME NEW p \in DOMAIN s, IsCancelCtx(s, p)
               PROVE  /\ t[p].children \subseteq DOMAIN s
                      /\ \A d \in DOMAIN s :
                           /\ d \in t[p].children <=> t[d].owner = p /\ Live(t, d)
                           /\ t[d].owner = p /\ ~Live(t, p) => ~Live(t, d)
    BY <1>1, <1>3 DEF Tree
  <2>1. /\ s[p].children \subseteq DOMAIN s
        /\ \A d \in DOMAIN s : /\ d \in s[p].children <=> s[d].owner = p /\ Live(s, d)
                               /\ s[d].owner = p /\ ~Live(s, p) => ~Live(s, d)
    BY <1>s DEF Tree
  <2>2. \A d \in DOMAIN s : t[d].owner = s[d].owner
    BY <1>1 DEF SameContext
  <2>3. CASE p \in hit
    <3>1. t[p].children = {} /\ ~Live(t, p)
      BY <2>3, <1>1, <1>4
    <3>2. \A d \in DOMAIN s : s[d].owner = p => ~Live(t, d)
      BY <2>1, <2>3, <1>2, <1>4
    <3> QED BY <3>1, <3>2, <2>2
  <2>4. CASE p \notin hit
    <3>1. \A d \in hit : s[d].owner = p => d = c
      BY <2>4, <1>2
    <3>2. t[p].children = IF hit # {} /\ remove /\ s[c].linked /\ p = s[c].owner
                          THEN s[p].children \ {c} ELSE s[p].children
      BY <2>4, <1>1
    <3>3. hit # {} /\ p = s[c].owner => remove /\ s[c].linked
      <4>1. p # Null
        BY <1>n
      <4> QED BY <4>1, <1>2, <1>s DEF Registered
    <3>4. ASSUME NEW d \in DOMAIN s
          PROVE  d \in t[p].children <=> s[d].owner = p /\ Live(t, d)
      <4>1. CASE d \in hit
        BY <4>1, <3>1, <3>2, <3>3, <2>1, <1>4
      <4>2. CASE d \notin hit
        <5>1. d \in t[p].children <=> d \in s[p].children
          BY <4>2, <3>2, <1>2
        <5> QED BY <5>1, <4>2, <2>1, <1>4
      <4> QED BY <4>1, <4>2
    <3>5. ~Live(t, p) => ~Live(s, p)
      BY <2>4, <1>4
    <3> QED BY <3>2, <3>4, <3>5, <2>1, <2>2, <1>4
  <2> QED BY <2>3, <2>4
<1>11. Timed(t, n)
  <2> SUFFICES ASSUME NEW x \in DOMAIN s PROVE TimedContext(t, x, n)
    BY <1>1 DEF Timed
  <2>1. /\ s[x].kind = "timer" => s[x].deadline \in Deadlines
        /\ s[x].timer # Off => s[x].kind = "timer"
        /\ s[x].timer # Off => s[x].timer = s[x].deadline \/ s[x].deadline > MaxDelay
        /\ s[x].err = "DeadlineExceeded" => Due(s, x, n)
        /\ Earliest(Deadline(s, x), Binding(s, x))
    BY <1>s DEF Timed, TimedContext
  <2>2. t[x].kind = s[x].kind /\ t[x].deadline = s[x].deadline
    BY <1>1 DEF SameContext
  <2>3. t[x].timer # Off => t[x].timer = s[x].timer
    BY <1>1
  <2>4. t[x].err = "DeadlineExceeded" => Due(t, x, n)
    <3>1. CASE x \in hit
      <4>1. Binding(s, c) \subseteq Binding(t, x) /\ t[x].err = e
        BY <3>1, <1>1, <1>2, <1>7
      <4> QED BY <4>1 DEF Due
    <3>2. CASE x \notin hit
      BY <3>2, <1>1, <1>7, <2>1 DEF Due
    <3> QED BY <3>1, <3>2
  <2>5. Binding(t, x) = Binding(s, x) /\ Deadline(t, x) = Deadline(s, x)
    BY <1>7
  <2> QED BY <2>1, <2>2, <2>3, <2>4, <2>5 DEF TimedContext
<1>12. Inherits(s, t)
  <2> SUFFICES ASSUME NEW x \in DOMAIN s, t[x].err # Null, Live(s, x), t[x].owner # Null
               PROVE  \/ t[t[x].owner].err = Null
                      \/ t[x].err = t[t[x].owner].err /\ t[x].cause = t[t[x].owner].cause
    BY <1>1 DEF Inherits
  <2>1. x \in hit /\ s[x].owner = t[x].owner
    BY <1>1, <1>4 DEF Live, SameContext
  <2>2. s[x].owner \in DOMAIN s /\ IsCancelCtx(s, s[x].owner)
    BY <2>1, <1>s DEF Registered
  <2>3. CASE s[x].owner \in hit
    BY <2>3, <2>1, <2>2, <1>1
  <2>4. CASE s[x].owner \notin hit
    <3>1. Live(s, s[x].owner)
      BY <2>2, <1>s DEF Tree
    <3> QED BY <3>1, <2>1, <2>2, <2>4, <1>4 DEF Live
  <2> QED BY <2>3, <2>4
<1> QED BY <1>1, <1>5, <1>8, <1>9, <1>10, <1>11, <1>12 DEF Sound

\* A new state of the same contexts.
Restated(s, t) ==
  /\ DOMAIN t = DOMAIN s
  /\ \A x \in DOMAIN s : /\ t[x] \in Context /\ t[x].kind = s[x].kind
                         /\ t[x].parent = s[x].parent /\ t[x].deadline = s[x].deadline

SameWalks(s, t) ==
  /\ DOMAIN t = DOMAIN s
  /\ \A x \in DOMAIN s :
       /\ IsCancelCtx(t, x) <=> IsCancelCtx(s, x)
       /\ Unwrap(t, x) = Unwrap(s, x) /\ Deadline(t, x) = Deadline(s, x)
       /\ Binding(t, x) = Binding(s, x)
       /\ t[x].parent = s[x].parent /\ s[x].parent \in DOMAIN s
       /\ Unwrap(s, s[x].parent) \in DOMAIN s
       /\ Unwrap(t, t[x].parent) = Unwrap(s, s[x].parent)

LEMMA RestatedWalks ==
  ASSUME NEW s, NEW t, Shaped(s), Restated(s, t)
  PROVE  Shaped(t) /\ Continues(s, t) /\ SameWalks(s, t)
<1>1. Shaped(t)
  BY DEF Shaped, Restated
<1>2. Continues(s, t)
  BY DEF Continues, Restated
<1>3. \A x \in DOMAIN s : s[x].parent \in DOMAIN s
  BY DEF Shaped
<1>4. \A x \in DOMAIN s : /\ Unwrap(t, x) = Unwrap(s, x) /\ Deadline(t, x) = Deadline(s, x)
                          /\ Binding(t, x) = Binding(s, x) /\ Unwrap(s, x) \in DOMAIN s
  BY <1>1, <1>2, WalksStay, UnwrapEnds
<1>5. \A x \in DOMAIN s : IsCancelCtx(t, x) <=> IsCancelCtx(s, x)
  BY DEF IsCancelCtx, Restated
<1>6. \A x \in DOMAIN s : t[x].parent = s[x].parent
  BY DEF Restated
<1>7. DOMAIN t = DOMAIN s
  BY DEF Restated
<1>8. SameWalks(s, t)
  BY <1>3, <1>4, <1>5, <1>6, <1>7 DEF SameWalks
<1> QED BY <1>1, <1>2, <1>8

\* a is a sound state of context c in the tree of s.
Placed(s, c, a) ==
  /\ a.owner # Null =>
       /\ a.owner \in DOMAIN s /\ a.owner < c
       /\ a.owner = Unwrap(s, s[c].parent)
       /\ IsCancelCtx(s, a.owner) /\ IsCancelCtx(s, c)
       /\ a.watch = "no" /\ (a.err = Null => a.linked)
  /\ a.watch # "no" => IsCancelCtx(s, c) /\ ~IsCancelCtx(s, Unwrap(s, s[c].parent))
  /\ ~IsCancelCtx(s, c) => a.children = {} /\ a.err \in {Null, "custom"}

LEMMA RestatedRegistered ==
  ASSUME NEW s, NEW t, Shaped(s), Restated(s, t),
         \A x \in DOMAIN s : Placed(s, x, t[x])
  PROVE  Registered(t)
<1>1. SameWalks(s, t)
  BY RestatedWalks
<1> SUFFICES ASSUME NEW c \in DOMAIN s
    PROVE  /\ t[c].owner # Null =>
                /\ t[c].owner \in DOMAIN t /\ t[c].owner < c
                /\ t[c].owner = Unwrap(t, t[c].parent)
                /\ IsCancelCtx(t, t[c].owner) /\ IsCancelCtx(t, c)
                /\ t[c].watch = "no" /\ (Live(t, c) => t[c].linked)
           /\ t[c].watch # "no" => IsCancelCtx(t, c) /\ ~IsCancelCtx(t, Unwrap(t, t[c].parent))
           /\ ~IsCancelCtx(t, c) => t[c].children = {} /\ t[c].err \in {Null, "custom"}
  BY <1>1 DEF Registered, SameWalks
<1>2. Placed(s, c, t[c])
  OBVIOUS
<1>3. Live(t, c) <=> t[c].err = Null
  BY DEF Live
<1> QED BY <1>1, <1>2, <1>3 DEF Placed, SameWalks

\* What p keeps as its children is right in t.
KeepsChildren(t, p) ==
  /\ t[p].children \subseteq DOMAIN t
  /\ \A d \in DOMAIN t : /\ d \in t[p].children <=> t[d].owner = p /\ Live(t, d)
                         /\ t[d].owner = p /\ ~Live(t, p) => ~Live(t, d)

LEMMA RegisteredPlaced ==
  ASSUME NEW s, Registered(s), NEW c \in DOMAIN s
  PROVE  Placed(s, c, s[c])
BY DEF Registered, Placed, Live

LEMMA RestatedTree ==
  ASSUME NEW s, NEW t, Shaped(s), Restated(s, t),
         \A p \in DOMAIN s : IsCancelCtx(s, p) => KeepsChildren(t, p)
  PROVE  Tree(t)
<1>1. SameWalks(s, t)
  BY RestatedWalks
<1>2. \A p \in DOMAIN t : IsCancelCtx(t, p) => KeepsChildren(t, p)
  BY <1>1 DEF SameWalks
<1> QED BY <1>2 DEF Tree, KeepsChildren

LEMMA RestatedTimed ==
  ASSUME NEW s, NEW t, NEW n, Shaped(s), Restated(s, t), Timed(s, n),
         \A x \in DOMAIN s :
           /\ \/ t[x].timer \in {s[x].timer, Off}
              \/ s[x].kind = "timer" /\ (t[x].timer = s[x].deadline \/ s[x].deadline > MaxDelay)
           /\ t[x].err = "DeadlineExceeded" => s[x].err = "DeadlineExceeded" \/ Due(s, x, n)
  PROVE  Timed(t, n)
<1> SUFFICES ASSUME NEW x \in DOMAIN s PROVE TimedContext(t, x, n)
  BY DEF Timed, Restated
<1>1. TimedContext(s, x, n)
  BY DEF Timed
<1>2. Binding(t, x) = Binding(s, x) /\ Deadline(t, x) = Deadline(s, x)
  BY RestatedWalks DEF SameWalks
<1>3. t[x].kind = s[x].kind /\ t[x].deadline = s[x].deadline
  BY DEF Restated
<1>4. Due(t, x, n) <=> Due(s, x, n)
  BY <1>2 DEF Due
<1> QED BY <1>1, <1>2, <1>3, <1>4 DEF TimedContext

\* A new context, not registered yet.
LEMMA AddKeeps ==
  ASSUME NEW s, NEW n, Sound(s, n), NEW m \in 1..MaxCtx, DOMAIN s = 0..(m - 1),
         NEW new \in Context, new.parent \in DOMAIN s, new.kind # "background",
         new.children = {}, new.err = Null, new.owner = Null, new.watch = "no",
         new.timer = Off,
         new.kind = "timer" =>
           /\ new.deadline \in Deadlines
           /\ Deadline(s, new.parent) # Null => new.deadline < Deadline(s, new.parent),
         NEW t, t = [c \in 0..m |-> IF c = m THEN new ELSE s[c]]
  PROVE  /\ Sound(t, n) /\ Later(s, t) /\ DOMAIN t = 0..m /\ t[m] = new
         /\ \A x \in DOMAIN s : t[x] = s[x]
<1>s. Shaped(s) /\ Registered(s) /\ Tree(s) /\ Timed(s, n)
  BY DEF Sound
<1>m. m \in Nat /\ m > 0 /\ MaxCtx \in Nat /\ m \notin DOMAIN s /\ DOMAIN s \subseteq Nat
  BY ContextAssumption
<1>1. /\ DOMAIN t = 0..m /\ t[m] = new /\ DOMAIN s \subseteq DOMAIN t
      /\ \A x \in DOMAIN s : t[x] = s[x]
      /\ \A x \in DOMAIN t : x = m \/ x \in DOMAIN s
  BY <1>m
<1>2. Shaped(t)
  <2>1. m \in 0..MaxCtx
    OBVIOUS
  <2>2. new.parent < m /\ new.parent \in DOMAIN t
    BY <1>1, <1>m
  <2>3. ASSUME NEW c \in DOMAIN t
        PROVE  /\ t[c] \in Context /\ t[c].parent \in DOMAIN t
               /\ t[c].kind # "background" => t[c].parent < c
    BY <2>2, <1>1, <1>s DEF Shaped
  <2> QED BY <2>1, <2>3, <1>1 DEF Shaped
<1>3. Continues(s, t)
  BY <1>1 DEF Continues
<1>4. Later(s, t)
  BY <1>1, <1>3 DEF Later
<1>5. \A x \in DOMAIN s : /\ Unwrap(t, x) = Unwrap(s, x) /\ Deadline(t, x) = Deadline(s, x)
                          /\ Binding(t, x) = Binding(s, x) /\ Unwrap(s, x) \in DOMAIN s
                          /\ s[x].parent \in DOMAIN s /\ (IsCancelCtx(t, x) <=> IsCancelCtx(s, x))
                          /\ (Live(t, x) <=> Live(s, x))
  <2>1. \A x \in DOMAIN s : /\ Unwrap(t, x) = Unwrap(s, x) /\ Deadline(t, x) = Deadline(s, x)
                            /\ Binding(t, x) = Binding(s, x)
    BY <1>s, <1>2, <1>3, WalksStay
  <2>2. \A x \in DOMAIN s : Unwrap(s, x) \in DOMAIN s /\ s[x].parent \in DOMAIN s
    BY <1>s, UnwrapEnds DEF Shaped
  <2>3. \A x \in DOMAIN s : /\ IsCancelCtx(t, x) <=> IsCancelCtx(s, x)
                            /\ Live(t, x) <=> Live(s, x)
    BY <1>1 DEF IsCancelCtx, Live
  <2> QED BY <2>1, <2>2, <2>3
<1>6. Registered(t)
  <2>1. ASSUME NEW c \in DOMAIN s
        PROVE  /\ t[c].owner # Null =>
                     /\ t[c].owner \in DOMAIN t /\ t[c].owner < c
                     /\ t[c].owner = Unwrap(t, t[c].parent)
                     /\ IsCancelCtx(t, t[c].owner) /\ IsCancelCtx(t, c)
                     /\ t[c].watch = "no" /\ (Live(t, c) => t[c].linked)
               /\ t[c].watch # "no" => IsCancelCtx(t, c) /\ ~IsCancelCtx(t, Unwrap(t, t[c].parent))
               /\ ~IsCancelCtx(t, c) => t[c].children = {} /\ t[c].err \in {Null, "custom"}
    <3>0. /\ t[c] = s[c] /\ s[c].parent \in DOMAIN s /\ Unwrap(t, s[c].parent) = Unwrap(s, s[c].parent)
          /\ Unwrap(s, s[c].parent) \in DOMAIN s /\ (IsCancelCtx(t, c) <=> IsCancelCtx(s, c))
          /\ (Live(t, c) <=> Live(s, c))
          /\ IsCancelCtx(t, Unwrap(s, s[c].parent)) <=> IsCancelCtx(s, Unwrap(s, s[c].parent))
      BY <1>1, <1>5
    <3>1. ASSUME s[c].owner # Null
          PROVE  /\ s[c].owner \in DOMAIN s /\ s[c].owner < c
                 /\ s[c].owner = Unwrap(s, s[c].parent)
                 /\ IsCancelCtx(s, s[c].owner) /\ IsCancelCtx(s, c)
                 /\ s[c].watch = "no" /\ (Live(s, c) => s[c].linked)
      BY <3>1, <1>s DEF Registered
    <3>2. /\ s[c].watch # "no" => IsCancelCtx(s, c) /\ ~IsCancelCtx(s, Unwrap(s, s[c].parent))
          /\ ~IsCancelCtx(s, c) => s[c].children = {} /\ s[c].err \in {Null, "custom"}
      BY <1>s DEF Registered
    <3>3. s[c].owner # Null => s[c].owner \in DOMAIN t /\ IsCancelCtx(t, s[c].owner)
      BY <3>1, <1>5, <1>1
    <3> QED BY <3>0, <3>1, <3>2, <3>3
  <2>2. new.owner = Null /\ new.watch = "no" /\ new.children = {} /\ new.err = Null
    OBVIOUS
  <2> QED BY <2>1, <2>2, <1>1 DEF Registered
<1>7. Tree(t)
  <2>1. ASSUME NEW p \in DOMAIN t, IsCancelCtx(t, p)
        PROVE  /\ t[p].children \subseteq DOMAIN t
               /\ \A c \in DOMAIN t : /\ c \in t[p].children <=> t[c].owner = p /\ Live(t, c)
                                      /\ t[c].owner = p /\ ~Live(t, p) => ~Live(t, c)
    <3>0. p # Null
      BY <1>1, <1>m, ContextAssumption
    <3>1. CASE p = m
      <4>1. \A c \in DOMAIN t : t[c].owner # m
        <5>1. \A c \in DOMAIN s : s[c].owner # m
          <6>1. m # Null
            BY <1>m, ContextAssumption
          <6> QED BY <6>1, <1>s, <1>m DEF Registered
        <5> QED BY <5>1, <1>1, <3>0, <3>1
      <4> QED BY <4>1, <3>1, <1>1
    <3>2. CASE p \in DOMAIN s
      <4>1. /\ s[p].children \subseteq DOMAIN s
            /\ \A c \in DOMAIN s : /\ c \in s[p].children <=> s[c].owner = p /\ Live(s, c)
                                   /\ s[c].owner = p /\ ~Live(s, p) => ~Live(s, c)
        BY <2>1, <3>2, <1>5, <1>s DEF Tree
      <4>2. m \notin t[p].children /\ t[m].owner # p
        BY <4>1, <3>0, <3>2, <1>1, <1>m
      <4> QED BY <4>1, <4>2, <3>2, <1>1, <1>5
    <3> QED BY <3>1, <3>2, <1>1
  <2> QED BY <2>1 DEF Tree
<1>8. Timed(t, n)
  <2>1. ASSUME NEW x \in DOMAIN s PROVE TimedContext(t, x, n)
    BY <1>1, <1>5, <1>s DEF Timed, TimedContext, Due
  <2>2. TimedContext(t, m, n)
    <3> DEFINE p == new.parent
    <3>1. Binding(t, m) = IF new.kind \notin {"value", "cancel", "timer"} THEN {}
            ELSE Binding(s, p) \cup (IF new.kind = "timer" THEN {new.deadline} ELSE {})
      <4>1. Binding(t, m) = IF t[m].kind \notin {"value", "cancel", "timer"} THEN {}
              ELSE Binding(t, t[m].parent)
                     \cup (IF t[m].kind = "timer" THEN {t[m].deadline} ELSE {})
        <5>1. m \in DOMAIN t
          BY <1>1
        <5> QED BY <5>1, <1>2, BindingStep, Zenon
      <4>2. Binding(t, p) = Binding(s, p)
        BY <1>5
      <4> QED BY <4>1, <4>2, <1>1
    <3>2. Deadline(t, m) = IF new.kind \in {"value", "cancel"} THEN Deadline(s, p)
                           ELSE IF new.kind = "timer" THEN new.deadline ELSE Null
      <4>1. Deadline(t, m) = IF t[m].kind \in {"value", "cancel"} THEN Deadline(t, t[m].parent)
                             ELSE IF t[m].kind = "timer" THEN t[m].deadline ELSE Null
        BY <1>1, <1>2, DeadlineStep
      <4>2. Deadline(t, p) = Deadline(s, p)
        BY <1>5
      <4> QED BY <4>1, <4>2, <1>1
    <3>3. Earliest(Deadline(s, p), Binding(s, p)) /\ Binding(s, p) \subseteq Nat
      <4>1. \A c \in DOMAIN s : s[c].kind = "timer" => s[c].deadline \in Deadlines
        BY <1>s DEF Timed, TimedContext
      <4>2. Binding(s, p) \subseteq Deadlines
        BY <4>1, <1>s, BindingTyped
      <4> QED BY <4>2, <1>s, ContextAssumption DEF Timed, TimedContext
    <3> HIDE DEF p
    <3>4. Earliest(Deadline(t, m), Binding(t, m))
      <4>1. CASE new.kind \in {"value", "cancel"}
        BY <4>1, <3>1, <3>2, <3>3
      <4>2. CASE new.kind = "timer"
        <5>1. new.deadline \in Nat /\ Deadline(t, m) = new.deadline
              /\ Binding(t, m) = Binding(s, p) \cup {new.deadline}
          BY <4>2, <3>1, <3>2, ContextAssumption
        <5>2. \A d \in Binding(s, p) : new.deadline <= d
          <6>1. CASE Binding(s, p) = {}
            BY <6>1
          <6>2. CASE Binding(s, p) # {}
            <7>1. Deadline(s, p) \in Nat /\ \A d \in Binding(s, p) : Deadline(s, p) <= d
              BY <6>2, <3>3 DEF Earliest
            <7>2. new.deadline < Deadline(s, p)
              BY <7>1, <4>2, ContextAssumption DEF p
            <7>3. ASSUME NEW d \in Binding(s, p) PROVE new.deadline <= d
              <8>1. d \in Nat /\ Deadline(s, p) <= d
                BY <7>1, <7>3, <3>3
              <8> QED BY <8>1, <7>1, <7>2, <5>1
            <7> QED BY <7>3
          <6> QED BY <6>1, <6>2
        <5> QED BY <5>1, <5>2, SMTT(30) DEF Earliest
      <4>3. CASE new.kind \notin {"value", "cancel", "timer"}
        BY <4>3, <3>1, <3>2 DEF Earliest
      <4> QED BY <4>1, <4>2, <4>3
    <3>5. "DeadlineExceeded" # Null
      BY ContextAssumption
    <3> QED BY <3>4, <3>5, <1>1 DEF TimedContext
  <2> QED BY <2>1, <2>2, <1>1 DEF Timed
<1> QED BY <1>1, <1>2, <1>4, <1>6, <1>7, <1>8 DEF Sound

\* A context that was created just now: live, without children, a timer, an
\* owner or a watcher.
Newborn(s, c) ==
  /\ c \in DOMAIN s /\ IsCancelCtx(s, c) /\ Live(s, c)
  /\ s[c].owner = Null /\ s[c].watch = "no" /\ s[c].timer = Off /\ s[c].children = {}

\* What propagateCancel() has done to c.
Propagated(s, t, c) ==
  /\ IsCancelCtx(t, c) /\ t[c].timer = Off
  /\ \A x \in DOMAIN s : x # c => t[x].err = s[x].err /\ t[x].cause = s[x].cause
  /\ ~Live(t, c) => /\ t[c].owner # Null /\ ~Live(t, t[c].owner)
                    /\ t[c].err = t[t[c].owner].err /\ t[c].cause = t[t[c].owner].cause

\* Registered with a parent that is live.
JoinedTo(s, c, p) ==
  [s EXCEPT ![c].owner = p, ![c].linked = TRUE, ![p].children = @ \cup {c}]

LEMMA JoinsLive ==
  ASSUME NEW s, NEW n, Sound(s, n), NEW c, Newborn(s, c),
         NEW p, p = Unwrap(s, s[c].parent), IsCancelCtx(s, p), Live(s, p),
         NEW t, t = JoinedTo(s, c, p)
  PROVE  Sound(t, n) /\ Later(s, t) /\ DOMAIN t = DOMAIN s /\ Propagated(s, t, c)
<1>s. Shaped(s) /\ Registered(s) /\ Tree(s) /\ Timed(s, n)
  BY DEF Sound
<1>n. /\ c \in DOMAIN s /\ IsCancelCtx(s, c) /\ Live(s, c) /\ s[c].owner = Null
      /\ s[c].watch = "no" /\ s[c].timer = Off /\ s[c].children = {}
  BY DEF Newborn
<1>p. /\ p \in DOMAIN s /\ p < c /\ p \in Nat /\ c \in Nat /\ p # Null /\ p # c
      /\ s[c].parent \in DOMAIN s
      /\ p \in 0..MaxCtx /\ c \in 1..MaxCtx /\ s[c] \in Context /\ s[p] \in Context
  <2>1. s[c].parent \in DOMAIN s /\ s[c].parent < c
    BY <1>n, <1>s DEF Shaped, IsCancelCtx
  <2>2. p \in DOMAIN s /\ p <= s[c].parent
    BY <2>1, <1>s, UnwrapEnds
  <2>3. c \in Nat /\ p \in Nat /\ s[c].parent \in Nat
    BY <2>1, <2>2, <1>n, <1>s, ContextNumbers
  <2>4. p < c
    BY <2>1, <2>2, <2>3
  <2>5. c \in 0..MaxCtx /\ p \in 0..MaxCtx /\ s[c] \in Context /\ s[p] \in Context
    BY <1>n, <2>2, <1>s, ContextAssumption DEF Shaped
  <2> QED BY <2>1, <2>2, <2>3, <2>4, <2>5, ContextAssumption
<1> DEFINE a == [s[c] EXCEPT !.owner = p, !.linked = TRUE]
           b == [s[p] EXCEPT !.children = @ \cup {c}]
<1>1. /\ DOMAIN t = DOMAIN s /\ t[c] = a /\ t[p] = b
      /\ \A x \in DOMAIN s : x # c /\ x # p => t[x] = s[x]
  BY <1>n, <1>p DEF JoinedTo
<1>2. /\ a \in Context /\ SameContext([s[c] EXCEPT !.owner = p], a) /\ a.owner = p
      /\ a.kind = s[c].kind /\ a.parent = s[c].parent /\ a.deadline = s[c].deadline
      /\ a.watch = s[c].watch /\ a.children = s[c].children /\ a.timer = s[c].timer
      /\ a.err = s[c].err /\ a.cause = s[c].cause
  BY <1>p DEF Context, SameContext
<1>3. a.linked
  BY <1>p DEF Context
<1>4. /\ b.kind = s[p].kind /\ b.parent = s[p].parent /\ b.deadline = s[p].deadline
      /\ b.watch = s[p].watch /\ b.timer = s[p].timer /\ b.owner = s[p].owner
      /\ b.err = s[p].err /\ b.cause = s[p].cause /\ b.children = s[p].children \cup {c}
  BY <1>p DEF Context
<1>5. b.linked = s[p].linked
  BY <1>p DEF Context
<1>6. b \in Context
  <2>1. s[p].children \cup {c} \in SUBSET (1..MaxCtx)
    BY <1>p DEF Context
  <2> QED BY <2>1, <1>p DEF Context
<1> HIDE DEF a, b
<1>7. Restated(s, t)
  <2>1. ASSUME NEW x \in DOMAIN s
        PROVE  /\ t[x] \in Context /\ t[x].kind = s[x].kind
               /\ t[x].parent = s[x].parent /\ t[x].deadline = s[x].deadline
    BY <1>1, <1>2, <1>4, <1>6, <1>s DEF Shaped
  <2> QED BY <2>1, <1>1 DEF Restated
<1>8. Shaped(t) /\ Continues(s, t) /\ SameWalks(s, t)
  BY <1>7, <1>s, RestatedWalks
<1>9. \A x \in DOMAIN s :
        /\ t[x].err = s[x].err /\ t[x].cause = s[x].cause /\ t[x].timer = s[x].timer
        /\ t[x].watch = s[x].watch /\ t[x].owner = (IF x = c THEN p ELSE s[x].owner)
        /\ (x # c => t[x].linked = s[x].linked)
        /\ t[x].children = IF x = p THEN s[p].children \cup {c} ELSE s[x].children
  BY <1>1, <1>2, <1>4, <1>5, <1>p
<1>10. \A x \in DOMAIN s : Live(t, x) <=> Live(s, x)
  BY <1>9 DEF Live
<1>11. Timed(t, n)
  BY <1>7, <1>9, <1>s, RestatedTimed
<1>12. Later(s, t)
  BY <1>8, <1>9, <1>n DEF Later
<1>13. Registered(t)
  <2>1. ASSUME NEW x \in DOMAIN s PROVE Placed(s, x, t[x])
    <3>1. CASE x = c
      <4>1. t[c].owner = p
        BY <1>1, <1>2
      <4>3. t[c].watch = "no"
        BY <1>1, <1>2, <1>n
      <4>2. t[c].linked
        BY <1>1, <1>3
      <4> QED BY <4>1, <4>2, <4>3, <3>1, <1>n, <1>p DEF Placed
    <3>2. CASE x # c
      <4>1. Placed(s, x, s[x])
        BY <1>s, RegisteredPlaced
      <4>2. /\ t[x].owner = s[x].owner /\ t[x].watch = s[x].watch /\ t[x].linked = s[x].linked
            /\ t[x].err = s[x].err
        BY <3>2, <1>9
      <4>3. ~IsCancelCtx(s, x) => t[x].children = s[x].children
        BY <1>9
      <4> QED BY <4>1, <4>2, <4>3 DEF Placed
    <3> QED BY <3>1, <3>2
  <2> QED BY <2>1, <1>7, <1>s, RestatedRegistered
<1>14. Tree(t)
  <2>0. ASSUME NEW q \in DOMAIN s, IsCancelCtx(s, q) PROVE KeepsChildren(t, q)
    <3>1. /\ s[q].children \subseteq DOMAIN s
          /\ \A d \in DOMAIN s : /\ d \in s[q].children <=> s[d].owner = q /\ Live(s, d)
                                 /\ s[d].owner = q /\ ~Live(s, q) => ~Live(s, d)
      BY <2>0, <1>s DEF Tree
    <3>2. q # Null
      BY <1>s, ContextNumbers, ContextAssumption
    <3>3. c \notin s[q].children
      BY <3>1, <3>2, <1>n
    <3>4. t[q].children = IF q = p THEN s[q].children \cup {c} ELSE s[q].children
      BY <1>9
    <3>5. t[q].children \subseteq DOMAIN t
      BY <3>1, <3>4, <1>1, <1>n
    <3>6. ASSUME NEW d \in DOMAIN s
          PROVE  /\ d \in t[q].children <=> t[d].owner = q /\ Live(t, d)
                 /\ t[d].owner = q /\ ~Live(t, q) => ~Live(t, d)
      <4>0. (Live(t, d) <=> Live(s, d)) /\ (Live(t, q) <=> Live(s, q))
        BY <1>10
      <4>1. CASE d = c
        <5>1. t[d].owner = p
          BY <4>1, <1>9, <1>n
        <5> QED BY <4>0, <4>1, <5>1, <3>3, <3>4, <1>n
      <4>2. CASE d # c
        <5>1. t[d].owner = s[d].owner /\ (d \in t[q].children <=> d \in s[q].children)
          BY <4>2, <1>9, <3>4
        <5> QED BY <4>0, <5>1, <3>1
      <4> QED BY <4>1, <4>2
    <3> QED BY <3>5, <3>6, <1>1 DEF KeepsChildren
  <2> QED BY <2>0, <1>7, <1>s, RestatedTree
<1>15. Propagated(s, t, c)
  BY <1>8, <1>9, <1>10, <1>n DEF Propagated, SameWalks
<1> QED BY <1>1, <1>8, <1>11, <1>12, <1>13, <1>14, <1>15 DEF Sound

\* Registered with a parent that is over, it is over at once.
LEMMA JoinsDead ==
  ASSUME NEW s, NEW n, Sound(s, n), NEW c, Newborn(s, c),
         NEW p, p = Unwrap(s, s[c].parent), IsCancelCtx(s, p), ~Live(s, p),
         NEW t, t = Cancel([s EXCEPT ![c].owner = p], c, FALSE, s[p].err, s[p].cause)
  PROVE  Sound(t, n) /\ Later(s, t) /\ DOMAIN t = DOMAIN s /\ Propagated(s, t, c)
<1>s. Shaped(s) /\ Registered(s) /\ Tree(s) /\ Timed(s, n)
  BY DEF Sound
<1>n. /\ c \in DOMAIN s /\ IsCancelCtx(s, c) /\ Live(s, c) /\ s[c].owner = Null
      /\ s[c].watch = "no" /\ s[c].timer = Off /\ s[c].children = {}
  BY DEF Newborn
<1>p. /\ p \in DOMAIN s /\ p < c /\ p \in Nat /\ c \in Nat /\ p # Null /\ p # c
      /\ s[c].parent \in DOMAIN s
      /\ p \in 0..MaxCtx /\ s[c] \in Context /\ s[p] \in Context
  <2>1. s[c].parent \in DOMAIN s /\ s[c].parent < c
    BY <1>n, <1>s DEF Shaped, IsCancelCtx
  <2>2. p \in DOMAIN s /\ p <= s[c].parent
    BY <2>1, <1>s, UnwrapEnds
  <2>3. c \in Nat /\ p \in Nat /\ s[c].parent \in Nat
    BY <2>1, <2>2, <1>n, <1>s, ContextNumbers
  <2>4. p < c
    BY <2>1, <2>2, <2>3
  <2>5. p \in 0..MaxCtx /\ s[c] \in Context /\ s[p] \in Context
    BY <1>n, <2>2, <1>s, ContextAssumption DEF Shaped
  <2> QED BY <2>1, <2>2, <2>3, <2>4, <2>5, ContextAssumption
<1> DEFINE u == [s EXCEPT ![c].owner = p]
           a == [s[c] EXCEPT !.owner = p]
<1>1. DOMAIN u = DOMAIN s /\ u[c] = a /\ \A x \in DOMAIN s : x # c => u[x] = s[x]
  BY <1>n
<1>2. /\ a \in Context /\ a.owner = p
      /\ a.kind = s[c].kind /\ a.parent = s[c].parent /\ a.deadline = s[c].deadline
      /\ a.watch = s[c].watch /\ a.children = s[c].children /\ a.timer = s[c].timer
      /\ a.err = s[c].err /\ a.cause = s[c].cause
  BY <1>p DEF Context
<1> HIDE DEF u, a
<1>3. \A x \in DOMAIN u : u[x] \in Context
  BY <1>1, <1>2, <1>s DEF Shaped
<1>4. Live(u, c) /\ Reached(u, c) = {c}
  <2>1. Live(u, c)
    BY <1>1, <1>2, <1>n DEF Live
  <2>2. u[c].children = {}
    BY <1>1, <1>2, <1>n
  <2>3. c \in DOMAIN u
    BY <1>1, <1>n
  <2>4. Reached(u, c) \subseteq {} \cup {c}
    BY <2>2, <2>3, ReachedLeast
  <2> QED BY <2>1, <2>3, <2>4, ReachedSteps
<1>5. s[p].err \in NewErrs /\ s[p].cause \in {Null, "why"}
  BY <1>p DEF Context, Live
<1>6. Cancelled(u, c, FALSE, s[p].err, s[p].cause, {c}, t)
  <2>1. t = Cancel(u, c, FALSE, s[p].err, s[p].cause)
    BY DEF u
  <2>2. Null \notin DOMAIN u
    BY <1>1, <1>s, ContextNumbers, ContextAssumption
  <2>3. c \in DOMAIN u /\ FALSE \in BOOLEAN
    BY <1>1, <1>n
  <2>4. Cancelled(u, c, FALSE, s[p].err, s[p].cause, IF Live(u, c) THEN Reached(u, c) ELSE {}, t)
    BY <2>1, <2>2, <2>3, <1>3, <1>5, CancelFields
  <2> QED BY <2>4, <1>4
<1>7. /\ DOMAIN t = DOMAIN s /\ t[c].err = s[p].err /\ t[c].cause = s[p].cause
      /\ t[c].children = {} /\ t[c].timer = Off
  BY <1>6, <1>1, <1>n DEF Cancelled
<1>8. ASSUME NEW x \in DOMAIN s
      PROVE  /\ t[x] \in Context
             /\ t[x].kind = s[x].kind /\ t[x].parent = s[x].parent /\ t[x].deadline = s[x].deadline
             /\ t[x].watch = s[x].watch /\ t[x].owner = IF x = c THEN p ELSE s[x].owner
  <2>1. t[x] \in Context /\ SameContext(u[x], t[x])
    BY <1>6, <1>1 DEF Cancelled
  <2>2. CASE x = c
    BY <2>1, <2>2, <1>1, <1>2 DEF SameContext
  <2>3. CASE x # c
    BY <2>1, <2>3, <1>1 DEF SameContext
  <2> QED BY <2>2, <2>3
<1>17. ASSUME NEW x \in DOMAIN s, x # c
       PROVE  /\ t[x].err = s[x].err /\ t[x].cause = s[x].cause /\ t[x].linked = s[x].linked
              /\ t[x].timer = s[x].timer /\ t[x].children = s[x].children
  <2>1. x \in DOMAIN u \ {c} /\ u[x] = s[x]
    BY <1>17, <1>1
  <2>2. /\ t[x].err = u[x].err /\ t[x].cause = u[x].cause /\ t[x].linked = u[x].linked
        /\ t[x].timer = IF x = c THEN Off ELSE u[x].timer
        /\ t[x].children = IF {c} # {} /\ FALSE /\ u[c].linked /\ x = u[c].owner
                           THEN u[x].children \ {c} ELSE u[x].children
    BY <2>1, <1>6, Zenon DEF Cancelled
  <2>3. t[x].children = u[x].children
    BY <2>2
  <2> QED BY <2>1, <2>2, <2>3, <1>17
<1>9. Restated(s, t)
  BY <1>7, <1>8 DEF Restated
<1>10. Shaped(t) /\ Continues(s, t) /\ SameWalks(s, t)
  BY <1>9, <1>s, RestatedWalks
<1>11. /\ ~Live(t, c) /\ \A x \in DOMAIN s : x # c => (Live(t, x) <=> Live(s, x))
  <2>1. s[p].err # Null
    BY DEF Live
  <2> QED BY <2>1, <1>7, <1>17 DEF Live
<1>12. Timed(t, n)
  <2>1. s[p].err = "DeadlineExceeded" => Due(s, c, n)
    <3>1. Binding(s, p) = Binding(s, s[c].parent)
      BY <1>p, <1>s, UnwrapBinds
    <3>2. Binding(s, s[c].parent) \subseteq Binding(s, c)
      BY <1>n, <1>s, BindingStep DEF IsCancelCtx
    <3>3. s[p].err = "DeadlineExceeded" => Due(s, p, n)
      BY <1>p, <1>s DEF Timed, TimedContext
    <3> QED BY <3>1, <3>2, <3>3 DEF Due
  <2>2. \A x \in DOMAIN s : t[x].timer \in {s[x].timer, Off}
    BY <1>7, <1>17
  <2>3. \A x \in DOMAIN s :
          t[x].err = "DeadlineExceeded" => s[x].err = "DeadlineExceeded" \/ Due(s, x, n)
    BY <1>7, <1>17, <2>1
  <2> QED BY <2>2, <2>3, <1>9, <1>s, RestatedTimed
<1>13. Later(s, t)
  BY <1>8, <1>10, <1>17, <1>n DEF Later
<1>14. Registered(t)
  <2>1. ASSUME NEW x \in DOMAIN s PROVE Placed(s, x, t[x])
    <3>1. CASE x = c
      <4>1. t[c].owner = p /\ t[c].watch = "no" /\ t[c].err # Null
        BY <1>8, <1>11, <1>n DEF Live
      <4> QED BY <4>1, <3>1, <1>n, <1>p DEF Placed
    <3>2. CASE x # c
      <4>1. Placed(s, x, s[x])
        BY <1>s, RegisteredPlaced
      <4>2. /\ t[x].owner = s[x].owner /\ t[x].watch = s[x].watch /\ t[x].linked = s[x].linked
            /\ t[x].err = s[x].err /\ t[x].children = s[x].children
        BY <3>2, <1>8, <1>17
      <4> QED BY <4>1, <4>2 DEF Placed
    <3> QED BY <3>1, <3>2
  <2> QED BY <2>1, <1>9, <1>s, RestatedRegistered
<1>15. Tree(t)
  <2>0. ASSUME NEW q \in DOMAIN s, IsCancelCtx(s, q) PROVE KeepsChildren(t, q)
    <3>1. /\ s[q].children \subseteq DOMAIN s
          /\ \A d \in DOMAIN s : /\ d \in s[q].children <=> s[d].owner = q /\ Live(s, d)
                                 /\ s[d].owner = q /\ ~Live(s, q) => ~Live(s, d)
      BY <2>0, <1>s DEF Tree
    <3>2. q # Null
      BY <1>s, ContextNumbers, ContextAssumption
    <3>3. c \notin s[q].children
      BY <3>1, <3>2, <1>n
    <3>4. t[q].children = s[q].children
      BY <1>7, <1>17, <1>n
    <3>6. ASSUME NEW d \in DOMAIN s
          PROVE  /\ d \in t[q].children <=> t[d].owner = q /\ Live(t, d)
                 /\ t[d].owner = q /\ ~Live(t, q) => ~Live(t, d)
      <4>1. CASE d = c
        BY <4>1, <3>3, <3>4, <1>11
      <4>2. CASE d # c
        <5>1. t[d].owner = s[d].owner /\ (Live(t, d) <=> Live(s, d))
          BY <4>2, <1>8, <1>11
        <5>2. CASE q = c
          <6>1. ~Live(s, d) \/ s[d].owner # q
            BY <5>2, <3>1, <1>n
          <6> QED BY <6>1, <5>1, <3>1, <3>4
        <5>3. CASE q # c
          BY <5>1, <5>3, <3>1, <3>4, <1>11
        <5> QED BY <5>2, <5>3
      <4> QED BY <4>1, <4>2
    <3> QED BY <3>1, <3>4, <3>6, <1>7 DEF KeepsChildren
  <2> QED BY <2>0, <1>9, <1>s, RestatedTree
<1>16. Propagated(s, t, c)
  <2>1. t[c].owner = p /\ t[p].err = s[p].err /\ t[p].cause = s[p].cause /\ ~Live(t, p)
    BY <1>8, <1>11, <1>17, <1>n, <1>p
  <2>2. IsCancelCtx(t, c)
    BY <1>10, <1>n DEF SameWalks
  <2> QED BY <2>1, <2>2, <1>7, <1>17, <1>p DEF Propagated
<1> QED BY <1>7, <1>10, <1>12, <1>13, <1>14, <1>15, <1>16 DEF Sound

\* Only c changes, and neither its place in the tree nor what its parent
\* knows of it.
Touched(s, t, c) ==
  /\ DOMAIN t = DOMAIN s /\ \A x \in DOMAIN s : x # c => t[x] = s[x]
  /\ t[c] \in Context /\ Placed(s, c, t[c])
  /\ t[c].kind = s[c].kind /\ t[c].parent = s[c].parent /\ t[c].deadline = s[c].deadline
  /\ t[c].owner = s[c].owner /\ t[c].children = s[c].children
  /\ \/ t[c].timer \in {s[c].timer, Off}
     \/ s[c].kind = "timer" /\ (t[c].timer = s[c].deadline \/ s[c].deadline > MaxDelay)
  /\ \/ t[c].err = s[c].err /\ t[c].cause = s[c].cause
     \/ ~IsCancelCtx(s, c) /\ Live(s, c) /\ t[c].err = "custom"

LEMMA TouchKeeps ==
  ASSUME NEW s, NEW n, Sound(s, n), NEW c \in DOMAIN s, NEW t, Touched(s, t, c)
  PROVE  Sound(t, n) /\ Later(s, t) /\ Inherits(s, t) /\ DOMAIN t = DOMAIN s
<1>s. Shaped(s) /\ Registered(s) /\ Tree(s) /\ Timed(s, n)
  BY DEF Sound
<1>1. DOMAIN t = DOMAIN s /\ \A x \in DOMAIN s : x # c => t[x] = s[x]
  BY DEF Touched
<1>2. /\ t[c] \in Context /\ Placed(s, c, t[c])
      /\ t[c].kind = s[c].kind /\ t[c].parent = s[c].parent /\ t[c].deadline = s[c].deadline
      /\ t[c].owner = s[c].owner /\ t[c].children = s[c].children
  BY DEF Touched
<1>3. \/ t[c].err = s[c].err /\ t[c].cause = s[c].cause
      \/ ~IsCancelCtx(s, c) /\ Live(s, c) /\ t[c].err = "custom" /\ s[c].owner = Null
  BY <1>s DEF Touched, Registered
<1>4. Restated(s, t)
  BY <1>1, <1>2, <1>s DEF Restated, Shaped
<1>5. Shaped(t) /\ Continues(s, t)
  BY <1>4, <1>s, RestatedWalks
<1>6. Registered(t)
  <2>1. ASSUME NEW x \in DOMAIN s PROVE Placed(s, x, t[x])
    BY <1>1, <1>2, <1>s, RegisteredPlaced
  <2> QED BY <2>1, <1>4, <1>s, RestatedRegistered
<1>7. Timed(t, n)
  <2>1. ASSUME NEW x \in DOMAIN s
        PROVE  \/ t[x].timer \in {s[x].timer, Off}
               \/ s[x].kind = "timer" /\ (t[x].timer = s[x].deadline \/ s[x].deadline > MaxDelay)
    BY <1>1 DEF Touched
  <2>2. ASSUME NEW x \in DOMAIN s, t[x].err = "DeadlineExceeded"
        PROVE  s[x].err = "DeadlineExceeded" \/ Due(s, x, n)
    BY <2>2, <1>1, <1>3
  <2> QED BY <2>1, <2>2, <1>4, <1>s, RestatedTimed
<1>8. Tree(t)
  <2>0. ASSUME NEW q \in DOMAIN s, IsCancelCtx(s, q) PROVE KeepsChildren(t, q)
    <3>1. /\ s[q].children \subseteq DOMAIN s
          /\ \A d \in DOMAIN s : /\ d \in s[q].children <=> s[d].owner = q /\ Live(s, d)
                                 /\ s[d].owner = q /\ ~Live(s, q) => ~Live(s, d)
      BY <2>0, <1>s DEF Tree
    <3>2. t[q].children = s[q].children /\ \A d \in DOMAIN s : t[d].owner = s[d].owner
      BY <1>1, <1>2
    <3>3. q # Null
      BY <1>s, ContextNumbers, ContextAssumption
    <3>4. \A d \in DOMAIN s : s[d].owner = q => (Live(t, d) <=> Live(s, d))
      BY <1>1, <1>3, <3>3 DEF Live
    <3>5. Live(t, q) <=> Live(s, q)
      BY <1>1, <1>3, <2>0 DEF Live
    <3> QED BY <3>1, <3>2, <3>4, <3>5, <1>1 DEF KeepsChildren
  <2> QED BY <2>0, <1>4, <1>s, RestatedTree
<1>9. Later(s, t)
  BY <1>1, <1>2, <1>3, <1>5 DEF Later, Live
<1>10. Inherits(s, t)
  BY <1>1, <1>2, <1>3 DEF Inherits, Live
<1> QED BY <1>1, <1>5, <1>6, <1>7, <1>8, <1>9, <1>10 DEF Sound

\* A parent that is no cancelContext is watched.
LEMMA Watches ==
  ASSUME NEW s, NEW n, Sound(s, n), NEW c, Newborn(s, c),
         ~IsCancelCtx(s, Unwrap(s, s[c].parent)),
         NEW t, t = [s EXCEPT ![c].watch = "waiting"]
  PROVE  Sound(t, n) /\ Later(s, t) /\ DOMAIN t = DOMAIN s /\ Propagated(s, t, c)
<1>n. /\ c \in DOMAIN s /\ IsCancelCtx(s, c) /\ Live(s, c) /\ s[c].owner = Null
      /\ s[c].timer = Off /\ s[c] \in Context
  BY DEF Newborn, Sound, Shaped
<1> DEFINE a == [s[c] EXCEPT !.watch = "waiting"]
<1>1. DOMAIN t = DOMAIN s /\ t[c] = a /\ \A x \in DOMAIN s : x # c => t[x] = s[x]
  BY <1>n
<1>2. /\ a.kind = s[c].kind /\ a.parent = s[c].parent /\ a.deadline = s[c].deadline
      /\ a.owner = s[c].owner /\ a.children = s[c].children /\ a.timer = s[c].timer
      /\ a.err = s[c].err /\ a.cause = s[c].cause
  BY <1>n DEF Context
<1>3. a \in Context
  BY <1>n DEF Context
<1> HIDE DEF a
<1>4. Placed(s, c, a)
  BY <1>2, <1>n DEF Placed
<1>5. Touched(s, t, c)
  BY <1>1, <1>2, <1>3, <1>4 DEF Touched
<1>6. Propagated(s, t, c)
  <2>1. IsCancelCtx(t, c) /\ Live(t, c)
    BY <1>1, <1>2, <1>n DEF IsCancelCtx, Live
  <2> QED BY <2>1, <1>1, <1>2, <1>n DEF Propagated
<1> QED BY <1>5, <1>6, <1>n, TouchKeeps

LEMMA PropagateKeeps ==
  ASSUME NEW s, NEW n, Sound(s, n), NEW c, Newborn(s, c),
         NEW t, t = PropagateCancel(s, c)
  PROVE  Sound(t, n) /\ Later(s, t) /\ DOMAIN t = DOMAIN s /\ Propagated(s, t, c)
<1> DEFINE p == Unwrap(s, s[c].parent)
<1>1. CASE IsCancelCtx(s, p) /\ Live(s, p)
  <2>1. t = JoinedTo(s, c, p)
    BY <1>1 DEF PropagateCancel, JoinedTo
  <2> QED BY <2>1, <1>1, JoinsLive
<1>2. CASE IsCancelCtx(s, p) /\ ~Live(s, p)
  <2>1. t = Cancel([s EXCEPT ![c].owner = p], c, FALSE, s[p].err, s[p].cause)
    BY <1>2 DEF PropagateCancel
  <2> QED BY <2>1, <1>2, JoinsDead
<1>3. CASE ~IsCancelCtx(s, p)
  <2>1. t = [s EXCEPT ![c].watch = "waiting"]
    BY <1>3 DEF PropagateCancel
  <2> QED BY <2>1, <1>3, Watches
<1> QED BY <1>1, <1>2, <1>3

LEMMA LaterTwice ==
  ASSUME NEW s, NEW t, NEW u, Later(s, t), Later(t, u)
  PROVE  Later(s, u)
BY DEF Later, Continues, Live

\* propagateCancel() ended at most c, as its parent; then cancel() may have
\* ended it.
LEMMA InheritsAfter ==
  ASSUME NEW s, NEW t, NEW u, NEW c, c \notin DOMAIN s, DOMAIN t = DOMAIN s \cup {c},
         NEW r, DOMAIN r = DOMAIN t, \A x \in DOMAIN s : r[x] = s[x],
         Propagated(r, t, c), Registered(t), DOMAIN u = DOMAIN t,
         Later(t, u), Inherits(t, u) \/ u = t
  PROVE  Inherits(s, u)
<1> SUFFICES ASSUME NEW x \in DOMAIN u, u[x].err # Null, x \in DOMAIN s => Live(s, x),
                    u[x].owner # Null
             PROVE  \/ u[u[x].owner].err = Null
                    \/ u[x].err = u[u[x].owner].err /\ u[x].cause = u[u[x].owner].cause
  BY DEF Inherits
<1>1. CASE ~Live(t, x)
  <2>1. x = c
    BY <1>1 DEF Propagated, Live
  <2>2. /\ t[c].owner # Null /\ ~Live(t, t[c].owner)
        /\ t[c].err = t[t[c].owner].err /\ t[c].cause = t[t[c].owner].cause
    BY <1>1, <2>1 DEF Propagated
  <2>3. t[c].owner \in DOMAIN t /\ c \in DOMAIN t
    BY <2>2 DEF Registered
  <2> QED BY <2>1, <2>2, <2>3, <1>1 DEF Later
<1>2. CASE Live(t, x)
  <2>1. u # t
    BY <1>2 DEF Live
  <2> QED BY <2>1, <1>2 DEF Inherits
<1> QED BY <1>1, <1>2

-----------------------------------------------------------------------------
(* The actions.                                                            *)

NowOK == now \in 0..MaxTime

\* A sound step of the contexts.
GoodStep == /\ Sound(ctx', now) /\ Later(ctx, ctx') /\ Inherits(ctx, ctx')

LEMMA FreshIs ==
  ASSUME Sound(ctx, now)
  PROVE  Fresh \in Nat /\ Fresh > 0 /\ DOMAIN ctx = 0..(Fresh - 1) /\ Fresh \notin DOMAIN ctx
<1>1. PICK n \in 0..MaxCtx : DOMAIN ctx = 0..n
  BY DEF Sound, Shaped
<1>2. n \in Nat
  BY ContextAssumption
<1>3. Cardinality(0..n) = n + 1
  BY <1>2, FS_Interval
<1>4. Fresh = n + 1
  BY <1>1, <1>3 DEF Fresh
<1> QED BY <1>1, <1>2, <1>4

LEMMA NewContextFields ==
  ASSUME NEW kind \in {"value", "cancel", "timer", "detached", "custom"}, NEW p \in 0..MaxCtx
  PROVE  /\ NewContext(kind, p) \in Context
         /\ NewContext(kind, p).kind = kind /\ NewContext(kind, p).parent = p
         /\ NewContext(kind, p).children = {} /\ NewContext(kind, p).err = Null
         /\ NewContext(kind, p).owner = Null /\ NewContext(kind, p).watch = "no"
         /\ NewContext(kind, p).timer = Off
BY DEF NewContext, Context, Off

\* A context that is not a timer, before it is registered.
LEMMA WithPlain ==
  ASSUME Sound(ctx, now), CanCreate(0) \/ Fresh <= MaxCtx,
         NEW p \in DOMAIN ctx, NEW kind \in {"value", "cancel", "detached", "custom"},
         NEW s, s = With(NewContext(kind, p))
  PROVE  /\ Sound(s, now) /\ Later(ctx, s) /\ DOMAIN s = DOMAIN ctx \cup {Fresh}
         /\ s[Fresh] = NewContext(kind, p) /\ \A x \in DOMAIN ctx : s[x] = ctx[x]
<1>1. Fresh \in 1..MaxCtx /\ DOMAIN ctx = 0..(Fresh - 1)
  BY FreshIs, ContextAssumption DEF CanCreate
<1>2. p \in 0..MaxCtx
  BY <1>1, ContextAssumption
<1> DEFINE new == NewContext(kind, p)
<1>3. /\ new \in Context /\ new.kind = kind /\ new.parent = p /\ new.children = {}
      /\ new.err = Null /\ new.owner = Null /\ new.watch = "no" /\ new.timer = Off
  BY <1>2, NewContextFields
<1>4. s = [c \in 0..Fresh |-> IF c = Fresh THEN new ELSE ctx[c]]
  BY DEF With
<1>5. DOMAIN s = DOMAIN ctx \cup {Fresh}
  BY <1>1, <1>4
<1> HIDE DEF new
<1>6. kind # "timer" /\ kind # "background"
  OBVIOUS
<1>7. /\ Sound(s, now) /\ Later(ctx, s) /\ DOMAIN s = 0..Fresh /\ s[Fresh] = new
      /\ \A x \in DOMAIN ctx : s[x] = ctx[x]
  BY <1>1, <1>3, <1>4, <1>6, AddKeeps
<1> QED BY <1>5, <1>7 DEF new

LEMMA PlainContexts ==
  ASSUME Sound(ctx, now), NEW p \in DOMAIN ctx, WithValue(p) \/ WithoutCancel(p) \/ NewCustom
  PROVE  GoodStep
<1>1. 0 \in DOMAIN ctx /\ Fresh <= MaxCtx
  BY FreshIs, ContextAssumption DEF WithValue, WithoutCancel, NewCustom, CanWrap
<1>2. PICK kind \in {"value", "cancel", "detached", "custom"}, q \in DOMAIN ctx :
        ctx' = With(NewContext(kind, q))
  BY <1>1 DEF WithValue, WithoutCancel, NewCustom
<1>3. /\ Sound(ctx', now) /\ Later(ctx, ctx') /\ DOMAIN ctx' = DOMAIN ctx \cup {Fresh}
      /\ ctx'[Fresh] = NewContext(kind, q) /\ \A x \in DOMAIN ctx : ctx'[x] = ctx[x]
  BY <1>1, <1>2, WithPlain
<1>4. NewContext(kind, q).err = Null
  BY DEF NewContext
<1>5. Inherits(ctx, ctx')
  BY <1>3, <1>4 DEF Inherits, Live
<1> QED BY <1>3, <1>5 DEF GoodStep

LEMMA WithCancelStep ==
  ASSUME Sound(ctx, now), NEW p \in DOMAIN ctx, WithCancel(p)
  PROVE  GoodStep
<1> DEFINE s == With(NewContext("cancel", p))
<1>1. Fresh <= MaxCtx /\ ctx' = PropagateCancel(s, Fresh)
  BY DEF WithCancel, CanCreate
<1>2. /\ Sound(s, now) /\ Later(ctx, s) /\ DOMAIN s = DOMAIN ctx \cup {Fresh}
      /\ s[Fresh] = NewContext("cancel", p) /\ \A x \in DOMAIN ctx : s[x] = ctx[x]
  BY <1>1, WithPlain
<1> HIDE DEF s
<1>3. Newborn(s, Fresh)
  BY <1>2 DEF Newborn, NewContext, IsCancelCtx, Live, Off
<1>4. Sound(ctx', now) /\ Later(s, ctx') /\ DOMAIN ctx' = DOMAIN s /\ Propagated(s, ctx', Fresh)
  BY <1>1, <1>2, <1>3, PropagateKeeps
<1>5. Later(ctx, ctx')
  BY <1>2, <1>4, LaterTwice
<1>6. Inherits(ctx, ctx')
  <2>1. Fresh \notin DOMAIN ctx
    BY FreshIs
  <2>2. Later(ctx', ctx')
    BY DEF Later, Continues
  <2>3. Registered(ctx')
    BY <1>4 DEF Sound
  <2>4. DOMAIN ctx' = DOMAIN ctx \cup {Fresh} /\ DOMAIN s = DOMAIN ctx'
    BY <1>2, <1>4
  <2>5. \A x \in DOMAIN ctx : s[x] = ctx[x]
    BY <1>2
  <2>6. ASSUME NEW t, t = ctx' PROVE Inherits(ctx, t)
    BY <2>1, <2>2, <2>3, <2>4, <2>5, <2>6, <1>4, InheritsAfter
  <2> QED BY <2>6
<1> QED BY <1>4, <1>5, <1>6 DEF GoodStep

LEMMA StartTimerKeeps ==
  ASSUME NowOK, NEW s, Sound(s, now), NEW c \in DOMAIN s, s[c].kind = "timer",
         NEW t, t = StartTimer(s, c)
  PROVE  Sound(t, now) /\ Later(s, t) /\ Inherits(s, t) /\ DOMAIN t = DOMAIN s
<1>n. /\ now \in Nat /\ MaxTime \in Nat /\ MaxDelay \in Nat /\ now <= MaxTime
  BY ContextAssumption DEF NowOK
<1>c. /\ IsCancelCtx(s, c) /\ s[c] \in Context /\ s[c].deadline \in Deadlines
      /\ s[c].deadline \in Nat
  BY ContextAssumption DEF IsCancelCtx, Sound, Shaped, Timed, TimedContext
<1>1. CASE s[c].deadline <= now
  <2>1. t = Cancel(s, c, TRUE, "DeadlineExceeded", Null)
    BY <1>1 DEF StartTimer
  <2>2. Due(s, c, now)
    <3>1. s[c].deadline \in Binding(s, c)
      BY BindingStep DEF Sound
    <3> QED BY <3>1, <1>1 DEF Due
  <2>3. "DeadlineExceeded" \in NewErrs
    BY DEF NewErrs
  <2>4. ASSUME NEW remove, remove \in BOOLEAN, remove = TRUE
        PROVE  Sound(t, now) /\ Later(s, t) /\ Inherits(s, t) /\ DOMAIN t = DOMAIN s
    <3>1. t = Cancel(s, c, remove, "DeadlineExceeded", Null)
      BY <2>1, <2>4
    <3>2. Cancels(s, now, c, remove, "DeadlineExceeded", Null, t)
      BY <3>1, <2>2, <2>3, <2>4, <1>n, <1>c DEF Cancels
    <3> QED BY <3>2, CancelKeeps
  <2> QED BY <2>4
<1>2. CASE ~(s[c].deadline <= now)
  <2> DEFINE m == now + HostDelay(s[c].deadline - now)
             a == [s[c] EXCEPT !.timer = m]
  <2>1. t = [s EXCEPT ![c].timer = m]
    BY <1>2 DEF StartTimer
  <2>2. m \in Times /\ (m = s[c].deadline \/ s[c].deadline > MaxDelay)
    <3>1. CASE s[c].deadline - now > MaxDelay
      <4>1. m = now
        BY <3>1, <1>n DEF HostDelay
      <4>2. m \in 0..(MaxTime + MaxDelay)
        BY <4>1, <1>n
      <4> QED BY <4>2, <3>1, <1>n, <1>c DEF Times
    <3>2. CASE ~(s[c].deadline - now > MaxDelay)
      <4>1. m = s[c].deadline
        BY <3>2, <1>n, <1>c DEF HostDelay
      <4> QED BY <4>1, <1>c DEF Times
    <3> QED BY <3>1, <3>2
  <2> HIDE DEF m
  <2>3. DOMAIN t = DOMAIN s /\ t[c] = a /\ \A x \in DOMAIN s : x # c => t[x] = s[x]
    BY <2>1
  <2>4. /\ a.kind = s[c].kind /\ a.parent = s[c].parent /\ a.deadline = s[c].deadline
        /\ a.owner = s[c].owner /\ a.children = s[c].children /\ a.timer = m
        /\ a.err = s[c].err /\ a.cause = s[c].cause /\ a.watch = s[c].watch
    BY <1>c DEF Context
  <2>5. a.linked = s[c].linked
    BY <1>c DEF Context
  <2>6. a \in Context
    BY <1>c, <2>2 DEF Context
  <2> HIDE DEF a
  <2>7. Placed(s, c, a)
    <3>1. Placed(s, c, s[c])
      BY RegisteredPlaced DEF Sound
    <3> QED BY <3>1, <2>4, <2>5 DEF Placed
  <2>8. Touched(s, t, c)
    BY <2>2, <2>3, <2>4, <2>6, <2>7 DEF Touched
  <2> QED BY <2>8, TouchKeeps
<1> QED BY <1>1, <1>2

LEMMA WithDeadlineStep ==
  ASSUME NowOK, Sound(ctx, now), NEW p \in DOMAIN ctx, NEW d \in Deadlines, WithDeadline(p, d)
  PROVE  GoodStep
<1> DEFINE new == [NewContext("timer", p) EXCEPT !.deadline = d]
           s == With(new)
           t == PropagateCancel(s, Fresh)
<1>1. Fresh \in 1..MaxCtx /\ DOMAIN ctx = 0..(Fresh - 1) /\ Fresh \notin DOMAIN ctx
  BY FreshIs, ContextAssumption DEF WithDeadline, CanCreate
<1>2. p \in 0..MaxCtx
  BY <1>1, ContextAssumption
<1>3. /\ new \in Context /\ new.kind = "timer" /\ new.parent = p /\ new.children = {}
      /\ new.err = Null /\ new.owner = Null /\ new.watch = "no" /\ new.timer = Off
      /\ new.deadline = d
  <2>1. d \in Times
    BY DEF Times
  <2> QED BY <2>1, <1>2 DEF NewContext, Context, Off
<1>4. Deadline(ctx, p) # Null => d < Deadline(ctx, p)
  BY DEF WithDeadline
<1>5. ctx' = StartTimer(t, Fresh)
  BY DEF WithDeadline
<1> HIDE DEF new
<1>6. s = [c \in 0..Fresh |-> IF c = Fresh THEN new ELSE ctx[c]]
  BY DEF With
<1>7. DOMAIN s = DOMAIN ctx \cup {Fresh}
  BY <1>1, <1>6
<1> HIDE DEF s
<1>8. /\ Sound(s, now) /\ Later(ctx, s) /\ s[Fresh] = new
      /\ \A x \in DOMAIN ctx : s[x] = ctx[x]
  BY <1>1, <1>3, <1>4, <1>6, AddKeeps
<1>9. Newborn(s, Fresh)
  BY <1>3, <1>7, <1>8 DEF Newborn, IsCancelCtx, Live
<1>10. Sound(t, now) /\ Later(s, t) /\ DOMAIN t = DOMAIN s /\ Propagated(s, t, Fresh)
  BY <1>8, <1>9, PropagateKeeps
<1> HIDE DEF t
<1>11. t[Fresh].kind = "timer" /\ Fresh \in DOMAIN t
  BY <1>3, <1>7, <1>8, <1>10 DEF Later, Continues
<1>12. /\ Sound(ctx', now) /\ Later(t, ctx') /\ Inherits(t, ctx') /\ DOMAIN ctx' = DOMAIN t
  BY <1>5, <1>10, <1>11, StartTimerKeeps
<1>13. Later(ctx, ctx')
  <2>1. Later(ctx, t)
    BY <1>8, <1>10, LaterTwice
  <2> QED BY <2>1, <1>12, LaterTwice
<1>14. Inherits(ctx, ctx')
  <2>1. Registered(t)
    BY <1>10 DEF Sound
  <2>2. DOMAIN t = DOMAIN ctx \cup {Fresh} /\ DOMAIN s = DOMAIN t
    BY <1>7, <1>10
  <2>3. ASSUME NEW u, u = ctx' PROVE Inherits(ctx, u)
    BY <2>1, <2>2, <2>3, <1>1, <1>8, <1>10, <1>12, InheritsAfter
  <2> QED BY <2>3
<1> QED BY <1>12, <1>13, <1>14 DEF GoodStep

LEMMA CustomDoneStep ==
  ASSUME Sound(ctx, now), NEW c \in DOMAIN ctx, CustomDone(c)
  PROVE  GoodStep
<1> DEFINE a == [ctx[c] EXCEPT !.err = "custom"]
<1>1. ctx[c] \in Context /\ ctx[c].kind = "custom" /\ Live(ctx, c)
  BY DEF CustomDone, Sound, Shaped
<1>2. DOMAIN ctx' = DOMAIN ctx /\ ctx'[c] = a /\ \A x \in DOMAIN ctx : x # c => ctx'[x] = ctx[x]
  BY DEF CustomDone
<1>3. /\ a.kind = ctx[c].kind /\ a.parent = ctx[c].parent /\ a.deadline = ctx[c].deadline
      /\ a.owner = ctx[c].owner /\ a.children = ctx[c].children /\ a.timer = ctx[c].timer
      /\ a.watch = ctx[c].watch /\ a.err = "custom"
  BY <1>1 DEF Context
<1>4. a \in Context
  BY <1>1 DEF Context, NewErrs
<1> HIDE DEF a
<1>5. ~IsCancelCtx(ctx, c)
  BY <1>1 DEF IsCancelCtx
<1>6. Placed(ctx, c, a)
  <2>1. Placed(ctx, c, ctx[c])
    BY RegisteredPlaced DEF Sound
  <2>2. ctx[c].owner = Null
    BY <2>1, <1>5 DEF Placed
  <2> QED BY <2>1, <2>2, <1>3, <1>5 DEF Placed
<1>7. Touched(ctx, ctx', c)
  BY <1>1, <1>2, <1>3, <1>4, <1>5, <1>6 DEF Touched
<1>8. ASSUME NEW t, t = ctx' PROVE Sound(t, now) /\ Later(ctx, t) /\ Inherits(ctx, t)
  BY <1>7, <1>8, TouchKeeps
<1> QED BY <1>8 DEF GoodStep

\* The end of a context that leaves its parent's children: by its function or
\* by its timer.
LEMMA EndStep ==
  ASSUME NowOK, Sound(ctx, now), NEW c \in DOMAIN ctx, IsCancelCtx(ctx, c),
         NEW e \in NewErrs, e = "DeadlineExceeded" => Due(ctx, c, now),
         NEW cause \in {Null, "why"}, ctx' = Cancel(ctx, c, TRUE, e, cause)
  PROVE  GoodStep
<1>1. now \in Nat
  BY ContextAssumption DEF NowOK
<1>2. ASSUME NEW t, t = ctx', NEW remove, remove \in BOOLEAN, remove = TRUE
      PROVE  Sound(t, now) /\ Later(ctx, t) /\ Inherits(ctx, t)
  <2>1. t = Cancel(ctx, c, remove, e, cause)
    BY <1>2
  <2>2. Cancels(ctx, now, c, remove, e, cause, t)
    BY <2>1, <1>1, <1>2 DEF Cancels
  <2> QED BY <2>2, CancelKeeps
<1>3. Sound(ctx', now) /\ Later(ctx, ctx') /\ Inherits(ctx, ctx')
  BY <1>2
<1> QED BY <1>3 DEF GoodStep

LEMMA CallCancelStep ==
  ASSUME NowOK, Sound(ctx, now), NEW c \in DOMAIN ctx, NEW cause \in {Null, "why"},
         CallCancel(c, cause)
  PROVE  GoodStep
<1>1. PICK e \in NewErrs : e = "Canceled"
  BY DEF NewErrs
<1>2. IsCancelCtx(ctx, c) /\ ctx' = Cancel(ctx, c, TRUE, e, cause)
  BY <1>1 DEF CallCancel
<1> QED BY <1>1, <1>2, EndStep

LEMMA TimerFiresStep ==
  ASSUME NowOK, Sound(ctx, now), NEW c \in DOMAIN ctx, TimerFires(c)
  PROVE  GoodStep
<1>1. PICK e \in NewErrs, cause \in {Null, "why"} : e = "DeadlineExceeded" /\ cause = Null
  BY DEF NewErrs
<1>2. /\ ctx[c].timer # Off /\ ctx[c].timer <= now /\ ctx' = Cancel(ctx, c, TRUE, e, cause)
  BY <1>1 DEF TimerFires
<1>3. /\ ctx[c].kind = "timer"
      /\ ctx[c].timer = ctx[c].deadline \/ ctx[c].deadline > MaxDelay
  BY <1>2 DEF Sound, Timed, TimedContext
<1>4. ctx[c].deadline \in Binding(ctx, c)
  BY <1>3, BindingStep DEF Sound
<1>5. Due(ctx, c, now)
  BY <1>2, <1>3, <1>4 DEF Due
<1>6. IsCancelCtx(ctx, c)
  BY <1>3 DEF IsCancelCtx
<1> QED BY <1>1, <1>2, <1>5, <1>6, EndStep

\* The error a watcher takes over is the custom context's.
LEMMA WatcherWakesStep ==
  ASSUME NowOK, Sound(ctx, now), NEW c \in DOMAIN ctx, WatcherWakes(c)
  PROVE  GoodStep
<1> DEFINE s == [ctx EXCEPT ![c].watch = "over"]
           a == [ctx[c] EXCEPT !.watch = "over"]
<1>n. now \in Nat /\ ctx[c] \in Context /\ Shaped(ctx) /\ Registered(ctx)
  BY ContextAssumption DEF NowOK, Sound, Shaped
<1>0. /\ ctx[c].watch = "waiting" /\ DoneClosed(ctx, ctx[c].parent)
      /\ ctx' = IF Live(s, c) THEN Cancel(s, c, FALSE, Err(s, s[c].parent), Null) ELSE s
  BY DEF WatcherWakes
<1>1. DOMAIN s = DOMAIN ctx /\ s[c] = a /\ \A x \in DOMAIN ctx : x # c => s[x] = ctx[x]
  OBVIOUS
<1> HIDE DEF s
<1>2. /\ a.kind = ctx[c].kind /\ a.parent = ctx[c].parent /\ a.deadline = ctx[c].deadline
      /\ a.owner = ctx[c].owner /\ a.children = ctx[c].children /\ a.timer = ctx[c].timer
      /\ a.err = ctx[c].err /\ a.cause = ctx[c].cause
  BY <1>n DEF Context
<1>3. a \in Context
  BY <1>n DEF Context
<1> HIDE DEF a
<1>4. IsCancelCtx(ctx, c) /\ ~IsCancelCtx(ctx, Unwrap(ctx, ctx[c].parent)) /\ ctx[c].owner = Null
  BY <1>0, <1>n DEF Registered
<1>5. Placed(ctx, c, a)
  BY <1>2, <1>4, ContextAssumption DEF Placed
<1>6. Touched(ctx, s, c)
  BY <1>1, <1>2, <1>3, <1>5 DEF Touched
<1>7. Sound(s, now) /\ Later(ctx, s) /\ Inherits(ctx, s)
  BY <1>6, TouchKeeps
<1>8. \A x \in DOMAIN ctx : s[x].err = ctx[x].err
  BY <1>1, <1>2
<1>9. CASE ~Live(s, c)
  BY <1>9, <1>0, <1>7 DEF GoodStep
<1>10. CASE Live(s, c)
  <2> DEFINE p == Unwrap(ctx, ctx[c].parent)
             e == Err(s, s[c].parent)
  <2>1. ctx[c].parent \in DOMAIN ctx
    BY <1>n DEF Shaped
  <2>2. p \in DOMAIN ctx
    BY <2>1, <1>n, UnwrapEnds
  <2>3. Unwrap(s, ctx[c].parent) = p
    <3>1. Shaped(s) /\ Continues(ctx, s)
      BY <1>7 DEF Sound, Later
    <3> QED BY <3>1, <2>1, <1>n, WalksStay
  <2>4. e = ctx[p].err
    BY <2>2, <2>3, <1>1, <1>2, <1>8 DEF Err
  <2>5. ctx[p].err # Null
    BY <1>0 DEF DoneClosed, Err
  <2>6. ctx[p].err \in {Null, "custom"}
    BY <1>4, <1>n, <2>2 DEF Registered
  <2>7. e = "custom"
    BY <2>4, <2>5, <2>6
  <2> HIDE DEF p, e
  <2>8. ctx' = Cancel(s, c, FALSE, e, Null)
    BY <1>0, <1>10 DEF e
  <2>9. s[c].owner = Null /\ IsCancelCtx(s, c) /\ c \in DOMAIN s
    BY <1>1, <1>2, <1>4 DEF IsCancelCtx
  <2>10. ASSUME NEW t, t = ctx', NEW remove, remove \in BOOLEAN, remove = FALSE
         PROVE  Sound(t, now) /\ Later(s, t) /\ Inherits(s, t)
    <3>1. t = Cancel(s, c, remove, e, Null)
      BY <2>8, <2>10
    <3>2. Cancels(s, now, c, remove, e, Null, t)
      BY <3>1, <2>7, <2>9, <2>10, <1>n DEF Cancels, NewErrs
    <3> QED BY <3>2, <1>7, CancelKeeps
  <2>11. Sound(ctx', now) /\ Later(s, ctx') /\ Inherits(s, ctx')
    BY <2>10
  <2>12. Inherits(ctx, ctx')
    BY <2>11, <1>1, <1>8 DEF Inherits, Live
  <2>13. Later(ctx, ctx')
    BY <2>11, <1>7, LaterTwice
  <2> QED BY <2>11, <2>12, <2>13 DEF GoodStep
<1> QED BY <1>9, <1>10

\* The registrations of AfterFunc.
AfterOK ==
  /\ after \in [Handles -> [st : AfterState, on : 0..MaxCtx, told : BOOLEAN]]
  /\ \A a \in Handles :
       /\ after[a].st # "unused" => after[a].on \in DOMAIN ctx
       /\ after[a].told => after[a].st = "stopped"
       /\ after[a].st \in {"queued", "ran"} => DoneClosed(ctx, after[a].on)

ContextInv == NowOK /\ Sound(ctx, now) /\ AfterOK

LEMMA ContextStarts == Init => ContextInv
<1> SUFFICES ASSUME Init PROVE ContextInv
  OBVIOUS
<1>1. /\ ctx = [c \in {0} |-> NewContext("background", 0)] /\ now = 0
      /\ MaxCtx \in Nat /\ MaxTime \in Nat /\ MaxDelay \in Nat
  BY ContextAssumption DEF Init
<1>2. DOMAIN ctx = {0} /\ ctx[0] = NewContext("background", 0)
  BY <1>1
<1>3. /\ ctx[0].kind = "background" /\ ctx[0].parent = 0 /\ ctx[0].err = Null
      /\ ctx[0].children = {} /\ ctx[0].owner = Null /\ ctx[0].watch = "no"
      /\ ctx[0].timer = Off
  BY <1>2 DEF NewContext
<1>4. ctx[0] \in Context
  BY <1>1, <1>2 DEF NewContext, Context, Off
<1>5. Shaped(ctx)
  <2>1. 0 \in 0..MaxCtx /\ DOMAIN ctx = 0..0
    BY <1>1, <1>2
  <2> QED BY <2>1, <1>2, <1>3, <1>4 DEF Shaped
<1>6. ~IsCancelCtx(ctx, 0)
  BY <1>3 DEF IsCancelCtx
<1>7. Registered(ctx)
  BY <1>2, <1>3, <1>6 DEF Registered
<1>8. Tree(ctx)
  BY <1>2, <1>6 DEF Tree
<1>9. Timed(ctx, now)
  <2>1. Binding(ctx, 0) = {}
    BY <1>2, <1>3, <1>5, BindingStep
  <2>2. Deadline(ctx, 0) = Null
    BY <1>2, <1>3, <1>5, DeadlineStep
  <2>3. ctx[0].err # "DeadlineExceeded"
    BY <1>3, ContextAssumption
  <2> QED BY <1>2, <1>3, <2>1, <2>2, <2>3 DEF Timed, TimedContext, Earliest
<1>10. AfterOK
  <2>1. after = [a \in Handles |-> [st |-> "unused", on |-> 0, told |-> FALSE]]
    BY DEF Init
  <2> QED BY <2>1, <1>1 DEF AfterOK, AfterState
<1>11. NowOK
  BY <1>1 DEF NowOK
<1> QED BY <1>5, <1>7, <1>8, <1>9, <1>10, <1>11 DEF ContextInv, Sound

\* What is over stays over, so a registration keeps what it knows.
LEMMA AfterStays ==
  ASSUME ContextInv, GoodStep, UNCHANGED <<now, after>>
  PROVE  ContextInv'
<1>1. /\ Sound(ctx, now) /\ Sound(ctx', now) /\ Later(ctx, ctx')
      /\ Shaped(ctx) /\ Shaped(ctx') /\ now' = now /\ after' = after
  BY DEF ContextInv, GoodStep, Sound
<1>2. ASSUME NEW t, t = ctx', NEW x \in DOMAIN ctx
      PROVE  x \in DOMAIN t /\ (DoneClosed(ctx, x) => DoneClosed(t, x))
  <2>1. Unwrap(t, x) = Unwrap(ctx, x) /\ Unwrap(ctx, x) \in DOMAIN ctx /\ x \in DOMAIN t
    BY <1>1, <1>2, WalksStay, UnwrapEnds DEF Later, Continues
  <2> QED BY <2>1, <1>1, <1>2 DEF DoneClosed, Err, Later, Live
<1>3. \A x \in DOMAIN ctx : x \in DOMAIN ctx' /\ (DoneClosed(ctx, x) => DoneClosed(ctx', x))
  BY <1>2
<1>4. AfterOK'
  BY <1>1, <1>3 DEF ContextInv, AfterOK
<1> QED BY <1>1, <1>4 DEF ContextInv, NowOK

LEMMA TickStep ==
  ASSUME ContextInv, Tick
  PROVE  ContextInv' /\ Inherits(ctx, ctx')
<1>1. /\ now \in Nat /\ now' = now + 1 /\ now' \in 0..MaxTime /\ ctx' = ctx /\ after' = after
      /\ MaxDelay \in Nat /\ Sound(ctx, now)
  BY ContextAssumption DEF ContextInv, NowOK, Tick
<1>2. Timed(ctx, now')
  <2>1. ASSUME NEW c \in DOMAIN ctx, Due(ctx, c, now) PROVE Due(ctx, c, now')
    <3>1. PICK d \in Binding(ctx, c) : d <= now \/ d > MaxDelay
      BY <2>1 DEF Due
    <3>2. d \in Nat
      <4>1. Binding(ctx, c) \subseteq Deadlines
        BY <1>1, BindingTyped DEF Sound, Timed, TimedContext
      <4> QED BY <4>1, ContextAssumption
    <3>3. d <= now' \/ d > MaxDelay
      BY <3>1, <3>2, <1>1
    <3> QED BY <3>3 DEF Due
  <2>2. Timed(ctx, now)
    BY <1>1 DEF Sound
  <2> QED BY <2>1, <2>2 DEF Timed, TimedContext
<1>3. Sound(ctx', now')
  BY <1>1, <1>2 DEF Sound
<1>4. Inherits(ctx, ctx')
  BY <1>1 DEF Inherits, Live
<1> QED BY <1>1, <1>3, <1>4 DEF ContextInv, NowOK, AfterOK

LEMMA AfterSteps ==
  ASSUME ContextInv, NEW a \in Handles,
         AfterWakes(a) \/ AfterRuns(a) \/ Stop(a) \/ \E c \in DOMAIN ctx : AfterFunc(a, c)
  PROVE  ContextInv' /\ Inherits(ctx, ctx')
<1>1. ctx' = ctx /\ now' = now /\ AfterOK
  BY DEF ContextInv, AfterWakes, AfterRuns, Stop, AfterFunc
<1>2. after[a] \in [st : AfterState, on : 0..MaxCtx, told : BOOLEAN]
  BY <1>1 DEF AfterOK
<1>3. AfterOK'
  <2>1. CASE AfterWakes(a)
    BY <2>1, <1>1, <1>2 DEF AfterWakes, AfterOK, AfterState
  <2>2. CASE AfterRuns(a)
    BY <2>2, <1>1, <1>2 DEF AfterRuns, AfterOK, AfterState
  <2>3. CASE Stop(a)
    BY <2>3, <1>1, <1>2 DEF Stop, AfterOK, AfterState
  <2>4. ASSUME NEW c \in DOMAIN ctx, AfterFunc(a, c) PROVE AfterOK'
    <3>1. c \in 0..MaxCtx
      BY <2>4, ContextAssumption DEF AfterFunc
    <3> QED BY <3>1, <2>4, <1>1, <1>2 DEF AfterFunc, AfterOK, AfterState
  <2> QED BY <2>1, <2>2, <2>3, <2>4
<1>4. Inherits(ctx, ctx')
  BY <1>1 DEF Inherits, Live
<1>5. NowOK' /\ Sound(ctx, now)'
  BY <1>1 DEF ContextInv, NowOK
<1> QED BY <1>3, <1>4, <1>5 DEF ContextInv

LEMMA ContextSteps ==
  ASSUME ContextInv, [Next]_vars
  PROVE  ContextInv' /\ Inherits(ctx, ctx')
<1>i. NowOK /\ Sound(ctx, now)
  BY DEF ContextInv
<1>g. ASSUME GoodStep, UNCHANGED <<now, after>> PROVE ContextInv' /\ Inherits(ctx, ctx')
  BY <1>g, AfterStays DEF GoodStep
<1>1. ASSUME NEW p \in DOMAIN ctx, Create(p) PROVE ContextInv' /\ Inherits(ctx, ctx')
  <2>1. UNCHANGED <<now, after>>
    BY <1>1 DEF Create, WithCancel, WithValue, WithoutCancel, WithDeadline, WithLaterDeadline
  <2>2. CASE WithCancel(p)
    BY <2>1, <2>2, <1>i, <1>g, WithCancelStep
  <2>3. CASE WithValue(p) \/ WithoutCancel(p)
    BY <2>1, <2>3, <1>i, <1>g, PlainContexts
  <2>4. ASSUME NEW d \in Deadlines, WithDeadline(p, d) PROVE GoodStep
    BY <2>4, <1>i, WithDeadlineStep
  <2>5. ASSUME NEW d \in Deadlines, WithLaterDeadline(p, d) PROVE GoodStep
    BY <2>5, <1>i, WithCancelStep DEF WithLaterDeadline
  <2> QED BY <1>1, <2>1, <2>2, <2>3, <2>4, <2>5, <1>g DEF Create
<1>2. CASE NewCustom
  <2>1. 0 \in DOMAIN ctx /\ UNCHANGED <<now, after>>
    BY <1>2 DEF NewCustom, CanWrap
  <2> QED BY <2>1, <1>2, <1>i, <1>g, PlainContexts
<1>3. ASSUME NEW c \in DOMAIN ctx,
             \/ CustomDone(c) \/ TimerFires(c) \/ WatcherWakes(c)
             \/ \E cause \in {Null, "why"} : CallCancel(c, cause)
      PROVE  ContextInv' /\ Inherits(ctx, ctx')
  <2>1. UNCHANGED <<now, after>>
    BY <1>3 DEF CustomDone, TimerFires, WatcherWakes, CallCancel
  <2>2. CASE CustomDone(c)
    BY <2>1, <2>2, <1>i, <1>g, CustomDoneStep
  <2>3. CASE TimerFires(c)
    BY <2>1, <2>3, <1>i, <1>g, TimerFiresStep
  <2>4. CASE WatcherWakes(c)
    BY <2>1, <2>4, <1>i, <1>g, WatcherWakesStep
  <2>5. ASSUME NEW cause \in {Null, "why"}, CallCancel(c, cause) PROVE GoodStep
    BY <2>5, <1>i, CallCancelStep
  <2> QED BY <1>3, <2>1, <2>2, <2>3, <2>4, <2>5, <1>g
<1>4. ASSUME NEW a \in Handles,
             AfterWakes(a) \/ AfterRuns(a) \/ Stop(a) \/ \E c \in DOMAIN ctx : AfterFunc(a, c)
      PROVE  ContextInv' /\ Inherits(ctx, ctx')
  BY <1>4, AfterSteps
<1>5. CASE Tick
  BY <1>5, TickStep
<1>6. CASE UNCHANGED vars
  <2>1. ctx' = ctx /\ now' = now /\ after' = after
    BY <1>6 DEF vars
  <2> QED BY <2>1 DEF ContextInv, NowOK, AfterOK, Inherits, Live
<1> QED BY <1>1, <1>2, <1>3, <1>4, <1>5, <1>6 DEF Next

LEMMA ContextInvariant == Spec => []ContextInv
BY ContextStarts, ContextSteps, PTL DEF Spec

-----------------------------------------------------------------------------
(* The theorems about contexts.                                            *)

LEMMA SoundTree == ContextInv => TreeConsistent
<1> SUFFICES ASSUME ContextInv PROVE TreeConsistent
  OBVIOUS
<1>1. Shaped(ctx) /\ Registered(ctx) /\ Tree(ctx)
  BY DEF ContextInv, Sound
<1>2. ContextTypeOK
  BY <1>1 DEF ContextInv, NowOK, AfterOK, Shaped, ContextTypeOK
<1>3. ASSUME NEW p \in DOMAIN ctx, IsCancelCtx(ctx, p)
      PROVE  /\ ctx[p].children =
                  {c \in {d \in DOMAIN ctx : ctx[d].owner = p} : Live(ctx, c)}
             /\ ~Live(ctx, p) => \A c \in {d \in DOMAIN ctx : ctx[d].owner = p} : ~Live(ctx, c)
  BY <1>1, <1>3 DEF Tree
<1> QED BY <1>2, <1>3 DEF TreeConsistent

LEMMA TimedDeadlines == ContextInv => DeadlineExact
BY DEF ContextInv, Sound, Timed, TimedContext, Due, Earliest, DeadlineExact

\* The children of a context are exactly its live registered descendants, and
\* no context that is over has a live one below it: cancelContext.cancel,
\* propagateCancel and removeChild.
THEOREM ContextTreeConsistent == Spec => []TreeConsistent
BY ContextInvariant, SoundTree, PTL

\* DeadlineExceeded is reported at a deadline that binds the context and not
\* before, and Deadline() is the earliest of them: WithDeadline and
\* timerContext.startTimer.
THEOREM ContextDeadlineExact == Spec => []DeadlineExact
BY ContextInvariant, TimedDeadlines, PTL

\* A stop() of AfterFunc that answered true is final, and the function runs
\* only when the context is done.
THEOREM ContextStopIsFinal == Spec => []StopIsFinal
<1>1. ContextInv => StopIsFinal
  BY DEF ContextInv, AfterOK, StopIsFinal
<1> QED BY <1>1, ContextInvariant, PTL

\* A context that a step ends has its error and its cause from the context it
\* is registered with, or is where that cancellation started.
THEOREM ContextCauseInherited == Spec => CauseInherited
<1> DEFINE Takes == \A c \in DOMAIN ctx' :
       /\ ctx'[c].err # Null
       /\ c \in DOMAIN ctx => Live(ctx, c)
       /\ ctx'[c].owner # Null
       => LET p == ctx'[c].owner IN
          ctx'[p].err = Null
            \/ /\ ctx'[c].err = ctx'[p].err
               /\ ctx'[c].cause = ctx'[p].cause
<1>1. ContextInv /\ [Next]_vars => [Takes]_vars
  <2> SUFFICES ASSUME ContextInv, [Next]_vars PROVE Takes
    OBVIOUS
  <2>1. Inherits(ctx, ctx')
    BY ContextSteps
  <2> QED BY <2>1 DEF Inherits
<1>2. ContextInv /\ [Next]_vars => [Takes]_vars
  BY <1>1
<1> QED BY <1>2, ContextInvariant, PTL DEF Spec, CauseInherited

-----------------------------------------------------------------------------
(* The contexts of the runtime.                                            *)

\* The runtime's steps are steps of the contexts or leave them alone, so the
\* theorems about contexts hold of it.
LEMMA RuntimeHasContexts == RuntimeSpec => Spec
<1>1. RuntimeInit => Init
  BY DEF RuntimeInit
<1>2. [RuntimeNext]_runtimeVars => [Next]_vars
  BY DEF RuntimeNext, ContextStep, TimersStep, FetchStep, runtimeVars
<1> QED BY <1>1, <1>2, PTL DEF RuntimeSpec, Spec

-----------------------------------------------------------------------------
(* Timers and tickers.                                                     *)

\* The delay an object was last started with.
DelayOf(o) == T!TimeoutMilliseconds(tm[o].asked)

TimerObject ==
  [kind : {"none"} \cup T!Kinds, id : Nat, starts : Nat, queue : Seq(Nat), asked : Nat,
   since : Nat, stopped : BOOLEAN, fired : Nat, wrong : BOOLEAN]

HostTimer == [of : Objects, id : Nat, due : Nat, period : Nat]

TimersTypeOK ==
  /\ clock \in Nat
  /\ tm \in [Objects -> TimerObject]
  /\ host \subseteq HostTimer

\* The times on a channel are in order and in the past.
QueuesInOrder ==
  \A o \in Objects :
    /\ \A i \in 1..(Len(tm[o].queue) - 1) : tm[o].queue[i] <= tm[o].queue[i + 1]
    /\ \A i \in 1..Len(tm[o].queue) : tm[o].queue[i] <= clock

\* What a host timer h knows of the object x that started it.
HostFact(h, x) ==
  /\ x.kind # "none" /\ h.id = x.id /\ ~x.stopped
  /\ IF x.kind = "ticker"
     THEN /\ h.period = T!TimeoutMilliseconds(x.asked)
          /\ h.due >= x.since + (x.fired + 1) * T!TimeoutMilliseconds(x.asked)
     ELSE /\ h.period = 0 /\ x.fired = 0
          /\ h.due >= x.since + T!TimeoutMilliseconds(x.asked)

TimersInv ==
  /\ TimersTypeOK
  /\ QueuesInOrder
  /\ \A o \in Objects : ~tm[o].wrong /\ tm[o].id = tm[o].starts
  /\ \A h \in host : HostFact(h, tm[h.of])
  /\ \A h, k \in host : h.of = k.of => h = k

LEMMA DelayTyped == \A d \in Nat : T!TimeoutMilliseconds(d) \in Nat
BY TimersAssumption DEF T!TimeoutMilliseconds



\* An operation on object o leaves it as x, with the host timers new besides
\* those of other objects, rest.
ObjectMove(o, x, rest, new) ==
  /\ rest \subseteq {h \in host : h.of # o} /\ new \subseteq HostTimer
  /\ \A h \in new : h.of = o /\ HostFact(h, x)
  /\ \A h, k \in new : h = k
  /\ ~x.wrong /\ x.id = x.starts
  /\ \A i \in 1..(Len(x.queue) - 1) : x.queue[i] <= x.queue[i + 1]
  /\ \A i \in 1..Len(x.queue) : x.queue[i] <= clock
  /\ tm' = [tm EXCEPT ![o] = x] /\ host' = rest \cup new /\ clock' = clock

LEMMA ObjectMoves ==
  ASSUME TimersInv, NEW o \in Objects, NEW x \in TimerObject, NEW rest, NEW new,
         ObjectMove(o, x, rest, new)
  PROVE  TimersInv'
<1>m. /\ rest \subseteq {h \in host : h.of # o} /\ new \subseteq HostTimer
      /\ \A h \in new : h.of = o /\ HostFact(h, x)
      /\ \A h, k \in new : h = k
      /\ ~x.wrong /\ x.id = x.starts
      /\ tm' = [tm EXCEPT ![o] = x] /\ host' = rest \cup new /\ clock' = clock
  BY DEF ObjectMove
<1>q. /\ \A i \in 1..(Len(x.queue) - 1) : x.queue[i] <= x.queue[i + 1]
      /\ \A i \in 1..Len(x.queue) : x.queue[i] <= clock
  BY DEF ObjectMove
<1>0. /\ clock \in Nat /\ tm \in [Objects -> TimerObject] /\ host \subseteq HostTimer
      /\ \A h \in host : HostFact(h, tm[h.of])
      /\ \A h, k \in host : h.of = k.of => h = k
      /\ \A p \in Objects : ~tm[p].wrong /\ tm[p].id = tm[p].starts
  BY DEF TimersInv, TimersTypeOK
<1>1. /\ tm'[o] = x
      /\ \A p \in Objects : p # o => tm'[p] = tm[p]
  BY <1>0, <1>m
<1>2. TimersTypeOK'
  BY <1>0, <1>m DEF TimersTypeOK
<1>3. QueuesInOrder'
  <2>1. QueuesInOrder
    BY DEF TimersInv
  <2>2. ASSUME NEW p \in Objects
        PROVE  /\ \A i \in 1..(Len(tm'[p].queue) - 1) : tm'[p].queue[i] <= tm'[p].queue[i + 1]
               /\ \A i \in 1..Len(tm'[p].queue) : tm'[p].queue[i] <= clock
    <3>1. CASE p = o
      BY <3>1, <1>1, <1>q
    <3>2. CASE p # o
      BY <3>2, <2>1, <1>1 DEF QueuesInOrder
    <3> QED BY <3>1, <3>2
  <2> QED BY <2>2, <1>m DEF QueuesInOrder
<1>4. \A p \in Objects : ~tm'[p].wrong /\ tm'[p].id = tm'[p].starts
  BY <1>0, <1>1, <1>m
<1>5. ASSUME NEW h \in host'
      PROVE  HostFact(h, tm'[h.of])
  <2>1. CASE h \in rest
    <3>1. h \in host /\ h.of # o /\ h.of \in Objects
      BY <2>1, <1>0, <1>m DEF HostTimer
    <3>2. tm'[h.of] = tm[h.of]
      BY <3>1, <1>1
    <3>3. HostFact(h, tm[h.of])
      BY <3>1, <1>0
    <3> QED BY <3>2, <3>3
  <2>2. CASE h \in new
    <3>1. HostFact(h, x) /\ tm'[h.of] = x
      BY <2>2, <1>1, <1>m
    <3> QED BY <3>1
  <2> QED BY <2>1, <2>2, <1>m
<1>6. ASSUME NEW h \in host', NEW k \in host', h.of = k.of
      PROVE  h = k
  <2>1. CASE h \in rest
    BY <1>0, <1>6, <2>1, <1>m
  <2>2. CASE h \in new
    BY <1>6, <2>2, <1>m
  <2> QED BY <2>1, <2>2, <1>m
<1> QED BY <1>2, <1>3, <1>4, <1>5, <1>6 DEF TimersInv

LEMMA StartsObject ==
  ASSUME TimersInv, NEW o \in Objects, NEW kind \in T!Kinds, NEW d \in Delays,
         NEW rest, rest \subseteq {h \in host : h.of # o},
         tm' = [tm EXCEPT ![o] = T!Started(o, kind, d)],
         host' = rest \cup {T!Start(o, kind, d)}, clock' = clock
  PROVE  TimersInv'
<1> DEFINE x == T!Started(o, kind, d)
           s == T!Start(o, kind, d)
           y == T!TimeoutMilliseconds(d)
<1>0. /\ clock \in Nat /\ tm[o] \in TimerObject /\ tm[o].id = tm[o].starts /\ ~tm[o].wrong
  BY DEF TimersInv, TimersTypeOK
<1>d. d \in Nat /\ y \in Nat
  BY TimersAssumption, DelayTyped
<1>k. kind \in {"timer", "func", "ticker"} /\ kind # "none" /\ kind \in {"none"} \cup T!Kinds
  BY DEF T!Kinds
<1>t. tm[o].id + 1 \in Nat /\ tm[o].starts + 1 \in Nat /\ 0 \in Nat /\ FALSE \in BOOLEAN
  BY <1>0 DEF TimerObject
<1>1. /\ x.queue = tm[o].queue
      /\ x.kind = kind /\ x.id = tm[o].id + 1 /\ x.starts = tm[o].starts + 1
      /\ x.asked = d /\ x.since = clock /\ x.fired = 0
  BY <1>0 DEF T!Started, TimerObject
<1>3. ~x.wrong
  BY <1>0 DEF T!Started, TimerObject
<1>4. ~x.stopped
  BY <1>0 DEF T!Started, TimerObject
<1>5. x \in TimerObject
  BY <1>0, <1>d, <1>k, <1>t DEF T!Started, TimerObject
<1>6. /\ s.of = o /\ s.due = clock + y
      /\ s.id = tm[o].starts + 1
      /\ s.period = IF kind = "ticker" THEN y ELSE 0
  BY DEF T!Start
<1>7. s \in HostTimer
  BY <1>0, <1>d, <1>t DEF T!Start, HostTimer
<1> HIDE DEF x, s
<1>8. HostFact(s, x)
  <2>1. s.id = x.id
    BY <1>0, <1>1, <1>6
  <2>2. T!TimeoutMilliseconds(x.asked) = y
    BY <1>1
  <2>3. s.due >= x.since + y /\ s.due >= x.since + (x.fired + 1) * y
    <3>1. (0 + 1) * y = y
      BY <1>d
    <3>2. clock + y >= clock + y
      BY <1>d, <1>0
    <3> QED BY <3>1, <3>2, <1>1, <1>6
  <2> HIDE DEF y
  <2> QED BY <2>1, <2>2, <2>3, <1>1, <1>6, <1>k, <1>4 DEF HostFact
<1>9. /\ \A i \in 1..(Len(x.queue) - 1) : x.queue[i] <= x.queue[i + 1]
      /\ \A i \in 1..Len(x.queue) : x.queue[i] <= clock
  BY <1>1 DEF TimersInv, QueuesInOrder
<1>10. tm' = [tm EXCEPT ![o] = x] /\ host' = rest \cup {s}
  BY DEF x, s
<1>11. x.id = x.starts
  BY <1>1, <1>0
<1>12. ObjectMove(o, x, rest, {s})
  BY <1>3, <1>6, <1>7, <1>8, <1>9, <1>10, <1>11 DEF ObjectMove
<1> QED BY <1>5, <1>12, ObjectMoves

\* Clearing the host timer an object remembers clears all it has.
LEMMA ClearedMeansNone ==
  ASSUME TimersInv, NEW o \in Objects
  PROVE  T!Cleared(o) \subseteq {h \in host : h.of # o}
BY DEF TimersInv, HostFact, T!Cleared

\* An object that was never started has no host timer.
LEMMA NewMeansNone ==
  ASSUME TimersInv, NEW o \in Objects, tm[o].kind = "none"
  PROVE  host \subseteq {h \in host : h.of # o}
BY DEF TimersInv, HostFact

LEMMA TimersStopStep ==
  ASSUME TimersInv, NEW o \in Objects, T!Stop(o)
  PROVE  TimersInv'
<1> DEFINE x == [tm[o] EXCEPT !.stopped = TRUE]
<1>0. /\ tm \in [Objects -> TimerObject] /\ tm[o].id = tm[o].starts /\ ~tm[o].wrong
      /\ tm[o] \in TimerObject
  BY DEF TimersInv, TimersTypeOK
<1>1. x \in TimerObject
  BY <1>0 DEF TimerObject
<1>2. x.queue = tm[o].queue /\ x.id = x.starts
  BY <1>0 DEF TimerObject
<1>3. ~x.wrong
  BY <1>0 DEF TimerObject
<1>4. tm' = [tm EXCEPT ![o] = x] /\ host' = T!Cleared(o) \cup {} /\ clock' = clock
  BY DEF T!Stop
<1>5. /\ \A i \in 1..(Len(x.queue) - 1) : x.queue[i] <= x.queue[i + 1]
      /\ \A i \in 1..Len(x.queue) : x.queue[i] <= clock
  BY <1>2 DEF TimersInv, QueuesInOrder
<1> HIDE DEF x
<1>6. ObjectMove(o, x, T!Cleared(o), {})
  BY <1>2, <1>3, <1>4, <1>5, ClearedMeansNone DEF ObjectMove
<1> QED BY <1>1, <1>6, ObjectMoves

LEMMA TimersReceiveStep ==
  ASSUME TimersInv, NEW o \in Objects, T!Receive(o)
  PROVE  TimersInv'
<1> DEFINE q == tm[o].queue
           x == [tm[o] EXCEPT !.queue = Tail(q)]
<1>0. /\ tm \in [Objects -> TimerObject] /\ host \subseteq HostTimer /\ tm[o] \in TimerObject
      /\ tm[o].id = tm[o].starts /\ ~tm[o].wrong /\ clock \in Nat
      /\ \A h \in host : HostFact(h, tm[h.of])
      /\ \A h, k \in host : h.of = k.of => h = k
  BY DEF TimersInv, TimersTypeOK
<1>1. q \in Seq(Nat) /\ q # <<>>
  BY <1>0 DEF TimerObject, T!Receive
<1>2. /\ Tail(q) \in Seq(Nat) /\ Len(Tail(q)) = Len(q) - 1 /\ Len(q) \in Nat
      /\ \A i \in 1..Len(Tail(q)) : Tail(q)[i] = q[i + 1]
  BY <1>1
<1>3. x \in TimerObject
  BY <1>0, <1>2 DEF TimerObject
<1>4. /\ x.queue = Tail(q) /\ x.id = x.starts /\ x.kind = tm[o].kind /\ x.id = tm[o].id
      /\ x.asked = tm[o].asked /\ x.since = tm[o].since /\ x.fired = tm[o].fired
  BY <1>0 DEF TimerObject
<1>5. x.stopped = tm[o].stopped
  BY <1>0 DEF TimerObject
<1>6. ~x.wrong
  BY <1>0 DEF TimerObject
<1>7. /\ \A i \in 1..(Len(q) - 1) : q[i] <= q[i + 1]
      /\ \A i \in 1..Len(q) : q[i] <= clock
  BY DEF TimersInv, QueuesInOrder
<1>8. tm' = [tm EXCEPT ![o] = x] /\ host' = host /\ clock' = clock
  BY DEF T!Receive
<1> HIDE DEF x, q
<1>9. /\ \A i \in 1..(Len(x.queue) - 1) : x.queue[i] <= x.queue[i + 1]
      /\ \A i \in 1..Len(x.queue) : x.queue[i] <= clock
  BY <1>2, <1>4, <1>7
<1> DEFINE rest == {h \in host : h.of # o}
           new == {h \in host : h.of = o}
<1>10. \A h \in new : h.of = o /\ HostFact(h, x)
  <2> TAKE h \in new
  <2>1. HostFact(h, tm[o]) /\ h.of = o
    BY <1>0
  <2> QED BY <2>1, <1>4, <1>5 DEF HostFact
<1>11. host' = rest \cup new /\ new \subseteq HostTimer /\ \A h, k \in new : h = k
  BY <1>8, <1>0
<1> HIDE DEF new
<1>12. ObjectMove(o, x, rest, new)
  BY <1>4, <1>6, <1>8, <1>9, <1>10, <1>11 DEF ObjectMove
<1> QED BY <1>3, <1>12, ObjectMoves

LEMMA TimersFireStep ==
  ASSUME TimersInv, NEW h \in host, T!Fire(h)
  PROVE  TimersInv'
<1> DEFINE o == h.of
           n == tm[o].fired + 1
           delay == T!TimeoutMilliseconds(tm[o].asked)
           early == clock < tm[o].since + (IF tm[o].kind = "ticker" THEN n ELSE 1) * delay
           q == IF tm[o].kind = "func" THEN tm[o].queue ELSE Append(tm[o].queue, clock)
           w == tm[o].wrong \/ tm[o].stopped \/ early \/ (tm[o].kind # "ticker" /\ n > 1)
           x == [tm[o] EXCEPT !.fired = n, !.queue = q, !.wrong = w]
           g == [h EXCEPT !.due = clock + h.period]
           new == IF h.period = 0 THEN {} ELSE {g}
<1>0. /\ clock \in Nat /\ tm \in [Objects -> TimerObject] /\ h \in HostTimer
      /\ HostFact(h, tm[o]) /\ o \in Objects /\ tm[o] \in TimerObject
      /\ tm[o].id = tm[o].starts /\ ~tm[o].wrong
  BY DEF TimersInv, TimersTypeOK, HostTimer
<1>1. host \ {h} \subseteq {k \in host : k.of # o}
  BY DEF TimersInv
<1>2. h.due <= clock
  BY DEF T!Fire
<1>3. /\ tm[o].fired \in Nat /\ n \in Nat /\ n > 0 /\ tm[o].asked \in Nat /\ tm[o].since \in Nat
      /\ delay \in Nat /\ h.due \in Nat /\ h.period \in Nat /\ tm[o].queue \in Seq(Nat)
  <2>1. tm[o].fired \in Nat /\ tm[o].asked \in Nat /\ tm[o].since \in Nat
    BY <1>0 DEF TimerObject
  <2>2. tm[o].queue \in Seq(Nat)
    BY <1>0 DEF TimerObject
  <2>3. h.due \in Nat /\ h.period \in Nat
    BY <1>0 DEF HostTimer
  <2>4. delay \in Nat
    BY <2>1, DelayTyped
  <2>5. n \in Nat /\ n > 0
    BY <2>1
  <2> QED BY <2>1, <2>2, <2>3, <2>4, <2>5
<1>4. /\ ~tm[o].stopped
      /\ tm[o].kind = "ticker" => h.period = delay /\ h.due >= tm[o].since + n * delay
      /\ tm[o].kind # "ticker" =>
           h.period = 0 /\ tm[o].fired = 0 /\ h.due >= tm[o].since + delay
      /\ tm[o].kind # "none" /\ h.id = tm[o].id
  BY <1>0 DEF HostFact
<1>p. n * delay \in Nat /\ 1 * delay = delay /\ (n + 1) * delay = n * delay + delay
  BY <1>3
<1>5. ~early
  <2> HIDE DEF delay, n
  <2> QED BY <1>p, <1>4, <1>3, <1>2, <1>0
<1>6. ~w
  <2> HIDE DEF early
  <2> QED BY <1>0, <1>4, <1>5
<1>7. q \in Seq(Nat)
  BY <1>0, <1>3
<1>8. x \in TimerObject
  <2>1. w \in BOOLEAN
    BY <1>6
  <2> HIDE DEF w, q, n
  <2> QED BY <2>1, <1>0, <1>3, <1>7 DEF TimerObject
<1>9. /\ x.queue = q /\ x.id = tm[o].id /\ x.starts = tm[o].starts /\ x.kind = tm[o].kind
      /\ x.asked = tm[o].asked /\ x.since = tm[o].since /\ x.fired = n
  <2> HIDE DEF w, q, n
  <2> QED BY <1>0 DEF TimerObject
<1>10. ~x.stopped /\ ~x.wrong
  <2>1. x.wrong = w
    BY <1>0 DEF TimerObject
  <2>2. x.stopped = tm[o].stopped
    BY <1>0 DEF TimerObject
  <2> QED BY <2>1, <2>2, <1>6, <1>4
<1>11. /\ \A i \in 1..(Len(q) - 1) : q[i] <= q[i + 1]
       /\ \A i \in 1..Len(q) : q[i] <= clock
  <2>1. /\ \A i \in 1..(Len(tm[o].queue) - 1) : tm[o].queue[i] <= tm[o].queue[i + 1]
        /\ \A i \in 1..Len(tm[o].queue) : tm[o].queue[i] <= clock
    BY <1>0 DEF TimersInv, QueuesInOrder
  <2> DEFINE r == tm[o].queue
  <2>2. Append(r, clock) \in Seq(Nat) /\ Len(Append(r, clock)) = Len(r) + 1 /\ Len(r) \in Nat
    BY <1>0, <1>3
  <2>3. /\ \A i \in 1..Len(r) : Append(r, clock)[i] = r[i]
        /\ Append(r, clock)[Len(r) + 1] = clock
    BY <1>0, <1>3
  <2> HIDE DEF r
  <2>4. /\ \A i \in 1..(Len(r) - 1) : r[i] <= r[i + 1]
        /\ \A i \in 1..Len(r) : r[i] <= clock
    BY <2>1 DEF r
  <2>5. q = r \/ q = Append(r, clock)
    BY DEF r
  <2> HIDE DEF q
  <2>6. CASE q = r
    BY <2>6, <2>4
  <2>7. CASE q = Append(r, clock)
    BY <2>7, <2>2, <2>3, <2>4, <1>0
  <2> QED BY <2>5, <2>6, <2>7
<1>12. /\ tm' = [tm EXCEPT ![o] = x] /\ host' = (host \ {h}) \cup new /\ clock' = clock
  BY DEF T!Fire
<1>13. /\ new \subseteq HostTimer /\ \A k \in new : k.of = o /\ HostFact(k, x)
       /\ \A k, l \in new : k = l
  <2>1. CASE h.period = 0
    BY <2>1
  <2>2. CASE h.period # 0
    <3>1. tm[o].kind = "ticker"
      BY <2>2, <1>4
    <3>2. /\ g \in HostTimer /\ g.of = o /\ g.id = h.id /\ g.period = h.period
          /\ g.due = clock + h.period
      <4>1. clock + h.period \in Nat
        BY <1>0, <1>3
      <4>2. g.of = o /\ g.id = h.id /\ g.period = h.period /\ g.due = clock + h.period
        BY <1>0 DEF HostTimer
      <4>3. g \in HostTimer
        BY <1>0, <4>1 DEF HostTimer
      <4> QED BY <4>2, <4>3
    <3>3. g.due >= tm[o].since + (n + 1) * delay
      <4>1. h.due >= tm[o].since + n * delay /\ h.period = delay
        BY <3>1, <1>4
      <4> HIDE DEF n, delay
      <4> QED BY <4>1, <3>2, <1>2, <1>3, <1>p, <1>0, SMTT(30)
    <3> HIDE DEF x, g, n, o
    <3>4. HostFact(g, x)
      BY <3>1, <3>2, <3>3, <1>4, <1>9, <1>10 DEF HostFact
    <3> QED BY <2>2, <3>2, <3>4
  <2> QED BY <2>1, <2>2
<1> HIDE DEF x, q, w, g, new, early, delay, n
<1>14. ObjectMove(o, x, host \ {h}, new)
  BY <1>0, <1>1, <1>9, <1>10, <1>11, <1>12, <1>13 DEF ObjectMove
<1> QED BY <1>0, <1>8, <1>14, ObjectMoves

LEMMA TimersTickStep ==
  ASSUME TimersInv, T!Tick
  PROVE  TimersInv'
<1>0. /\ clock \in Nat /\ clock' = clock + 1 /\ tm' = tm /\ host' = host
      /\ tm \in [Objects -> TimerObject]
  BY DEF TimersInv, TimersTypeOK, T!Tick
<1>1. QueuesInOrder'
  <2>1. ASSUME NEW o \in Objects
        PROVE  /\ \A i \in 1..(Len(tm[o].queue) - 1) : tm[o].queue[i] <= tm[o].queue[i + 1]
               /\ \A i \in 1..Len(tm[o].queue) : tm[o].queue[i] <= clock + 1
    <3>1. tm[o].queue \in Seq(Nat)
      BY <1>0 DEF TimerObject
    <3>2. \A i \in 1..Len(tm[o].queue) : tm[o].queue[i] \in Nat
      BY <3>1
    <3> QED BY <3>2, <1>0 DEF TimersInv, QueuesInOrder
  <2> QED BY <2>1, <1>0 DEF QueuesInOrder
<1>2. TimersTypeOK'
  BY <1>0 DEF TimersInv, TimersTypeOK
<1>3. /\ \A o \in Objects : ~tm'[o].wrong /\ tm'[o].id = tm'[o].starts
      /\ \A h, k \in host' : h.of = k.of => h = k
  BY <1>0 DEF TimersInv
<1>4. \A h \in host' : HostFact(h, tm'[h.of])
  BY <1>0 DEF TimersInv
<1> QED BY <1>1, <1>2, <1>3, <1>4 DEF TimersInv

LEMMA TimersStepKeeps ==
  ASSUME TimersInv, T!TimersNext
  PROVE  TimersInv'
<1>1. ASSUME NEW o \in Objects, NEW d \in Delays, T!Reset(o, d)
      PROVE  TimersInv'
  <2>1. /\ tm[o].kind \in T!Kinds
        /\ tm' = [tm EXCEPT ![o] = T!Started(o, tm[o].kind, d)]
        /\ host' = T!Cleared(o) \cup {T!Start(o, tm[o].kind, d)} /\ clock' = clock
    BY <1>1 DEF T!Reset, TimersInv, TimersTypeOK, TimerObject
  <2> QED BY <2>1, ClearedMeansNone, StartsObject
<1>2. ASSUME NEW o \in Objects, NEW d \in Delays, NEW k \in T!Kinds, T!Create(o, k, d)
      PROVE  TimersInv'
  <2>1. /\ tm' = [tm EXCEPT ![o] = T!Started(o, k, d)]
        /\ host' = host \cup {T!Start(o, k, d)} /\ clock' = clock
        /\ host \subseteq {h \in host : h.of # o}
    BY <1>2, NewMeansNone DEF T!Create
  <2> QED BY <2>1, StartsObject
<1> QED BY <1>1, <1>2, TimersStopStep, TimersReceiveStep, TimersFireStep, TimersTickStep
     DEF T!TimersNext

LEMMA TimersStart ==
  ASSUME T!TimersInit
  PROVE  TimersInv
<1>1. T!New \in TimerObject /\ T!New.queue = <<>> /\ T!New.id = T!New.starts /\ ~T!New.wrong
  BY DEF T!New, TimerObject
<1>2. clock = 0 /\ tm = [o \in Objects |-> T!New] /\ host = {}
  BY DEF T!TimersInit
<1>3. \A o \in Objects : tm[o] = T!New
  BY <1>2
<1>4. TimersTypeOK
  BY <1>1, <1>2 DEF TimersTypeOK
<1>5. QueuesInOrder
  BY <1>1, <1>3 DEF QueuesInOrder
<1> QED BY <1>1, <1>2, <1>3, <1>4, <1>5 DEF TimersInv

LEMMA TimersInvariant ==
  RuntimeSpec => []TimersInv
<1>1. RuntimeInit => TimersInv
  BY TimersStart DEF RuntimeInit
<1>2. TimersInv /\ [RuntimeNext]_runtimeVars => TimersInv'
  <2> SUFFICES ASSUME TimersInv, [RuntimeNext]_runtimeVars PROVE TimersInv'
    OBVIOUS
  <2>1. CASE TimersStep
    BY <2>1, TimersStepKeeps DEF TimersStep
  <2>2. CASE UNCHANGED <<clock, tm, host>>
    BY <2>2 DEF TimersInv, TimersTypeOK, QueuesInOrder
  <2> QED BY <2>1, <2>2 DEF RuntimeNext, ContextStep, FetchStep, timerVars, runtimeVars
<1> QED BY <1>1, <1>2, PTL DEF RuntimeSpec

\* No callback runs after Stop, before the duration of the last start or twice
\* for one start of a Timer, an object has at most the host timer it remembers,
\* and the times on a channel never go back, whatever Stop, Reset, receivers
\* and the host's clock do.
THEOREM TimersFireWhenDue ==
  RuntimeSpec => []FiresWhenDue
<1>1. TimersInv => FiresWhenDue
  BY DEF TimersInv, QueuesInOrder, HostFact, FiresWhenDue, T!FiresWhenDue
<1> QED BY <1>1, TimersInvariant, PTL

-----------------------------------------------------------------------------
(* One request of the HTTP client.                                         *)

\* The request's body is open until the request is sent or served, and a
\* failure is blamed on the context only when the context is over; a read of
\* the response comes after the request.
RequestInv ==
  /\ rt \in {"idle", "reading", "serving"} => closes = 0 /\ rtErr = "none"
  /\ rt = "fetching" => closes = 1 /\ rtErr = "none"
  /\ rt = "returned" => closes = IF rtErr = "rejected" THEN 0 ELSE 1
  /\ rt \in {"idle", "reading", "serving"} \/ rtErr = "rejected" => net = "idle" /\ watch = "none"
  /\ rt \in {"idle", "reading", "serving", "fetching", "returned"}
  /\ rt # "returned" => ~stopped
  /\ rd = "loading" => rt = "returned"
  /\ body # "none" => rt = "returned"
  /\ rd \in {"idle", "loading"}
  /\ winner \in {"none", "value", "thrown", "ctx"}
  /\ winner = "ctx" => reqCtx = "done"
  /\ rtErr = "ctx" => reqCtx = "done"

LEMMA RequestStepKeeps ==
  ASSUME RequestInv, H!FetchNext
  PROVE  RequestInv'
<1>1. CASE H!CancelRequest
  BY <1>1 DEF RequestInv, H!CancelRequest, H!requestVars, H!bodyVars
<1>2. CASE H!RoundTrip
  BY <1>2 DEF RequestInv, H!RoundTrip, H!StartFetch, H!RejectRequest, H!Return, H!bodyVars
<1>3. CASE H!BodyRead
  BY <1>3 DEF RequestInv, H!BodyRead, H!StartFetch, H!RejectRequest, H!Return, H!bodyVars
<1>4. CASE H!HandlerReturns
  BY <1>4 DEF RequestInv, H!HandlerReturns, H!Return
<1>5. CASE H!Network
  BY <1>5 DEF RequestInv, H!Network, H!Wins, H!bodyVars
<1>6. CASE H!WatcherWakes
  BY <1>6 DEF RequestInv, H!WatcherWakes, H!Wins, H!bodyVars
<1>7. CASE H!FetchSettled
  BY <1>7 DEF RequestInv, H!FetchSettled, H!Return
<1>8. CASE H!ReadBody
  BY <1>8 DEF RequestInv, H!ReadBody, H!requestVars
<1>9. CASE H!BodyArrives
  BY <1>9 DEF RequestInv, H!BodyArrives, H!Wins, H!requestVars
<1>10. CASE H!ReadWatcherWakes
  BY <1>10 DEF RequestInv, H!ReadWatcherWakes, H!Wins, H!requestVars
<1>11. CASE H!BodyLoaded
  BY <1>11 DEF RequestInv, H!BodyLoaded, H!requestVars
<1>12. CASE H!CloseBody
  BY <1>12 DEF RequestInv, H!CloseBody, H!requestVars
<1> QED BY <1>1, <1>2, <1>3, <1>4, <1>5, <1>6, <1>7, <1>8, <1>9, <1>10, <1>11, <1>12
     DEF H!FetchNext

\* Transport.RoundTrip has closed the body of the request exactly once when it
\* ends, unless it threw before it came to that: then not at all, and nothing was
\* sent.  It blames the context only when the context is over.
THEOREM RequestIsReleased ==
  RuntimeSpec => []RequestReleased
<1>1. RuntimeInit => RequestInv
  BY DEF RuntimeInit, H!FetchInit, RequestInv
<1>2. RequestInv /\ [RuntimeNext]_runtimeVars => RequestInv'
  <2> SUFFICES ASSUME RequestInv, [RuntimeNext]_runtimeVars PROVE RequestInv'
    OBVIOUS
  <2>1. CASE FetchStep
    BY <2>1, RequestStepKeeps DEF FetchStep
  <2>2. CASE UNCHANGED fetchVars
    BY <2>2 DEF RequestInv, fetchVars
  <2> QED BY <2>1, <2>2 DEF RuntimeNext, ContextStep, TimersStep, runtimeVars
<1>3. RequestInv => RequestReleased
  BY DEF RequestInv, RequestReleased, H!RequestReleased
<1> QED BY <1>1, <1>2, <1>3, PTL DEF RuntimeSpec
=============================================================================
