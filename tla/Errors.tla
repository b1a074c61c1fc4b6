------------------------------- MODULE Errors -------------------------------
(***************************************************************************)
(* Packages errors (errors/errors.ts) and github.com/pkg/errors: error     *)
(* values wrap each other in a tree that Is, As, AsType, Unwrap and Cause  *)
(* walk.  An error is a record; its id stands for the identity of the      *)
(* object, so two errors of one text are told apart.  Messages are left    *)
(* out.                                                                    *)
(*   kind   how it was made: "new", "wrap", "join" (package errors),       *)
(*          "fundamental", "withStack", "withMessage" (pkg/errors),        *)
(*          "custom" (a program's own type)                                *)
(*   kids   what its Unwrap method answers, in order                       *)
(*   is, as the ids its Is method accepts, the kinds its As method takes   *)
(***************************************************************************)
EXTENDS Integers, Sequences, FiniteSets, SequencesExt

Err(kind, id, kids) == [kind |-> kind, id |-> id, kids |-> kids, is |-> {}, as |-> {}]
NilErr == Err("nil", 0, <<>>)
IsNil(e) == e.kind = "nil"
Custom(id, is, as, kids) == [Err("custom", id, kids) EXCEPT !.is = is, !.as = as]

New(id) == Err("new", id, <<>>)
Wrap(e, id) == IF IsNil(e) THEN NilErr ELSE Err("wrap", id, <<e>>)
\* One error is answered as it is, none as nil.
Join(errs, id) ==
  LET real == SelectSeq(errs, LAMBDA e : ~IsNil(e))
  IN  CASE Len(real) = 0 -> NilErr
        [] Len(real) = 1 -> real[1]
        [] OTHER -> Err("join", id, real)

Fundamental(id) == Err("fundamental", id, <<>>)
WithStack(e, id) == IF IsNil(e) THEN NilErr ELSE Err("withStack", id, <<e>>)
WithMessage(e, id) == IF IsNil(e) THEN NilErr ELSE Err("withMessage", id, <<e>>)
PkgWrap(e, id) ==
  IF IsNil(e) THEN NilErr ELSE WithStack(WithMessage(e, id), id + 1)

\* The first error of a list, too, is answered as the wrapped one.
Unwrap(e) == IF e.kids = <<>> THEN NilErr ELSE e.kids[1]

FirstMatch(seq, P(_)) ==
  LET hits == {i \in DOMAIN seq : P(seq[i])}
  IN  IF hits = {} THEN 0 ELSE CHOOSE i \in hits : \A j \in hits : i <= j

\* Mutant: only the error that Unwrap answers is followed.
RECURSIVE IsAlongUnwrap(_, _)
IsAlongUnwrap(e, target) ==
  IF IsNil(target) THEN IsNil(e)
  ELSE /\ ~IsNil(e)
       /\ e = target \/ target.id \in e.is \/ IsAlongUnwrap(Unwrap(e), target)
RECURSIVE Is(_, _)
Is(e, target) ==
  IF IsNil(target) THEN IsNil(e)
  ELSE /\ ~IsNil(e)
       /\ \/ e = target
          \/ target.id \in e.is
          \/ \E i \in DOMAIN e.kids : ~IsNil(e.kids[i]) /\ Is(e.kids[i], target)

\* As and AsType answer the error they assign, NilErr when there is none.
RECURSIVE As(_, _)
As(e, kind) ==
  IF IsNil(e) THEN NilErr
  ELSE IF e.kind = kind \/ kind \in e.as THEN e
  ELSE LET found == [i \in DOMAIN e.kids |-> As(e.kids[i], kind)]
           i == FirstMatch(found, LAMBDA f : ~IsNil(f))
       IN  IF i = 0 THEN NilErr ELSE found[i]
\* AsType asks no As method.
RECURSIVE AsType(_, _)
AsType(e, kind) ==
  IF IsNil(e) THEN NilErr
  ELSE IF e.kind = kind THEN e
  ELSE LET found == [i \in DOMAIN e.kids |-> AsType(e.kids[i], kind)]
           i == FirstMatch(found, LAMBDA f : ~IsNil(f))
       IN  IF i = 0 THEN NilErr ELSE found[i]

\* withStack and withMessage have a Cause method, the others have not.
RECURSIVE Cause(_)
Cause(e) == IF e.kind \in {"withStack", "withMessage"} THEN Cause(e.kids[1]) ELSE e

-----------------------------------------------------------------------------
(* The tree as Go's documentation tells it: preorder, every child. *)

RECURSIVE Tree(_)
Tree(e) == <<e>> \o FlattenSeq([i \in DOMAIN e.kids |-> Tree(e.kids[i])])

\* An error is found exactly when it, or an error that answers for it, is in
\* the tree, and As finds the first of its kind in preorder; wrapping and
\* joining lose no error and the cause is one of the tree that wraps no more.
ErrorPromise(e, f, target, kind) ==
  LET tree == SelectSeq(Tree(e), LAMBDA n : ~IsNil(n))
      hit == FirstMatch(tree, LAMBDA n : n.kind = kind \/ kind \in n.as)
      cause == Cause(e)
      joined == Join(<<e, NilErr, f>>, 90)
  IN
  /\ ~IsNil(target) =>
       Is(e, target) = \E i \in DOMAIN tree : tree[i] = target \/ target.id \in tree[i].is
  /\ As(e, kind) = IF hit = 0 THEN NilErr ELSE tree[hit]
  /\ (\A i \in DOMAIN tree : tree[i].as = {}) => AsType(e, kind) = As(e, kind)
  /\ IsNil(cause) = IsNil(e) /\ cause.kind \notin {"withStack", "withMessage"}
  /\ \A g \in {Wrap(e, 91), PkgWrap(e, 92), WithStack(e, 94), WithMessage(e, 95)} :
       /\ IsNil(g) = IsNil(e)
       /\ ~IsNil(e) => Is(g, e) /\ Is(g, cause) /\ ~Is(e, g)
  /\ IsNil(joined) = (IsNil(e) /\ IsNil(f))
  /\ \A g \in {e, f} : ~IsNil(g) => Is(joined, g) /\ ~IsNil(As(joined, g.kind))
  /\ Cause(PkgWrap(e, 92)) = cause

\* "Unwrap returns the result of calling the Unwrap method on err, if err's
\* type contains an Unwrap method returning error.  Otherwise, Unwrap returns
\* nil": a joined error's method answers a list.
UnwrapsOne(e) == e.kind = "join" => IsNil(Unwrap(e))
=============================================================================
