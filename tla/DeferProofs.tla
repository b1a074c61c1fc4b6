---------------------------- MODULE DeferProofs ----------------------------
(***************************************************************************)
(* A panic is recovered once, by its own goroutine, and then unwinds       *)
(* nothing; a frame that is left has run its deferred functions: gs/       *)
(* builtin/panic.ts and defer.ts, for any number of goroutines, frames,    *)
(* deferred functions and panics.                                          *)
(***************************************************************************)
EXTENDS Defer, SequenceFacts, SequenceTheorems

-----------------------------------------------------------------------------
(* The inductive invariant.  OwnPanicOnly is not inductive: recover() reads *)
(* one global, so the invariant says whose frame each value of it came     *)
(* from, and which frames still hold a panic.                              *)

\* A frame that called another, or that an error reaches, runs its body or a
\* deferred function.
InsideOut(q, t) ==
  \A i \in 1..Len(q) : i < Len(q) \/ t # None => q[i].phase = "body" \/ q[i].busy

\* The errors of a goroutine's frames, and the one that unwinds it, are panics
\* of its own; one panic is in one place; only an aware frame holds one that is
\* recovered.
Errors(g, q, t, ps) ==
  /\ \A i \in 1..Len(q) :
       /\ q[i].err \in DOMAIN ps \cup {None, Suppressed}
       /\ q[i].err \in DOMAIN ps =>
            /\ ps[q[i].err].by = g
            /\ ps[q[i].err].to # {} => q[i].aware
  /\ t \in DOMAIN ps \cup {None, Suppressed}
  /\ t \in DOMAIN ps => ps[t].by = g /\ ps[t].to = {}

Apart(q, t, ps) ==
  /\ \A i, j \in 1..Len(q) : q[i].err \in DOMAIN ps /\ q[i].err = q[j].err => i = j
  /\ \A i \in 1..Len(q) : q[i].err \in DOMAIN ps => q[i].err # t

\* The panic that a scope of withRecoveringPanic will restore is that of a
\* scope further out.
Scopes(q) ==
  \A i \in 1..Len(q) : q[i].scope =>
    /\ q[i].aware /\ q[i].phase = "unwind"
    /\ q[i].prev # None => \E j \in 1..(i - 1) : q[j].scope /\ q[j].err = q[i].prev

Sound(g, q, t, ps) ==
  InsideOut(q, t) /\ Errors(g, q, t, ps) /\ Apart(q, t, ps) /\ Scopes(q)

\* Scopes are open only in the goroutine that runs, and one of them set the
\* global.
OpenScopes ==
  /\ \A g \in G : \A i \in 1..Len(frames[g]) : frames[g][i].scope => running = g
  /\ active # None =>
       /\ running \in G
       /\ \E i \in 1..Len(frames[running]) :
            frames[running][i].scope /\ frames[running][i].err = active

ByOwner == \A p \in DOMAIN panics : panics[p].to \subseteq {panics[p].by}

\* panicStack holds the panics nobody has recovered, each once.
Stacked ==
  /\ \A k, l \in 1..Len(stack) : stack[k] = stack[l] => k = l
  /\ \A p \in DOMAIN panics :
       panics[p].to = {} <=> \E k \in 1..Len(stack) : stack[k] = p

DeferInv ==
  /\ DeferTypeOK
  /\ \A g \in G : Sound(g, frames[g], thrown[g], panics)
  /\ OpenScopes /\ ByOwner /\ Stacked

-----------------------------------------------------------------------------
(* Sequences. *)

\* indexOf and splice take the one occurrence out.
Distinct(s) == \A k, l \in 1..Len(s) : s[k] = s[l] => k = l

TakenOut(t, R, s, e) ==
  /\ t \in Seq(R) /\ Distinct(t)
  /\ \A p : (\E k \in 1..Len(t) : t[k] = p) <=> p # e /\ \E k \in 1..Len(s) : s[k] = p

LEMMA RemoveFirstIs ==
  ASSUME NEW R, NEW s \in Seq(R), NEW e, Distinct(s)
  PROVE  TakenOut(RemoveFirst(s, e), R, s, e)
<1>1. CASE ~\E i \in 1..Len(s) : s[i] = e
  <2>1. RemoveFirst(s, e) = s
    BY <1>1, Zenon DEF RemoveFirst
  <2> QED BY <1>1, <2>1 DEF TakenOut
<1>2. CASE \E i \in 1..Len(s) : s[i] = e
  <2>1. PICK i \in 1..Len(s) : s[i] = e
    BY <1>2
  <2> DEFINE I == {k \in 1..Len(s) : s[k] = e}
  <2>2. I = {i}
    BY <2>1 DEF Distinct
  <2>3. SelectInSeq(s, LAMBDA v : v = e) = i
    <3>1. SelectInSeq(s, LAMBDA v : v = e) = Min(I)
      BY <2>2 DEF SelectInSeq
    <3>2. Min({i}) = i
      BY <2>1 DEF Min
    <3> QED BY <2>2, <3>1, <3>2
  <2>4. RemoveFirst(s, e) = SubSeq(s, 1, i - 1) \o SubSeq(s, i + 1, Len(s))
    BY <1>2, <2>3, Zenon DEF RemoveFirst, RemoveAt
  <2>5. PICK a, b : a = SubSeq(s, 1, i - 1) /\ b = SubSeq(s, i + 1, Len(s))
    OBVIOUS
  <2>6. /\ a \in Seq(R) /\ Len(a) = i - 1 /\ \A k \in 1..(i - 1) : a[k] = s[k]
        /\ b \in Seq(R) /\ Len(b) = Len(s) - i
        /\ \A k \in 1..(Len(s) - i) : b[k] = s[i + k]
    <3>1. 1 \in 1..(Len(s) + 1) /\ i - 1 \in 0..Len(s) /\ Len(s) \in Nat
      BY <2>1
    <3>2. i + 1 \in 1..(Len(s) + 1) /\ Len(s) \in i..Len(s)
      BY <2>1
    <3>3. /\ a \in Seq(R) /\ Len(a) = i - 1
          /\ \A k \in 1..(i - 1) : a[k] = s[1 + k - 1]
      BY <2>1, <2>5, <3>1, SubSeqProperties
    <3>4. /\ b \in Seq(R) /\ Len(b) = Len(s) - i
          /\ \A k \in 1..(Len(s) - i) : b[k] = s[i + 1 + k - 1]
      <4>1. /\ b \in Seq(R)
            /\ Len(b) = IF i + 1 <= Len(s) THEN Len(s) - (i + 1) + 1 ELSE 0
            /\ \A k \in 1..(Len(s) - (i + 1) + 1) : b[k] = s[(i + 1) + k - 1]
        BY <2>5, <3>2, SubSeqProperties
      <4> QED BY <2>1, <4>1
    <3> QED BY <2>1, <3>3, <3>4
  <2>7. PICK t : t = a \o b
    OBVIOUS
  <2>8. /\ t \in Seq(R) /\ Len(t) = Len(s) - 1
        /\ \A k \in 1..(Len(s) - 1) : t[k] = IF k < i THEN s[k] ELSE s[k + 1]
    <3>1. /\ t \in Seq(R) /\ Len(t) = (i - 1) + (Len(s) - i)
          /\ \A k \in 1..(i - 1) : t[k] = a[k]
          /\ \A k \in i..(Len(s) - 1) : t[k] = b[k - (i - 1)]
      <4>0. a \in Seq(R) /\ b \in Seq(R)
        BY <2>6
      <4> HIDE DEF I
      <4>1. /\ a \o b \in Seq(R) /\ Len(a \o b) = Len(a) + Len(b)
            /\ Len(a) \in Nat /\ Len(b) \in Nat
            /\ \A k \in 1..Len(a) : (a \o b)[k] = a[k]
            /\ \A k \in (Len(a) + 1)..(Len(a) + Len(b)) : (a \o b)[k] = b[k - Len(a)]
        BY <4>0, ConcatParts
      <4>2. Len(a) = i - 1 /\ Len(b) = Len(s) - i /\ i \in Nat /\ Len(s) \in Nat
        BY <2>1, <2>6
      <4>3. /\ (i - 1) + 1 = i /\ (i - 1) + (Len(s) - i) = Len(s) - 1
        BY <4>2
      <4> QED BY <2>7, <4>1, <4>2, <4>3
    <3>2. \A k \in i..(Len(s) - 1) : k - (i - 1) \in 1..(Len(s) - i)
      BY <2>1
    <3>3. \A k \in i..(Len(s) - 1) : t[k] = s[k + 1]
      BY <2>1, <2>6, <3>1, <3>2
    <3> QED BY <2>1, <2>6, <3>1, <3>3
  <2>9. \A k, l \in 1..Len(t) : t[k] = t[l] => k = l
    <3>1. \A k \in 1..Len(t) : \E m \in 1..Len(s) :
            t[k] = s[m] /\ ((k < i /\ m = k) \/ (~(k < i) /\ m = k + 1))
      BY <2>1, <2>8
    <3> TAKE k, l \in 1..Len(t)
    <3> HAVE t[k] = t[l]
    <3>2. PICK m \in 1..Len(s) : t[k] = s[m] /\ ((k < i /\ m = k) \/ (~(k < i) /\ m = k + 1))
      BY <3>1
    <3>3. PICK o \in 1..Len(s) : t[l] = s[o] /\ ((l < i /\ o = l) \/ (~(l < i) /\ o = l + 1))
      BY <3>1
    <3>4. m = o
      BY <3>2, <3>3, Zenon DEF Distinct
    <3>5. k \in Int /\ l \in Int /\ i \in Int
      BY <2>1, <2>8
    <3> HIDE DEF I
    <3> QED BY <3>2, <3>3, <3>4, <3>5
  <2>10. ASSUME NEW k \in 1..Len(t) PROVE t[k] # e /\ \E l \in 1..Len(s) : s[l] = t[k]
    <3>1. PICK m \in 1..Len(s) : t[k] = s[m] /\ m # i
      <4>1. CASE k < i
        BY <2>1, <2>8, <4>1
      <4>2. CASE ~(k < i)
        <5>1. k + 1 \in 1..Len(s) /\ t[k] = s[k + 1] /\ k + 1 # i
          BY <2>1, <2>8, <4>2
        <5> QED BY <5>1
      <4> QED BY <4>1, <4>2
    <3> HIDE DEF I
    <3>2. m \in 1..Len(s) /\ i \in 1..Len(s)
      OBVIOUS
    <3>3. s[m] = s[i] => m = i
      BY <3>2, ZenonT(40) DEF Distinct
    <3>4. t[k] # e
      BY <2>1, <3>1, <3>3
    <3> QED BY <3>1, <3>4
  <2>11. ASSUME NEW l \in 1..Len(s), s[l] # e PROVE \E k \in 1..Len(t) : t[k] = s[l]
    <3>1. CASE l < i
      BY <2>1, <2>8, <2>11, <3>1
    <3>2. CASE l > i
      <4>1. l - 1 \in 1..Len(t) /\ t[l - 1] = s[l]
        BY <2>1, <2>8, <2>11, <3>2
      <4> QED BY <4>1
    <3> QED BY <2>1, <2>11, <3>1, <3>2
  <2>12. t = RemoveFirst(s, e)
    BY <2>4, <2>5, <2>7
  <2>13. \A p : (\E k \in 1..Len(t) : t[k] = p) <=> p # e /\ \E k \in 1..Len(s) : s[k] = p
    BY <2>10, <2>11
  <2> QED BY <2>8, <2>9, <2>12, <2>13 DEF TakenOut, Distinct
<1> QED BY <1>1, <1>2

LEMMA RemoveAbsent ==
  ASSUME NEW s, NEW e, ~\E i \in 1..Len(s) : s[i] = e
  PROVE  RemoveFirst(s, e) = s
BY Zenon DEF RemoveFirst

\* The frames after a call, a return and a change of the top frame.
LEMMA FramesPushed ==
  ASSUME NEW q \in Seq(Frame), NEW f \in Frame
  PROVE  /\ Append(q, f) \in Seq(Frame) /\ Len(Append(q, f)) = Len(q) + 1
         /\ \A i \in 1..Len(q) : Append(q, f)[i] = q[i]
         /\ Append(q, f)[Len(q) + 1] = f
OBVIOUS

LEMMA FramesPopped ==
  ASSUME NEW q \in Seq(Frame), q # <<>>
  PROVE  /\ SubSeq(q, 1, Len(q) - 1) \in Seq(Frame)
         /\ Len(SubSeq(q, 1, Len(q) - 1)) = Len(q) - 1
         /\ Len(q) \in Nat /\ Len(q) >= 1
         /\ \A i \in 1..(Len(q) - 1) : SubSeq(q, 1, Len(q) - 1)[i] = q[i]
<1>1. 1 \in 1..(Len(q) + 1) /\ Len(q) - 1 \in 0..Len(q) /\ Len(q) \in Nat /\ Len(q) >= 1
  OBVIOUS
<1>2. PICK n \in Nat : n = Len(q) - 1
  BY <1>1
<1>3. \A i \in 1..n : q[i] \in Frame
  BY <1>2
<1>4. /\ SubSeq(q, 1, n) \in Seq(Frame)
      /\ Len(SubSeq(q, 1, n)) = IF 1 <= n THEN n - 1 + 1 ELSE 0
      /\ \A i \in 1..(n - 1 + 1) : SubSeq(q, 1, n)[i] = q[1 + i - 1]
  BY <1>3, SubSeqProperties
<1>5. /\ SubSeq(q, 1, n) \in Seq(Frame) /\ Len(SubSeq(q, 1, n)) = n
      /\ \A i \in 1..n : SubSeq(q, 1, n)[i] = q[i]
  BY <1>4
<1> QED BY <1>1, <1>2, <1>5

LEMMA FramesSet ==
  ASSUME NEW q \in Seq(Frame), q # <<>>, NEW f \in Frame,
         NEW r, r = [q EXCEPT ![Len(q)] = f]
  PROVE  /\ r \in Seq(Frame) /\ Len(r) = Len(q) /\ Len(q) \in 1..Len(q)
         /\ ~(Len(q) < Len(q))
         /\ \A i \in 1..(Len(q) - 1) :
              r[i] = q[i] /\ i \in 1..Len(q) /\ i < Len(q) /\ i # Len(q)
         /\ r[Len(q)] = f
         /\ \A i \in 1..Len(q) :
              /\ i = Len(q) \/ i \in 1..(Len(q) - 1)
              /\ \A j \in 1..(i - 1) : j \in 1..(Len(q) - 1)
OBVIOUS

-----------------------------------------------------------------------------
(* What a change of one goroutine's frames, of its error or of the panics  *)
(* leaves sound.                                                           *)

Panics(ps) == ps \in Seq([by : G, to : SUBSET G]) /\ Len(ps) <= MaxPanics

LEMMA PanicNumbers ==
  ASSUME DeferAssumption, NEW ps, Panics(ps)
  PROVE  /\ DOMAIN ps = 1..Len(ps) /\ Len(ps) \in Nat
         /\ None \notin DOMAIN ps /\ Suppressed \notin DOMAIN ps
         /\ DOMAIN ps \subseteq 1..MaxPanics
BY DEF DeferAssumption, Panics, None, Suppressed

\* A new frame, called from code that runs.
LEMMA SoundPush ==
  ASSUME DeferAssumption, NEW g, NEW q \in Seq(Frame), NEW ps, Panics(ps),
         Sound(g, q, None, ps),
         q # <<>> => q[Len(q)].phase = "body" \/ q[Len(q)].busy,
         NEW f \in Frame, f.err = None, ~f.scope
  PROVE  Sound(g, Append(q, f), None, ps)
<1>1. PICK r : r = Append(q, f)
  OBVIOUS
<1>2. /\ r \in Seq(Frame) /\ Len(r) = Len(q) + 1 /\ Len(q) \in Nat
      /\ \A i \in 1..Len(q) : r[i] = q[i]
      /\ r[Len(q) + 1] = f
  BY <1>1, FramesPushed
<1>3. \A i \in 1..Len(r) : i \in 1..Len(q) \/ i = Len(q) + 1
  BY <1>2
<1>4. None \notin DOMAIN ps
  BY PanicNumbers
<1>5. InsideOut(r, None)
  <2>1. ASSUME NEW i \in 1..Len(r), i < Len(r) PROVE r[i].phase = "body" \/ r[i].busy
    <3>1. i \in 1..Len(q) /\ r[i] = q[i]
      BY <1>2, <2>1
    <3>2. CASE i < Len(q)
      BY <3>1, <3>2 DEF Sound, InsideOut
    <3>3. CASE i = Len(q)
      BY <1>2, <3>1, <3>3
    <3> QED BY <1>2, <3>1, <3>2, <3>3
  <2> QED BY <2>1 DEF InsideOut
<1>6. Errors(g, r, None, ps)
  BY <1>2, <1>3, <1>4 DEF Sound, Errors
<1>7. Apart(r, None, ps)
  BY <1>2, <1>3, <1>4 DEF Sound, Apart
<1>8. Scopes(r)
  <2>1. ASSUME NEW i \in 1..Len(r), r[i].scope
        PROVE  /\ r[i].aware /\ r[i].phase = "unwind"
               /\ r[i].prev # None => \E j \in 1..(i - 1) : r[j].scope /\ r[j].err = r[i].prev
    <3>1. i \in 1..Len(q) /\ r[i] = q[i]
      BY <1>2, <1>3, <2>1
    <3>2. \A j \in 1..(i - 1) : r[j] = q[j]
      BY <1>2, <3>1
    <3> QED BY <2>1, <3>1, <3>2 DEF Sound, Scopes
  <2> QED BY <2>1 DEF Scopes
<1> QED BY <1>1, <1>5, <1>6, <1>7, <1>8 DEF Sound

\* The top frame is left, with no error, with its own or with one it met.
LEMMA SoundPop ==
  ASSUME DeferAssumption, NEW g, NEW q \in Seq(Frame), q # <<>>, NEW ps, Panics(ps),
         NEW t, Sound(g, q, t, ps),
         NEW u \in DOMAIN ps \cup {None, Suppressed},
         u \in DOMAIN ps => u = t \/ (u = q[Len(q)].err /\ ps[u].to = {})
  PROVE  Sound(g, SubSeq(q, 1, Len(q) - 1), u, ps)
<1>1. PICK r : r = SubSeq(q, 1, Len(q) - 1)
  OBVIOUS
<1>2. /\ r \in Seq(Frame) /\ Len(r) = Len(q) - 1 /\ Len(q) \in Nat /\ Len(q) >= 1
      /\ \A i \in 1..(Len(q) - 1) : r[i] = q[i]
  BY <1>1, FramesPopped
<1>3. \A i \in 1..Len(r) : i \in 1..Len(q) /\ i < Len(q) /\ r[i] = q[i]
  BY <1>2
<1>4. InsideOut(r, u)
  BY <1>3 DEF Sound, InsideOut
<1>5. Errors(g, r, u, ps)
  <2>1. u \in DOMAIN ps => ps[u].by = g /\ ps[u].to = {}
    BY <1>2 DEF Sound, Errors
  <2> QED BY <1>3, <2>1 DEF Sound, Errors
<1>6. Apart(r, u, ps)
  <2>1. ASSUME NEW i \in 1..Len(r), r[i].err \in DOMAIN ps PROVE r[i].err # u
    <3>1. CASE u = t
      BY <1>3, <2>1, <3>1 DEF Sound, Apart
    <3>2. CASE u = q[Len(q)].err
      <4>1. q[i].err = q[Len(q)].err => i = Len(q)
        BY <1>2, <1>3, <2>1 DEF Sound, Apart
      <4> QED BY <1>3, <3>2, <4>1, <1>2
    <3> QED BY <2>1, <3>1, <3>2
  <2> QED BY <1>3, <2>1 DEF Sound, Apart
<1>7. Scopes(r)
  <2>1. ASSUME NEW i \in 1..Len(r), r[i].scope
        PROVE  /\ r[i].aware /\ r[i].phase = "unwind"
               /\ r[i].prev # None => \E j \in 1..(i - 1) : r[j].scope /\ r[j].err = r[i].prev
    <3>1. \A j \in 1..(i - 1) : r[j] = q[j]
      BY <1>2
    <3> QED BY <1>3, <2>1, <3>1 DEF Sound, Scopes
  <2> QED BY <2>1 DEF Scopes
<1> QED BY <1>1, <1>4, <1>5, <1>6, <1>7 DEF Sound

\* The top frame goes on, with the error it has or with the one it catches.
LEMMA SoundSet ==
  ASSUME DeferAssumption, NEW g, NEW q \in Seq(Frame), q # <<>>, NEW ps, Panics(ps),
         NEW t, Sound(g, q, t, ps),
         NEW f \in Frame, f.aware = q[Len(q)].aware,
         NEW u, \/ u = t /\ f.err = q[Len(q)].err
                \/ u = None /\ f.err = t,
         u # None => f.phase = "body" \/ f.busy,
         f.scope => /\ f.aware /\ f.phase = "unwind"
                    /\ f.prev # None =>
                         \E j \in 1..(Len(q) - 1) : q[j].scope /\ q[j].err = f.prev,
         NEW r, r = [q EXCEPT ![Len(q)] = f]
  PROVE  Sound(g, r, u, ps)
<1>2. /\ r \in Seq(Frame) /\ Len(r) = Len(q) /\ Len(q) \in 1..Len(q)
      /\ ~(Len(q) < Len(q))
      /\ \A i \in 1..(Len(q) - 1) :
           r[i] = q[i] /\ i \in 1..Len(q) /\ i < Len(q) /\ i # Len(q)
      /\ r[Len(q)] = f
  BY FramesSet
<1>3. \A i \in 1..Len(r) :
        /\ i = Len(q) \/ (i \in 1..(Len(q) - 1) /\ r[i] = q[i])
        /\ \A j \in 1..(i - 1) : j \in 1..(Len(q) - 1) /\ r[j] = q[j]
  BY <1>2, FramesSet
<1>4. None \notin DOMAIN ps
  BY PanicNumbers
<1>5. InsideOut(r, u)
  <2>1. ASSUME NEW i \in 1..Len(r), i < Len(r) \/ u # None
        PROVE  r[i].phase = "body" \/ r[i].busy
    <3>1. CASE i = Len(q)
      <4>2. ~(i < Len(r))
        BY <1>2, <3>1, Zenon
      <4> QED BY <1>2, <2>1, <3>1, <4>2
    <3>2. CASE i \in 1..(Len(q) - 1)
      <4>1. i \in 1..Len(q) /\ i < Len(q) /\ r[i] = q[i]
        BY <1>2, <3>2
      <4> QED BY <4>1 DEF Sound, InsideOut
    <3> QED BY <1>3, <3>1, <3>2
  <2> QED BY <2>1 DEF InsideOut
<1>6. Errors(g, r, u, ps)
  <2>1. ASSUME NEW i \in 1..Len(r)
        PROVE  /\ r[i].err \in DOMAIN ps \cup {None, Suppressed}
               /\ r[i].err \in DOMAIN ps =>
                    /\ ps[r[i].err].by = g
                    /\ ps[r[i].err].to # {} => r[i].aware
    <3>1. CASE i = Len(q)
      <4>1. Len(q) \in 1..Len(q)
        BY <1>2
      <4>2. /\ q[Len(q)].err \in DOMAIN ps \cup {None, Suppressed}
            /\ q[Len(q)].err \in DOMAIN ps =>
                 /\ ps[q[Len(q)].err].by = g
                 /\ ps[q[Len(q)].err].to # {} => q[Len(q)].aware
        BY <4>1 DEF Sound, Errors
      <4>3. /\ t \in DOMAIN ps \cup {None, Suppressed}
            /\ t \in DOMAIN ps => ps[t].by = g /\ ps[t].to = {}
        BY DEF Sound, Errors
      <4>4. r[i] = f
        BY <1>2, <3>1
      <4>5. CASE f.err = q[Len(q)].err
        BY <4>2, <4>4, <4>5
      <4>6. CASE f.err = t
        BY <4>3, <4>4, <4>6
      <4> QED BY <4>5, <4>6
    <3>2. CASE i \in 1..(Len(q) - 1) /\ r[i] = q[i]
      BY <1>2, <3>2 DEF Sound, Errors
    <3> QED BY <1>3, <3>1, <3>2
  <2> QED BY <1>4, <2>1 DEF Sound, Errors
<1>7. Apart(r, u, ps)
  <2>1. ASSUME NEW i \in 1..(Len(q) - 1), q[i].err \in DOMAIN ps
        PROVE  q[i].err # f.err /\ q[i].err # u
    <3>1. i \in 1..Len(q) /\ Len(q) \in 1..Len(q) /\ i # Len(q)
      BY <1>2
    <3>2. q[i].err # t /\ q[i].err # q[Len(q)].err
      BY <2>1, <3>1 DEF Sound, Apart
    <3> QED BY <1>4, <2>1, <3>2
  <2>2. f.err \in DOMAIN ps => f.err # u
    <3>1. Len(q) \in 1..Len(q)
      BY <1>2
    <3> QED BY <1>4, <3>1 DEF Sound, Apart
  <2>3. \A i, j \in 1..(Len(q) - 1) : q[i].err \in DOMAIN ps /\ q[i].err = q[j].err => i = j
    BY <1>2 DEF Sound, Apart
  <2>4. \A i, j \in 1..Len(r) : r[i].err \in DOMAIN ps /\ r[i].err = r[j].err => i = j
    <3> TAKE i, j \in 1..Len(r)
    <3> HAVE r[i].err \in DOMAIN ps /\ r[i].err = r[j].err
    <3>1. CASE i = Len(q) /\ j # Len(q)
      <4>1. /\ j \in 1..(Len(q) - 1) /\ r[j] = q[j]
            /\ r[i] = f
        BY <1>2, <1>3, <3>1
      <4> QED BY <2>1, <4>1
    <3>2. CASE i # Len(q) /\ j = Len(q)
      <4>1. /\ i \in 1..(Len(q) - 1) /\ r[i] = q[i]
            /\ r[j] = f
        BY <1>2, <1>3, <3>2
      <4> QED BY <2>1, <4>1
    <3>3. CASE i # Len(q) /\ j # Len(q)
      BY <1>3, <2>3, <3>3
    <3> QED BY <3>1, <3>2, <3>3
  <2>5. \A i \in 1..Len(r) : r[i].err \in DOMAIN ps => r[i].err # u
    <3> TAKE i \in 1..Len(r)
    <3>1. CASE i = Len(q)
      BY <1>2, <2>2, <3>1
    <3>2. CASE i \in 1..(Len(q) - 1) /\ r[i] = q[i]
      BY <2>1, <3>2
    <3> QED BY <1>3, <3>1, <3>2
  <2> QED BY <2>4, <2>5 DEF Apart
<1>8. Scopes(r)
  <2>1. ASSUME NEW i \in 1..Len(r), r[i].scope
        PROVE  /\ r[i].aware /\ r[i].phase = "unwind"
               /\ r[i].prev # None => \E j \in 1..(i - 1) : r[j].scope /\ r[j].err = r[i].prev
    <3>1. \A j \in 1..(i - 1) : r[j] = q[j]
      BY <1>3
    <3>2. CASE i = Len(q)
      BY <1>2, <2>1, <3>1, <3>2
    <3>3. CASE i \in 1..(Len(q) - 1) /\ r[i] = q[i]
      <4>1. i \in 1..Len(q)
        BY <1>2
      <4> QED BY <2>1, <3>1, <3>3, <4>1 DEF Sound, Scopes
    <3> QED BY <1>3, <3>2, <3>3
  <2> QED BY <2>1 DEF Scopes
<1> QED BY <1>5, <1>6, <1>7, <1>8 DEF Sound

\* A sequence that grows at its end.
LEMMA Grown ==
  ASSUME NEW R, NEW s \in Seq(R), NEW x \in R
  PROVE  /\ Append(s, x) \in Seq(R) /\ Len(Append(s, x)) = Len(s) + 1 /\ Len(s) \in Nat
         /\ Len(s) + 1 \in DOMAIN Append(s, x) /\ Append(s, x)[Len(s) + 1] = x
         /\ \A p \in DOMAIN s : /\ p \in DOMAIN Append(s, x) /\ Append(s, x)[p] = s[p]
                                /\ p # Len(s) + 1 /\ p \in 1..Len(s)
         /\ \A p \in DOMAIN Append(s, x) : p \in DOMAIN s \/ p = Len(s) + 1
OBVIOUS

LEMMA Elementwise ==
  ASSUME NEW R, NEW s \in Seq(R)
  PROVE  DOMAIN s = 1..Len(s) /\ Len(s) \in Nat /\ \A e \in DOMAIN s : s[e] \in R
OBVIOUS

\* panic(): the goroutine throws a panic nobody has seen.
LEMMA SoundPanic ==
  ASSUME DeferAssumption, NEW g, NEW q \in Seq(Frame), NEW ps, Panics(ps),
         Len(ps) < MaxPanics, NEW x \in [by : G, to : SUBSET G],
         NEW t, Sound(g, q, t, ps)
  PROVE  /\ Panics(Append(ps, x))
         /\ Sound(g, q, t, Append(ps, x))
         /\ x = [by |-> g, to |-> {}] /\ t = None
              /\ (q # <<>> => q[Len(q)].phase = "body" \/ q[Len(q)].busy)
            => Sound(g, q, Len(ps) + 1, Append(ps, x))
<1>1. PICK n, rs : n = Len(ps) /\ rs = Append(ps, x)
  OBVIOUS
<1>2. /\ rs \in Seq([by : G, to : SUBSET G]) /\ Len(rs) = n + 1 /\ n \in Nat
      /\ n + 1 \in DOMAIN rs /\ rs[n + 1] = x
      /\ \A p \in DOMAIN ps : p \in DOMAIN rs /\ rs[p] = ps[p] /\ p # n + 1 /\ p \in 1..n
      /\ \A p \in DOMAIN rs : p \in DOMAIN ps \/ p = n + 1
  BY <1>1, Grown DEF Panics
<1>3. /\ n + 1 # None /\ n + 1 # Suppressed /\ n + 1 <= MaxPanics
      /\ None \notin DOMAIN rs /\ Suppressed \notin DOMAIN rs
  <2>1. /\ n + 1 # None /\ n + 1 # Suppressed /\ n + 1 <= MaxPanics
        /\ None \notin 1..n /\ Suppressed \notin 1..n
    BY <1>1, <1>2 DEF DeferAssumption, None, Suppressed
  <2> QED BY <1>2, <2>1
<1>4. ASSUME NEW e \in DOMAIN ps \cup {None, Suppressed}
      PROVE  /\ e \in DOMAIN rs \cup {None, Suppressed} /\ e # n + 1
             /\ e \in DOMAIN rs => e \in DOMAIN ps /\ rs[e] = ps[e]
  BY <1>2, <1>3, <1>4, Zenon
<1>5. /\ \A i \in 1..Len(q) : q[i].err \in DOMAIN ps \cup {None, Suppressed}
      /\ t \in DOMAIN ps \cup {None, Suppressed}
  BY DEF Sound, Errors
<1>6. Sound(g, q, t, rs)
  <2>1. Errors(g, q, t, rs)
    <3>1. \A i \in 1..Len(q) :
            /\ q[i].err \in DOMAIN rs \cup {None, Suppressed}
            /\ q[i].err \in DOMAIN rs =>
                 /\ rs[q[i].err].by = g
                 /\ rs[q[i].err].to # {} => q[i].aware
      BY <1>4, <1>5 DEF Sound, Errors
    <3>2. /\ t \in DOMAIN rs \cup {None, Suppressed}
          /\ t \in DOMAIN rs => rs[t].by = g /\ rs[t].to = {}
      BY <1>4, <1>5 DEF Sound, Errors
    <3> QED BY <3>1, <3>2 DEF Errors
  <2>2. Apart(q, t, rs)
    BY <1>4, <1>5 DEF Sound, Apart
  <2> QED BY <2>1, <2>2 DEF Sound
<1>7. ASSUME x = [by |-> g, to |-> {}], t = None,
             q # <<>> => q[Len(q)].phase = "body" \/ q[Len(q)].busy
      PROVE  Sound(g, q, n + 1, rs)
  <2>1. Errors(g, q, n + 1, rs)
    <3>1. n + 1 \in DOMAIN rs /\ rs[n + 1].by = g /\ rs[n + 1].to = {}
      BY <1>2, <1>7
    <3>2. Errors(g, q, t, rs)
      BY <1>6 DEF Sound
    <3> QED BY <3>1, <3>2 DEF Errors
  <2>2. Apart(q, n + 1, rs)
    BY <1>4, <1>5, <1>6 DEF Sound, Apart
  <2>3. InsideOut(q, n + 1)
    <3>1. ASSUME NEW i \in 1..Len(q) PROVE q[i].phase = "body" \/ q[i].busy
      <4>1. CASE i < Len(q)
        BY <4>1 DEF Sound, InsideOut
      <4>2. CASE i = Len(q)
        BY <1>7, <4>2
      <4> QED BY <4>1, <4>2
    <3> QED BY <3>1 DEF InsideOut
  <2> QED BY <1>6, <2>1, <2>2, <2>3 DEF Sound
<1>8. Panics(rs)
  BY <1>2, <1>3 DEF Panics
<1> QED BY <1>1, <1>6, <1>7, <1>8

Recovered(ps, p, h, rs) ==
  /\ rs \in Seq([by : G, to : SUBSET G]) /\ Len(rs) = Len(ps)
  /\ DOMAIN rs = DOMAIN ps
  /\ \A e \in DOMAIN ps : rs[e].by = ps[e].by /\ (e # p => rs[e].to = ps[e].to)
  /\ rs[p].to = ps[p].to \cup {h}

LEMMA RecoveredIs ==
  ASSUME NEW ps \in Seq([by : G, to : SUBSET G]), NEW p \in DOMAIN ps, NEW h \in G
  PROVE  Recovered(ps, p, h, [ps EXCEPT ![p].to = @ \cup {h}])
<1>1. PICK y : y = [ps[p] EXCEPT !.to = @ \cup {h}]
  OBVIOUS
<1>2. /\ DOMAIN ps = 1..Len(ps) /\ Len(ps) \in Nat
      /\ \A e \in DOMAIN ps : ps[e] \in [by : G, to : SUBSET G]
  BY Elementwise
<1>3. y \in [by : G, to : SUBSET G] /\ y.by = ps[p].by /\ y.to = ps[p].to \cup {h}
  BY <1>1, <1>2
<1>4. PICK rs : rs = [ps EXCEPT ![p] = y]
  OBVIOUS
<1>5. /\ rs \in Seq([by : G, to : SUBSET G]) /\ Len(rs) = Len(ps) /\ DOMAIN rs = DOMAIN ps
      /\ \A e \in DOMAIN ps : e # p => rs[e] = ps[e]
      /\ rs[p] = y
  BY <1>3, <1>4
<1>6. Recovered(ps, p, h, rs)
  BY <1>3, <1>5 DEF Recovered
<1> QED BY <1>1, <1>4, <1>6

\* recover(): h recovers a panic that unwinds nothing but an aware frame.
LEMMA SoundRecover ==
  ASSUME DeferAssumption, NEW g, NEW q \in Seq(Frame), NEW ps, Panics(ps),
         NEW t, Sound(g, q, t, ps), NEW h \in G, NEW p \in DOMAIN ps,
         NEW rs, rs = [ps EXCEPT ![p].to = @ \cup {h}],
         t # p, \A i \in 1..Len(q) : q[i].err = p => q[i].aware
  PROVE  Panics(rs) /\ Sound(g, q, t, rs)
<1>0. Recovered(ps, p, h, rs)
  BY RecoveredIs DEF Panics
<1>1. /\ Panics(rs) /\ DOMAIN rs = DOMAIN ps
      /\ \A e \in DOMAIN ps : /\ rs[e].by = ps[e].by
                              /\ e # p => rs[e].to = ps[e].to
  BY <1>0 DEF Recovered, Panics
<1>2. Errors(g, q, t, rs)
  BY <1>1 DEF Sound, Errors
<1>3. Apart(q, t, rs)
  BY <1>1 DEF Sound, Apart
<1> QED BY <1>1, <1>2, <1>3 DEF Sound

\* An await closes every scope of the goroutine.
LEMMA LeaveIs ==
  ASSUME DeferAssumption, NEW f \in Frame
  PROVE  /\ Leave(f) \in Frame /\ ~Leave(f).scope
         /\ Leave(f).phase = f.phase /\ Leave(f).busy = f.busy
         /\ Leave(f).err = f.err /\ Leave(f).aware = f.aware
<1>1. None \in 0..MaxPanics
  BY DEF DeferAssumption, None
<1> QED BY <1>1 DEF Leave, Frame

LEMMA SoundLeave ==
  ASSUME DeferAssumption, NEW g, NEW q \in Seq(Frame), NEW ps, NEW t, Sound(g, q, t, ps),
         NEW r, r = [i \in DOMAIN q |-> Leave(q[i])]
  PROVE  /\ r \in Seq(Frame) /\ Len(r) = Len(q) /\ Sound(g, r, t, ps)
         /\ \A i \in 1..Len(r) : ~r[i].scope
<1>1. \A f \in Frame : /\ Leave(f) \in Frame /\ ~Leave(f).scope
                       /\ Leave(f).phase = f.phase /\ Leave(f).busy = f.busy
                       /\ Leave(f).err = f.err /\ Leave(f).aware = f.aware
  BY LeaveIs
<1>2. /\ r \in Seq(Frame) /\ Len(r) = Len(q)
      /\ \A i \in 1..Len(q) : q[i] \in Frame /\ r[i] = Leave(q[i])
  <2>1. DOMAIN q = 1..Len(q) /\ Len(q) \in Nat /\ \A i \in 1..Len(q) : q[i] \in Frame
    OBVIOUS
  <2>2. r \in [1..Len(q) -> Frame] /\ \A i \in 1..Len(q) : r[i] = Leave(q[i])
    BY <1>1, <2>1
  <2> QED BY <2>1, <2>2, FunctionIsSeq
<1>3. \A i \in 1..Len(r) :
        /\ i \in 1..Len(q) /\ ~r[i].scope
        /\ r[i].phase = q[i].phase /\ r[i].busy = q[i].busy
        /\ r[i].err = q[i].err /\ r[i].aware = q[i].aware
  BY <1>1, <1>2
<1>4. InsideOut(r, t)
  <2>1. \A i \in 1..Len(q) : i < Len(q) \/ t # None => q[i].phase = "body" \/ q[i].busy
    BY DEF Sound, InsideOut
  <2>2. \A i \in 1..Len(r) : i < Len(r) \/ t # None => r[i].phase = "body" \/ r[i].busy
    <3> TAKE i \in 1..Len(r)
    <3>1. i \in 1..Len(q) /\ Len(r) = Len(q) /\ r[i].phase = q[i].phase /\ r[i].busy = q[i].busy
      BY <1>2, <1>3
    <3> QED BY <2>1, <3>1
  <2> QED BY <2>2 DEF InsideOut
<1>5. Errors(g, r, t, ps)
  <2>1. \A i \in 1..Len(q) :
          /\ q[i].err \in DOMAIN ps \cup {None, Suppressed}
          /\ q[i].err \in DOMAIN ps =>
               ps[q[i].err].by = g /\ (ps[q[i].err].to # {} => q[i].aware)
    BY DEF Sound, Errors
  <2>2. \A i \in 1..Len(r) :
          /\ r[i].err \in DOMAIN ps \cup {None, Suppressed}
          /\ r[i].err \in DOMAIN ps =>
               ps[r[i].err].by = g /\ (ps[r[i].err].to # {} => r[i].aware)
    <3> TAKE i \in 1..Len(r)
    <3>1. i \in 1..Len(q) /\ r[i].err = q[i].err /\ r[i].aware = q[i].aware
      BY <1>3
    <3> QED BY <2>1, <3>1
  <2>3. /\ t \in DOMAIN ps \cup {None, Suppressed}
        /\ t \in DOMAIN ps => ps[t].by = g /\ ps[t].to = {}
    BY DEF Sound, Errors
  <2> QED BY <2>2, <2>3 DEF Errors
<1>6. Apart(r, t, ps)
  <2>1. /\ \A i, j \in 1..Len(q) : q[i].err \in DOMAIN ps /\ q[i].err = q[j].err => i = j
        /\ \A i \in 1..Len(q) : q[i].err \in DOMAIN ps => q[i].err # t
    BY DEF Sound, Apart
  <2>2. \A i \in 1..Len(r) : i \in 1..Len(q) /\ r[i].err = q[i].err
    BY <1>3
  <2>3. \A i, j \in 1..Len(r) : r[i].err \in DOMAIN ps /\ r[i].err = r[j].err => i = j
    <3> TAKE i, j \in 1..Len(r)
    <3> HAVE r[i].err \in DOMAIN ps /\ r[i].err = r[j].err
    <3>1. /\ i \in 1..Len(q) /\ j \in 1..Len(q)
          /\ q[i].err \in DOMAIN ps /\ q[i].err = q[j].err
      BY <2>2
    <3> QED BY <2>1, <3>1
  <2>4. \A i \in 1..Len(r) : r[i].err \in DOMAIN ps => r[i].err # t
    BY <2>1, <2>2
  <2> QED BY <2>3, <2>4 DEF Apart
<1>7. Scopes(r)
  BY <1>3 DEF Scopes
<1> QED BY <1>2, <1>3, <1>4, <1>5, <1>6, <1>7 DEF Sound

-----------------------------------------------------------------------------
(* One goroutine moves, the others and the panics stay. *)

\* The global names the panic of an open scope.
Held(q, a) == a # None => \E i \in 1..Len(q) : q[i].scope /\ q[i].err = a

LEMMA TurnHolds ==
  ASSUME DeferAssumption, DeferInv, NEW g \in G, Turn(g)
  PROVE  /\ Held(frames[g], active) /\ active \in 0..MaxPanics
         /\ \A h \in G : h # g => \A i \in 1..Len(frames[h]) : ~frames[h][i].scope
         /\ frames[g] \in Seq(Frame) /\ Len(frames[g]) \in Nat /\ Len(frames[g]) <= MaxDepth
         /\ thrown[g] \in Error
         /\ Sound(g, frames[g], thrown[g], panics) /\ Panics(panics)
<1>1. Held(frames[g], active)
  <2>1. CASE active = None
    BY <2>1 DEF Held
  <2>2. CASE active # None
    <3>1. running = g
      BY <2>2 DEF DeferInv, OpenScopes, Turn, DeferAssumption
    <3> QED BY <3>1 DEF DeferInv, OpenScopes, Held
  <2> QED BY <2>1, <2>2
<1>2. \A h \in G : h # g => \A i \in 1..Len(frames[h]) : ~frames[h][i].scope
  BY DEF DeferInv, OpenScopes, Turn, DeferAssumption
<1>3. frames[g] \in Seq(Frame) /\ Len(frames[g]) <= MaxDepth
  BY DEF DeferInv, DeferTypeOK
<1>4. Len(frames[g]) \in Nat
  BY <1>3
<1>5. thrown[g] \in Error /\ active \in 0..MaxPanics
  BY DEF DeferInv, DeferTypeOK
<1>6. Sound(g, frames[g], thrown[g], panics) /\ Panics(panics)
  BY DEF DeferInv, DeferTypeOK, Panics
<1> QED BY <1>1, <1>2, <1>3, <1>4, <1>5, <1>6

LEMMA OneMoves ==
  ASSUME DeferAssumption, DeferInv, NEW g \in G, Turn(g),
         NEW q \in Seq(Frame), Len(q) <= MaxDepth, NEW u \in Error,
         frames' = [frames EXCEPT ![g] = q], thrown' = [thrown EXCEPT ![g] = u],
         Sound(g, q, u, panics), panics' = panics, stack' = stack,
         calls' \in 0..MaxCalls,
         running' = g \/ (running' = Free /\ \A i \in 1..Len(q) : ~q[i].scope),
         active' \in 0..MaxPanics, Held(q, active')
  PROVE  DeferInv'
<1>1. /\ frames' \in [G -> Seq(Frame)] /\ frames'[g] = q
      /\ \A h \in G : h # g => frames'[h] = frames[h]
      /\ thrown' \in [G -> Error] /\ thrown'[g] = u
      /\ \A h \in G : h # g => thrown'[h] = thrown[h]
  BY DEF DeferInv, DeferTypeOK
<1>2. DeferTypeOK'
  BY <1>1 DEF DeferInv, DeferTypeOK
<1>3. \A h \in G : Sound(h, frames'[h], thrown'[h], panics')
  <2> TAKE h \in G
  <2>1. CASE h = g
    BY <1>1, <2>1
  <2>2. CASE h # g
    BY <1>1, <2>2 DEF DeferInv
  <2> QED BY <2>1, <2>2
<1>4. OpenScopes'
  <2>1. \A h \in G : \A i \in 1..Len(frames'[h]) : frames'[h][i].scope => running' = h
    BY <1>1, TurnHolds
  <2>2. ASSUME active' # None
        PROVE  /\ running' \in G
               /\ \E i \in 1..Len(frames'[running']) :
                    frames'[running'][i].scope /\ frames'[running'][i].err = active'
    <3>1. PICK i \in 1..Len(q) : q[i].scope /\ q[i].err = active'
      BY <2>2 DEF Held
    <3>2. running' = g
      BY <3>1
    <3> QED BY <1>1, <3>1, <3>2
  <2> QED BY <2>1, <2>2 DEF OpenScopes
<1>5. ByOwner' /\ Stacked'
  BY DEF DeferInv, ByOwner, Stacked
<1> QED BY <1>2, <1>3, <1>4, <1>5 DEF DeferInv

\* The top frame of the goroutine whose turn it is.
LEMMA TopIs ==
  ASSUME DeferAssumption, DeferInv, NEW g \in G, frames[g] # <<>>
  PROVE  /\ Top(g) \in Frame /\ Top(g) = frames[g][Len(frames[g])]
         /\ Len(frames[g]) \in 1..Len(frames[g])
<1>1. frames[g] \in Seq(Frame)
  BY DEF DeferInv, DeferTypeOK
<1>2. Len(frames[g]) \in 1..Len(frames[g]) /\ frames[g][Len(frames[g])] \in Frame
  BY <1>1
<1> QED BY <1>2 DEF Top

\* The scope of the top frame stays as it is, is entered or is left.
ScopeMoves(g, f) ==
  \/ ~f.scope /\ ~Top(g).scope /\ active' = active
  \/ /\ f.scope /\ Top(g).scope /\ f.prev = Top(g).prev /\ active' = active
     /\ f.aware /\ f.phase = "unwind" /\ f.err = Top(g).err
  \/ /\ f.scope /\ ~Top(g).scope /\ f.prev = active /\ active' = Recovering(f.err)
     /\ f.aware /\ f.phase = "unwind"
  \/ ~f.scope /\ Top(g).scope /\ active' = Top(g).prev

\* The top frame goes on, with its own error or the one it catches.
LEMMA TopMoves ==
  ASSUME DeferAssumption, DeferInv, NEW g \in G, Turn(g), frames[g] # <<>>,
         NEW f \in Frame, f.aware = Top(g).aware,
         NEW u \in Error, \/ u = thrown[g] /\ f.err = Top(g).err
                          \/ u = None /\ f.err = thrown[g],
         u # None => f.phase = "body" \/ f.busy,
         ScopeMoves(g, f),
         frames' = SetTop(g, f), thrown' = [thrown EXCEPT ![g] = u],
         UNCHANGED <<calls, panics, stack>>, running' = g
  PROVE  DeferInv'
<1>1. PICK q, n : q = frames[g] /\ n = Len(q)
  OBVIOUS
<1>2. PICK r : r = [q EXCEPT ![n] = f]
  OBVIOUS
<1>3. /\ q \in Seq(Frame) /\ q # <<>> /\ Top(g) = q[n] /\ n \in 1..n /\ n <= MaxDepth
      /\ Held(q, active) /\ Sound(g, q, thrown[g], panics) /\ Panics(panics)
      /\ active \in 0..MaxPanics /\ q[n] \in Frame
  BY <1>1, TurnHolds, TopIs
<1>4. frames' = [frames EXCEPT ![g] = r]
  BY <1>1, <1>2 DEF SetTop, DeferInv, DeferTypeOK
<1>5. /\ r \in Seq(Frame) /\ Len(r) = n
      /\ \A i \in 1..(n - 1) : r[i] = q[i] /\ i \in 1..n /\ i # n
      /\ r[n] = f
      /\ \A i \in 1..n : i = n \/ i \in 1..(n - 1)
  BY <1>1, <1>2, <1>3, FramesSet
<1>6. q[n].scope => /\ q[n].phase = "unwind"
                    /\ q[n].prev # None =>
                         \E j \in 1..(n - 1) : q[j].scope /\ q[j].err = q[n].prev
  BY <1>1, <1>3 DEF Sound, Scopes
<1>7. ASSUME ~q[n].scope, active # None
      PROVE  \E j \in 1..(n - 1) : q[j].scope /\ q[j].err = active
  <2>1. PICK j \in 1..n : q[j].scope /\ q[j].err = active
    BY <1>1, <1>3, <1>7 DEF Held
  <2> QED BY <1>5, <1>7, <2>1
<1>8. f.scope => /\ f.aware /\ f.phase = "unwind"
                 /\ f.prev # None =>
                      \E j \in 1..(n - 1) : q[j].scope /\ q[j].err = f.prev
  <2>1. CASE Top(g).scope
    BY <1>3, <1>6, <2>1 DEF ScopeMoves
  <2>2. CASE ~Top(g).scope
    BY <1>3, <1>7, <2>2 DEF ScopeMoves
  <2> QED BY <2>1, <2>2
<1>9. Sound(g, r, u, panics)
  BY <1>1, <1>2, <1>3, <1>8, SoundSet
<1>10. active' \in 0..MaxPanics
  <2>1. \A e : Recovering(e) \in 0..MaxPanics
    BY <1>3, PanicNumbers DEF Recovering, None, DeferAssumption
  <2>2. q[n].prev \in 0..MaxPanics
    BY <1>3 DEF Frame
  <2> QED BY <1>3, <2>1, <2>2 DEF ScopeMoves
<1>11. Held(r, active')
  <2> SUFFICES ASSUME active' # None
               PROVE  \E i \in 1..n : r[i].scope /\ r[i].err = active'
    BY <1>5 DEF Held
  <2>1. CASE \E j \in 1..(n - 1) : q[j].scope /\ q[j].err = active'
    BY <1>5, <2>1
  <2>2. CASE f.scope /\ f.err = active'
    BY <1>3, <1>5, <2>2
  <2>3. CASE ~f.scope /\ ~Top(g).scope /\ active' = active
    BY <1>3, <1>7, <2>1, <2>3
  <2>4. CASE f.scope /\ Top(g).scope /\ active' = active /\ f.err = Top(g).err
    <3>1. PICK j \in 1..n : q[j].scope /\ q[j].err = active
      BY <1>1, <1>3, <2>4 DEF Held
    <3> QED BY <1>3, <1>5, <2>1, <2>2, <2>4, <3>1
  <2>5. CASE f.scope /\ active' = Recovering(f.err)
    BY <2>2, <2>5 DEF Recovering
  <2>6. CASE Top(g).scope /\ active' = Top(g).prev
    BY <1>3, <1>6, <2>1, <2>6
  <2> QED BY <2>3, <2>4, <2>5, <2>6 DEF ScopeMoves
<1>12. calls' \in 0..MaxCalls
  BY DEF DeferInv, DeferTypeOK
<1> QED BY <1>3, <1>4, <1>5, <1>9, <1>10, <1>11, <1>12, OneMoves

\* The top frame is left.
LEMMA TopLeaves ==
  ASSUME DeferAssumption, DeferInv, NEW g \in G, Turn(g), frames[g] # <<>>,
         NEW u \in DOMAIN panics \cup {None, Suppressed},
         u \in DOMAIN panics => \/ u = thrown[g]
                                \/ u = Top(g).err /\ panics[u].to = {},
         active' = AfterLeave(Top(g)),
         frames' = Pop(g), thrown' = [thrown EXCEPT ![g] = u],
         UNCHANGED <<calls, panics, stack>>, KeepsThread(g, Pop(g))
  PROVE  DeferInv'
<1>1. PICK q, n : q = frames[g] /\ n = Len(q)
  OBVIOUS
<1>2. PICK r : r = SubSeq(q, 1, n - 1)
  OBVIOUS
<1>3. /\ q \in Seq(Frame) /\ q # <<>> /\ Top(g) = q[n] /\ n \in 1..n /\ n <= MaxDepth
      /\ Held(q, active) /\ Sound(g, q, thrown[g], panics) /\ Panics(panics)
      /\ active \in 0..MaxPanics /\ q[n] \in Frame
  BY <1>1, TurnHolds, TopIs
<1>4. Pop(g) = [frames EXCEPT ![g] = r]
  BY <1>1, <1>2 DEF Pop, DeferInv, DeferTypeOK
<1>5. /\ r \in Seq(Frame) /\ Len(r) = n - 1 /\ n \in Nat
      /\ \A i \in 1..(n - 1) : r[i] = q[i]
  BY <1>1, <1>2, <1>3, FramesPopped
<1>6. \A i \in 1..n : i = n \/ i \in 1..(n - 1)
  BY <1>5
<1>7. Sound(g, r, u, panics)
  BY <1>1, <1>2, <1>3, SoundPop
<1>8. active' \in 0..MaxPanics
  <2>1. q[n].prev \in 0..MaxPanics
    BY <1>3 DEF Frame
  <2> QED BY <1>3, <2>1 DEF AfterLeave
<1>9. Held(r, active')
  <2> SUFFICES ASSUME active' # None
               PROVE  \E i \in 1..(n - 1) : r[i].scope /\ r[i].err = active'
    BY <1>5 DEF Held
  <2>1. CASE q[n].scope
    <3>1. active' = q[n].prev
      BY <1>3, <2>1 DEF AfterLeave
    <3>2. \E j \in 1..(n - 1) : q[j].scope /\ q[j].err = active'
      BY <1>1, <1>3, <2>1, <3>1 DEF Sound, Scopes
    <3> QED BY <1>5, <3>2
  <2>2. CASE ~q[n].scope
    <3>1. active' = active
      BY <1>3, <2>2 DEF AfterLeave
    <3>2. PICK j \in 1..n : q[j].scope /\ q[j].err = active'
      BY <1>1, <1>3, <3>1 DEF Held
    <3> QED BY <1>5, <1>6, <2>2, <3>2
  <2> QED BY <2>1, <2>2
<1>10. calls' \in 0..MaxCalls /\ u \in Error
  <2>1. u \in Error
    BY <1>3, PanicNumbers DEF Error, None, Suppressed, DeferAssumption
  <2> QED BY <2>1 DEF DeferInv, DeferTypeOK
<1>11. running' = g \/ (running' = Free /\ \A i \in 1..Len(r) : ~r[i].scope)
  <2>1. Pop(g)[g] = r
    BY <1>4 DEF DeferInv, DeferTypeOK
  <2>2. CASE r = <<>>
    <3>1. \A i \in 1..Len(r) : FALSE
      BY <2>2
    <3> QED BY <2>1, <2>2, <3>1 DEF KeepsThread
  <2>3. CASE r # <<>>
    BY <2>1, <2>3 DEF KeepsThread
  <2> QED BY <2>2, <2>3
<1>12. Len(r) <= MaxDepth
  BY <1>3, <1>5 DEF DeferAssumption
<1> QED BY <1>3, <1>4, <1>5, <1>7, <1>8, <1>9, <1>10, <1>11, <1>12, OneMoves

-----------------------------------------------------------------------------
(* The actions. *)

LEMMA CallFunctionStep ==
  ASSUME DeferAssumption, DeferInv, NEW g \in G,
         NEW aware \in BOOLEAN, NEW async \in BOOLEAN,
         CallFunction(g, aware, async)
  PROVE  DeferInv'
<1> DEFINE f == [aware |-> aware, async |-> async, defers |-> 0, phase |-> "body",
                 busy |-> FALSE, err |-> None, scope |-> FALSE, prev |-> None]
<1>1. f \in Frame /\ f.err = None /\ ~f.scope
  BY DEF Frame, Error, None, Suppressed, DeferAssumption
<1> HIDE DEF f
<1>2. PICK q, r : q = frames[g] /\ r = Append(q, f)
  OBVIOUS
<1>3. Turn(g) /\ thrown[g] = None
  BY DEF CallFunction
<1>4. /\ q \in Seq(Frame) /\ Sound(g, q, None, panics) /\ Panics(panics)
      /\ Held(q, active) /\ active \in 0..MaxPanics
  BY <1>2, <1>3, TurnHolds
<1>5. q # <<>> => q[Len(q)].phase = "body" \/ q[Len(q)].busy
  BY <1>2 DEF CallFunction, InCode, Top
<1>6. Sound(g, r, None, panics)
  BY <1>1, <1>2, <1>4, <1>5, SoundPush
<1>7. /\ r \in Seq(Frame) /\ Len(r) = Len(q) + 1 /\ Len(q) \in Nat
      /\ \A i \in 1..Len(q) : r[i] = q[i]
  BY <1>1, <1>2, <1>4, FramesPushed
<1>8. Held(r, active)
  BY <1>4, <1>7 DEF Held
<1>9. /\ frames' = [frames EXCEPT ![g] = r] /\ UNCHANGED <<thrown, active, panics, stack>>
      /\ running' = g /\ calls' \in 0..MaxCalls /\ Len(q) < MaxDepth
  BY <1>2 DEF CallFunction, f, DeferInv, DeferTypeOK, DeferAssumption
<1>10. thrown' = [thrown EXCEPT ![g] = None] /\ None \in Error /\ Len(r) <= MaxDepth
  BY <1>3, <1>7, <1>9 DEF DeferInv, DeferTypeOK, DeferAssumption, Error, None, Suppressed
<1> QED BY <1>3, <1>4, <1>6, <1>7, <1>8, <1>9, <1>10, OneMoves

LEMMA DeferFunctionStep ==
  ASSUME DeferAssumption, DeferInv, NEW g \in G, DeferFunction(g)
  PROVE  DeferInv'
<1>1. PICK f : f = [Top(g) EXCEPT !.defers = @ + 1]
  OBVIOUS
<1>2. Turn(g) /\ frames[g] # <<>> /\ thrown[g] = None
  BY DEF DeferFunction, InCode
<1>3. Top(g) \in Frame /\ Top(g).defers < MaxDefers
  BY <1>2, TopIs DEF DeferFunction
<1>4. /\ f \in Frame /\ f.aware = Top(g).aware /\ f.err = Top(g).err /\ f.scope = Top(g).scope
      /\ f.prev = Top(g).prev /\ f.phase = Top(g).phase
  BY <1>1, <1>3 DEF Frame, DeferAssumption
<1>5. ~Top(g).scope
  BY <1>2, TopIs, TurnHolds DEF Sound, Scopes, DeferFunction
<1>6. /\ frames' = SetTop(g, f) /\ thrown' = [thrown EXCEPT ![g] = None] /\ None \in Error
      /\ UNCHANGED <<calls, panics, stack, active>> /\ running' = g
  BY <1>1, <1>2 DEF DeferFunction, DeferInv, DeferTypeOK, Error, None, Suppressed, DeferAssumption
<1>7. ScopeMoves(g, f)
  BY <1>4, <1>5, <1>6 DEF ScopeMoves
<1> QED BY <1>2, <1>4, <1>6, <1>7, TopMoves

\* The frames and the global stay: nobody else has an open scope.
LEMMA ScopesStay ==
  ASSUME DeferAssumption, DeferInv, NEW g \in G, Turn(g),
         UNCHANGED <<frames, active>>, running' = g
  PROVE  OpenScopes'
<1>1. Held(frames[g], active)
      /\ \A h \in G : h # g => \A i \in 1..Len(frames[h]) : ~frames[h][i].scope
  BY TurnHolds
<1> QED BY <1>1 DEF OpenScopes, Held

LEMMA PanicStep ==
  ASSUME DeferAssumption, DeferInv, NEW g \in G, Panic(g)
  PROVE  DeferInv'
<1>1. PICK n, x : n = Len(panics) /\ x = [by |-> g, to |-> {}]
  OBVIOUS
<1>2. /\ Turn(g) /\ frames[g] # <<>> /\ thrown[g] = None /\ n < MaxPanics
      /\ Top(g).phase = "body" \/ Top(g).busy
      /\ panics' = Append(panics, x) /\ stack' = Append(stack, n + 1)
      /\ thrown' = [thrown EXCEPT ![g] = n + 1] /\ running' = g
      /\ UNCHANGED <<frames, calls, active>>
  BY <1>1 DEF Panic, InCode
<1>3. /\ x \in [by : G, to : SUBSET G] /\ x.to = {} /\ Panics(panics) /\ n \in Nat
      /\ stack \in Seq(DOMAIN panics)
  BY <1>1 DEF DeferInv, DeferTypeOK, Panics
<1>4. /\ Len(panics') = n + 1 /\ n + 1 \in DOMAIN panics' /\ panics'[n + 1] = x
      /\ \A p \in DOMAIN panics : p \in DOMAIN panics' /\ panics'[p] = panics[p] /\ p # n + 1
      /\ \A p \in DOMAIN panics' : p \in DOMAIN panics \/ p = n + 1
  BY <1>1, <1>2, <1>3, Grown DEF Panics
<1>5. ASSUME NEW h \in G PROVE Sound(h, frames'[h], thrown'[h], panics') /\ Panics(panics')
  <2>1. /\ frames[h] \in Seq(Frame) /\ Sound(h, frames[h], thrown[h], panics)
        /\ frames'[h] = frames[h]
    BY <1>2 DEF DeferInv, DeferTypeOK
  <2>2. CASE h = g
    <3>1. frames[g] # <<>> => frames[g][Len(frames[g])].phase = "body" \/ frames[g][Len(frames[g])].busy
      BY <1>2 DEF Top
    <3>2. thrown'[g] = n + 1
      BY <1>2 DEF DeferInv, DeferTypeOK
    <3>3. thrown[g] = None /\ x = [by |-> g, to |-> {}]
      BY <1>1, <1>2
    <3>4. Sound(g, frames[g], n + 1, Append(panics, x)) /\ Panics(Append(panics, x))
      BY <1>1, <1>2, <1>3, <2>1, <2>2, <3>1, <3>3, SoundPanic
    <3> QED BY <1>2, <2>1, <2>2, <3>2, <3>4
  <2>3. CASE h # g
    <3>1. thrown'[h] = thrown[h]
      BY <1>2, <2>3 DEF DeferInv, DeferTypeOK
    <3>2. Sound(h, frames[h], thrown[h], Append(panics, x)) /\ Panics(Append(panics, x))
      BY <1>1, <1>2, <1>3, <2>1, SoundPanic
    <3> QED BY <1>2, <2>1, <3>1, <3>2
  <2> QED BY <2>2, <2>3
<1>6. DeferTypeOK'
  <2>1. panics' \in Seq([by : G, to : SUBSET G]) /\ Len(panics') <= MaxPanics
    BY <1>5 DEF Panics
  <2>2. thrown' \in [G -> Error]
    <3>1. n + 1 \in Error
      BY <1>1, <1>2, <1>3 DEF Error, Suppressed, DeferAssumption
    <3> QED BY <1>2, <3>1 DEF DeferInv, DeferTypeOK
  <2>3. stack' \in Seq(DOMAIN panics')
    <3>1. stack \in Seq(DOMAIN panics')
      BY <1>3, <1>4
    <3> QED BY <1>2, <1>4, <3>1
  <2> QED BY <1>2, <2>1, <2>2, <2>3 DEF DeferInv, DeferTypeOK
<1>7. OpenScopes'
  BY <1>2, ScopesStay
<1>8. ByOwner'
  BY <1>1, <1>3, <1>4 DEF DeferInv, ByOwner
<1>9. Stacked'
  <2>1. /\ Len(stack') = Len(stack) + 1 /\ Len(stack) \in Nat /\ stack'[Len(stack) + 1] = n + 1
        /\ \A k \in 1..Len(stack) : stack'[k] = stack[k] /\ stack[k] \in DOMAIN panics
    BY <1>2, <1>3
  <2>2. \A k \in 1..Len(stack') : k \in 1..Len(stack) \/ k = Len(stack) + 1
    BY <2>1
  <2>3. \A k \in 1..Len(stack) : k \in 1..Len(stack') /\ stack'[k] = stack[k] /\ stack[k] # n + 1
    BY <1>4, <2>1
  <2>4. Len(stack) + 1 \in 1..Len(stack')
    BY <2>1
  <2>5. \A k, l \in 1..Len(stack') : stack'[k] = stack'[l] => k = l
    BY <2>1, <2>2, <2>3 DEF DeferInv, Stacked
  <2>6. \A p \in DOMAIN panics' : panics'[p].to = {} <=> \E k \in 1..Len(stack') : stack'[k] = p
    <3> TAKE p \in DOMAIN panics'
    <3>1. CASE p = n + 1
      BY <1>3, <1>4, <2>1, <2>4, <3>1
    <3>2. CASE p \in DOMAIN panics
      <4>1. p # n + 1 /\ panics'[p] = panics[p]
        BY <1>4, <3>2
      <4>2. panics[p].to = {} <=> \E k \in 1..Len(stack) : stack[k] = p
        BY <3>2 DEF DeferInv, Stacked
      <4>3. (\E k \in 1..Len(stack) : stack[k] = p) <=> \E k \in 1..Len(stack') : stack'[k] = p
        BY <2>1, <2>2, <2>3, <4>1
      <4> QED BY <4>1, <4>2, <4>3
    <3> QED BY <1>4, <3>1, <3>2
  <2> QED BY <2>5, <2>6 DEF Stacked
<1> QED BY <1>5, <1>6, <1>7, <1>8, <1>9 DEF DeferInv

\* The panic recover() consumes is its own goroutine's, in an aware frame, and
\* unwinds nothing any more.
LEMMA RecoverStep ==
  ASSUME DeferAssumption, DeferInv, NEW g \in G, Recover(g)
  PROVE  DeferInv'
<1>1. /\ Turn(g) /\ frames[g] # <<>> /\ thrown[g] = None /\ active # None
      /\ panics' = [panics EXCEPT ![active].to = @ \cup {g}]
      /\ stack' = RemoveFirst(stack, active) /\ running' = g
      /\ UNCHANGED <<frames, thrown, calls, active>>
  BY DEF Recover, InCode
<1>2. /\ Held(frames[g], active) /\ active \in 0..MaxPanics /\ Panics(panics)
      /\ Sound(g, frames[g], None, panics)
  BY <1>1, TurnHolds
<1>3. PICK i \in 1..Len(frames[g]) : frames[g][i].scope /\ frames[g][i].err = active
  BY <1>1, <1>2 DEF Held
<1>4. active \in DOMAIN panics /\ panics[active].by = g
  <2>1. active # Suppressed
    BY <1>2 DEF DeferAssumption, Suppressed
  <2>2. active \in DOMAIN panics \cup {None, Suppressed}
    BY <1>2, <1>3 DEF Sound, Errors
  <2> QED BY <1>1, <1>2, <1>3, <2>1, <2>2 DEF Sound, Errors
<1>5. /\ panics' \in Seq([by : G, to : SUBSET G]) /\ Len(panics') = Len(panics)
      /\ DOMAIN panics' = DOMAIN panics
      /\ \A e \in DOMAIN panics : /\ panics'[e].by = panics[e].by
                                  /\ e # active => panics'[e].to = panics[e].to
      /\ panics'[active].to = panics[active].to \cup {g}
  <2>1. Recovered(panics, active, g, [panics EXCEPT ![active].to = @ \cup {g}])
    BY <1>2, <1>4, RecoveredIs DEF Panics
  <2>2. Recovered(panics, active, g, panics')
    BY <1>1, <2>1
  <2> QED BY <2>2 DEF Recovered
<1>6. ASSUME NEW h \in G PROVE Sound(h, frames'[h], thrown'[h], panics')
  <2>1. /\ frames[h] \in Seq(Frame) /\ Sound(h, frames[h], thrown[h], panics)
        /\ frames'[h] = frames[h] /\ thrown'[h] = thrown[h]
    BY <1>1 DEF DeferInv, DeferTypeOK
  <2>2. thrown[h] # active
    <3>1. CASE h = g
      BY <1>1, <3>1
    <3>2. CASE h # g
      BY <1>4, <2>1, <3>2 DEF Sound, Errors
    <3> QED BY <3>1, <3>2
  <2>3. \A j \in 1..Len(frames[h]) : frames[h][j].err = active => frames[h][j].aware
    <3> TAKE j \in 1..Len(frames[h])
    <3> HAVE frames[h][j].err = active
    <3>1. h = g
      BY <1>4, <2>1 DEF Sound, Errors
    <3>2. j = i
      BY <1>2, <1>3, <1>4, <3>1 DEF Sound, Apart
    <3> QED BY <1>2, <1>3, <3>1, <3>2 DEF Sound, Scopes
  <2> QED BY <1>1, <1>2, <1>4, <2>1, <2>2, <2>3, SoundRecover
<1>7. OpenScopes'
  BY <1>1, ScopesStay
<1>8. ByOwner'
  <2>1. \A p \in DOMAIN panics : panics'[p].to \subseteq {panics'[p].by}
    BY <1>4, <1>5 DEF DeferInv, ByOwner
  <2> QED BY <1>5, <2>1 DEF ByOwner
<1>9. /\ stack' \in Seq(DOMAIN panics)
      /\ \A k, l \in 1..Len(stack') : stack'[k] = stack'[l] => k = l
      /\ \A p : (\E k \in 1..Len(stack') : stack'[k] = p)
                  <=> p # active /\ \E k \in 1..Len(stack) : stack[k] = p
  <2>1. stack \in Seq(DOMAIN panics) /\ \A k, l \in 1..Len(stack) : stack[k] = stack[l] => k = l
    BY DEF DeferInv, DeferTypeOK, Stacked
  <2>2. TakenOut(RemoveFirst(stack, active), DOMAIN panics, stack, active)
    BY <2>1, RemoveFirstIs DEF Distinct
  <2> QED BY <1>1, <2>2 DEF TakenOut, Distinct
<1>10. Stacked'
  <2>1. \A p \in DOMAIN panics : panics'[p].to = {} <=> p # active /\ panics[p].to = {}
    BY <1>5
  <2>2. \A p \in DOMAIN panics : panics[p].to = {} <=> \E k \in 1..Len(stack) : stack[k] = p
    BY DEF DeferInv, Stacked
  <2>3. \A p \in DOMAIN panics : panics'[p].to = {} <=> \E k \in 1..Len(stack') : stack'[k] = p
    BY <1>9, <2>1, <2>2
  <2> QED BY <1>5, <1>9, <2>3 DEF Stacked
<1>11. DeferTypeOK'
  BY <1>1, <1>5, <1>9 DEF DeferInv, DeferTypeOK
<1> QED BY <1>6, <1>7, <1>8, <1>10, <1>11 DEF DeferInv

\* The panic that the outermost open scope restores is none, so an await leaves
\* the global as it found it.
LEMMA AwaitStep ==
  ASSUME DeferAssumption, DeferInv, NEW g \in G, Await(g)
  PROVE  DeferInv'
<1>1. PICK q, r : q = frames[g] /\ r = [i \in DOMAIN q |-> Leave(q[i])]
  OBVIOUS
<1>2. /\ Turn(g) /\ thrown[g] = None
      /\ frames' = [frames EXCEPT ![g] = [i \in DOMAIN @ |-> Leave(@[i])]]
      /\ running' = Free /\ UNCHANGED <<thrown, calls, panics, stack>>
  BY DEF Await
<1>3. /\ q \in Seq(Frame) /\ Len(q) \in Nat /\ Len(q) <= MaxDepth
      /\ Held(q, active) /\ Sound(g, q, None, panics)
  BY <1>1, <1>2, TurnHolds
<1>4. /\ r \in Seq(Frame) /\ Len(r) = Len(q) /\ Sound(g, r, None, panics)
      /\ \A i \in 1..Len(r) : ~r[i].scope
  BY <1>1, <1>3, SoundLeave
<1>5. frames' = [frames EXCEPT ![g] = r]
  BY <1>1, <1>2 DEF DeferInv, DeferTypeOK
<1>6. active' = None
  <2>1. CASE ~\E i \in DOMAIN q : q[i].scope
    <3>1. active' = active
      BY <1>1, <2>1 DEF Await
    <3>2. \A i \in 1..Len(q) : ~q[i].scope
      BY <1>3, <2>1
    <3> QED BY <1>3, <3>1, <3>2 DEF Held
  <2>2. CASE \E i \in DOMAIN q : q[i].scope
    <3> DEFINE first == CHOOSE i \in DOMAIN q : q[i].scope /\ \A j \in 1..(i - 1) : ~q[j].scope
    <3>1. active' = q[first].prev
      BY <1>1, <2>2, Zenon DEF Await
    <3>2. PICK T : T = {i \in 1..Len(q) : q[i].scope}
      OBVIOUS
    <3>3. T \subseteq Nat /\ T # {} /\ DOMAIN q = 1..Len(q)
      BY <1>3, <2>2, <3>2
    <3>4. PICK m \in T : \A k \in T : m <= k
      BY <3>3, NatMin
    <3>5. m \in DOMAIN q /\ q[m].scope /\ \A j \in 1..(m - 1) : ~q[j].scope
      <4>1. \A j \in 1..(m - 1) : j \in 1..Len(q) /\ ~(m <= j)
        BY <1>3, <3>2, <3>4
      <4> QED BY <3>2, <3>3, <3>4, <4>1
    <3>6. first \in DOMAIN q /\ q[first].scope /\ \A j \in 1..(first - 1) : ~q[j].scope
      BY <3>5, Zenon
    <3> HIDE DEF first
    <3>7. first \in 1..Len(q)
      BY <3>3, <3>6
    <3> QED BY <1>3, <3>1, <3>6, <3>7 DEF Sound, Scopes
  <2> QED BY <2>1, <2>2
<1>7. /\ thrown' = [thrown EXCEPT ![g] = None] /\ None \in Error /\ None \in 0..MaxPanics
      /\ calls' \in 0..MaxCalls
  BY <1>2 DEF DeferInv, DeferTypeOK, DeferAssumption, Error, None, Suppressed
<1>8. Held(r, active')
  BY <1>6 DEF Held
<1> QED BY <1>2, <1>3, <1>4, <1>5, <1>6, <1>7, <1>8, OneMoves

LEMMA ReturnStep ==
  ASSUME DeferAssumption, DeferInv, NEW g \in G, Return(g)
  PROVE  DeferInv'
<1>1. PICK f : f = [Top(g) EXCEPT !.phase = "dispose"]
  OBVIOUS
<1>2. Turn(g) /\ frames[g] # <<>> /\ thrown[g] = None /\ Top(g).phase = "body"
  BY DEF Return, InCode
<1>3. Top(g) \in Frame
  BY <1>2, TopIs
<1>4. /\ f \in Frame /\ f.aware = Top(g).aware /\ f.err = Top(g).err /\ f.scope = Top(g).scope
  BY <1>1, <1>3 DEF Frame
<1>5. ~Top(g).scope
  BY <1>2, TopIs, TurnHolds DEF Sound, Scopes
<1>6. /\ frames' = SetTop(g, f) /\ thrown' = [thrown EXCEPT ![g] = None] /\ None \in Error
      /\ UNCHANGED <<calls, panics, stack, active>> /\ running' = g
  BY <1>1, <1>2 DEF Return, DeferInv, DeferTypeOK, Error, None, Suppressed, DeferAssumption
<1>7. ScopeMoves(g, f)
  BY <1>4, <1>5, <1>6 DEF ScopeMoves
<1> QED BY <1>2, <1>4, <1>6, <1>7, TopMoves

LEMMA ReturnBareStep ==
  ASSUME DeferAssumption, DeferInv, NEW g \in G, ReturnBare(g)
  PROVE  DeferInv'
<1>1. /\ Turn(g) /\ frames[g] # <<>> /\ thrown[g] = None /\ Top(g).phase = "body"
      /\ frames' = Pop(g) /\ KeepsThread(g, Pop(g))
      /\ UNCHANGED <<thrown, calls, active, panics, stack>>
  BY DEF ReturnBare, InCode
<1>2. ~Top(g).scope
  BY <1>1, TopIs, TurnHolds DEF Sound, Scopes
<1>3. active' = AfterLeave(Top(g))
  BY <1>1, <1>2 DEF AfterLeave
<1>4. thrown' = [thrown EXCEPT ![g] = None]
  BY <1>1 DEF DeferInv, DeferTypeOK
<1> QED BY <1>1, <1>3, <1>4, TopLeaves

LEMMA EnterIs ==
  ASSUME DeferAssumption, NEW f \in Frame, active \in 0..MaxPanics
  PROVE  /\ Enter(f) \in Frame /\ Enter(f).scope /\ Enter(f).prev = active
         /\ Enter(f).aware = f.aware /\ Enter(f).err = f.err /\ Enter(f).phase = f.phase
         /\ Enter(f).busy = f.busy
BY DEF Enter, Frame

LEMMA RunDeferredStep ==
  ASSUME DeferAssumption, DeferInv, NEW g \in G, RunDeferred(g)
  PROVE  DeferInv'
<1>1. PICK f : f = [Top(g) EXCEPT !.defers = @ - 1, !.busy = TRUE]
  OBVIOUS
<1>2. /\ Turn(g) /\ frames[g] # <<>> /\ thrown[g] = None /\ Top(g).defers > 0
      /\ UNCHANGED <<thrown, calls, panics, stack>> /\ running' = g
  BY DEF RunDeferred, InLoop
<1>3. Top(g) \in Frame /\ active \in 0..MaxPanics
  BY <1>2, TopIs, TurnHolds
<1>4. /\ f \in Frame /\ f.aware = Top(g).aware /\ f.err = Top(g).err /\ f.scope = Top(g).scope
      /\ f.prev = Top(g).prev /\ f.phase = Top(g).phase /\ f.busy
  <2>1. Top(g).defers \in 0..MaxDefers /\ MaxDefers \in Nat
    BY <1>3 DEF Frame, DeferAssumption
  <2>2. Top(g).defers - 1 \in 0..MaxDefers
    BY <1>2, <2>1
  <2> QED BY <1>1, <1>3, <2>2 DEF Frame
<1>5. thrown' = [thrown EXCEPT ![g] = None] /\ None \in Error
  BY <1>2 DEF DeferInv, DeferTypeOK, Error, None, Suppressed, DeferAssumption
<1>6. Top(g).scope => Top(g).aware /\ Top(g).phase = "unwind"
  BY <1>2, TopIs, TurnHolds DEF Sound, Scopes
<1>7. CASE f.phase = "unwind" /\ f.aware /\ ~f.scope
  <2>1. frames' = SetTop(g, Enter(f)) /\ active' = Recovering(f.err)
    BY <1>1, <1>7 DEF RunDeferred
  <2>2. /\ Enter(f) \in Frame /\ Enter(f).scope /\ Enter(f).prev = active
        /\ Enter(f).aware = f.aware /\ Enter(f).err = f.err /\ Enter(f).phase = f.phase
    BY <1>3, <1>4, EnterIs
  <2>3. ScopeMoves(g, Enter(f))
    BY <1>4, <1>7, <2>1, <2>2 DEF ScopeMoves
  <2> QED BY <1>2, <1>4, <1>5, <2>1, <2>2, <2>3, TopMoves
<1>8. CASE ~(f.phase = "unwind" /\ f.aware /\ ~f.scope)
  <2>1. frames' = SetTop(g, f) /\ active' = active
    BY <1>1, <1>8 DEF RunDeferred
  <2>2. CASE f.scope
    <3>1. ScopeMoves(g, f)
      BY <1>4, <1>6, <2>1, <2>2 DEF ScopeMoves
    <3> QED BY <1>2, <1>4, <1>5, <2>1, <3>1, TopMoves
  <2>3. CASE ~f.scope
    <3>1. ScopeMoves(g, f)
      BY <1>4, <2>1, <2>3 DEF ScopeMoves
    <3> QED BY <1>2, <1>4, <1>5, <2>1, <3>1, TopMoves
  <2> QED BY <2>2, <2>3
<1> QED BY <1>7, <1>8

LEMMA EndDeferredStep ==
  ASSUME DeferAssumption, DeferInv, NEW g \in G, EndDeferred(g)
  PROVE  DeferInv'
<1>1. PICK f : f = [Top(g) EXCEPT !.busy = FALSE]
  OBVIOUS
<1>2. /\ Turn(g) /\ frames[g] # <<>> /\ thrown[g] = None
      /\ frames' = SetTop(g, IF f.async THEN Leave(f) ELSE f)
      /\ active' = IF f.async THEN AfterLeave(f) ELSE active
      /\ UNCHANGED <<thrown, calls, panics, stack>> /\ running' = g
  BY <1>1 DEF EndDeferred, InCode
<1>3. Top(g) \in Frame
  BY <1>2, TopIs
<1>4. /\ f \in Frame /\ f.aware = Top(g).aware /\ f.err = Top(g).err /\ f.scope = Top(g).scope
      /\ f.prev = Top(g).prev /\ f.phase = Top(g).phase
  BY <1>1, <1>3 DEF Frame
<1>5. thrown' = [thrown EXCEPT ![g] = None] /\ None \in Error
  BY <1>2 DEF DeferInv, DeferTypeOK, Error, None, Suppressed, DeferAssumption
<1>6. Top(g).scope => Top(g).aware /\ Top(g).phase = "unwind"
  BY <1>2, TopIs, TurnHolds DEF Sound, Scopes
<1>7. CASE f.async
  <2>1. frames' = SetTop(g, Leave(f)) /\ active' = AfterLeave(f)
    BY <1>2, <1>7
  <2>2. /\ Leave(f) \in Frame /\ ~Leave(f).scope
        /\ Leave(f).err = f.err /\ Leave(f).aware = f.aware
    BY <1>4, LeaveIs
  <2>3. CASE Top(g).scope
    <3>1. active' = Top(g).prev
      BY <1>4, <2>1, <2>3 DEF AfterLeave
    <3>2. ScopeMoves(g, Leave(f))
      BY <1>4, <2>2, <2>3, <3>1 DEF ScopeMoves
    <3> QED BY <1>2, <1>4, <1>5, <2>1, <2>2, <3>2, TopMoves
  <2>4. CASE ~Top(g).scope
    <3>1. active' = active
      BY <1>4, <2>1, <2>4 DEF AfterLeave
    <3>2. ScopeMoves(g, Leave(f))
      BY <1>4, <2>2, <2>4, <3>1 DEF ScopeMoves
    <3> QED BY <1>2, <1>4, <1>5, <2>1, <2>2, <3>2, TopMoves
  <2> QED BY <2>3, <2>4
<1>8. CASE ~f.async
  <2>1. frames' = SetTop(g, f) /\ active' = active
    BY <1>2, <1>8
  <2>2. CASE f.scope
    <3>1. ScopeMoves(g, f)
      BY <1>4, <1>6, <2>1, <2>2 DEF ScopeMoves
    <3> QED BY <1>2, <1>4, <1>5, <2>1, <3>1, TopMoves
  <2>3. CASE ~f.scope
    <3>1. ScopeMoves(g, f)
      BY <1>4, <2>1, <2>3 DEF ScopeMoves
    <3> QED BY <1>2, <1>4, <1>5, <2>1, <3>1, TopMoves
  <2> QED BY <2>2, <2>3
<1> QED BY <1>7, <1>8

LEMMA EndDisposeStep ==
  ASSUME DeferAssumption, DeferInv, NEW g \in G, EndDispose(g)
  PROVE  DeferInv'
<1>1. /\ Turn(g) /\ frames[g] # <<>> /\ thrown[g] = None /\ Top(g).phase = "dispose"
      /\ frames' = Pop(g) /\ KeepsThread(g, Pop(g))
      /\ UNCHANGED <<thrown, calls, active, panics, stack>>
  BY DEF EndDispose, InLoop
<1>2. ~Top(g).scope
  BY <1>1, TopIs, TurnHolds DEF Sound, Scopes
<1>3. active' = AfterLeave(Top(g))
  BY <1>1, <1>2 DEF AfterLeave
<1>4. thrown' = [thrown EXCEPT ![g] = None]
  BY <1>1 DEF DeferInv, DeferTypeOK
<1> QED BY <1>1, <1>3, <1>4, TopLeaves

\* A swallowed panic left panicStack when it was recovered.
LEMMA EndUnwindStep ==
  ASSUME DeferAssumption, DeferInv, NEW g \in G, EndUnwind(g)
  PROVE  DeferInv'
<1>1. PICK e, swallowed : e = Top(g).err /\ swallowed = (Top(g).aware /\ IsRecovered(e))
  OBVIOUS
<1>2. /\ Turn(g) /\ frames[g] # <<>> /\ frames' = Pop(g) /\ active' = AfterLeave(Top(g))
      /\ thrown' = [thrown EXCEPT ![g] = IF swallowed THEN None ELSE e]
      /\ stack' = IF swallowed THEN RemoveFirst(stack, e) ELSE stack
      /\ KeepsThread(g, Pop(g)) /\ UNCHANGED <<calls, panics>>
  BY <1>1 DEF EndUnwind, InLoop
<1>3. /\ e \in DOMAIN panics \cup {None, Suppressed}
      /\ e \in DOMAIN panics /\ panics[e].to # {} => Top(g).aware
  BY <1>1, <1>2, TopIs, TurnHolds DEF Sound, Errors
<1>4. CASE swallowed
  <2>1. e \in DOMAIN panics /\ panics[e].to # {}
    BY <1>1, <1>4 DEF IsRecovered
  <2>2. ~\E k \in 1..Len(stack) : stack[k] = e
    BY <2>1 DEF DeferInv, Stacked
  <2>3. stack' = stack
    BY <1>2, <1>4, <2>2, RemoveAbsent
  <2>4. thrown' = [thrown EXCEPT ![g] = None] /\ None \notin DOMAIN panics
    BY <1>2, <1>4, TurnHolds, PanicNumbers
  <2> QED BY <1>2, <2>3, <2>4, TopLeaves
<1>5. CASE ~swallowed
  <2>1. thrown' = [thrown EXCEPT ![g] = e] /\ stack' = stack
    BY <1>2, <1>5
  <2>2. e \in DOMAIN panics => panics[e].to = {}
    BY <1>1, <1>3, <1>5 DEF IsRecovered
  <2> QED BY <1>1, <1>2, <1>3, <2>1, <2>2, TopLeaves
<1> QED BY <1>4, <1>5

LEMMA CatchStep ==
  ASSUME DeferAssumption, DeferInv, NEW g \in G, Catch(g)
  PROVE  DeferInv'
<1>1. PICK f : f = [Top(g) EXCEPT !.phase = "unwind", !.busy = FALSE, !.err = thrown[g]]
  OBVIOUS
<1>2. /\ Turn(g) /\ frames[g] # <<>> /\ Top(g).phase # "unwind"
      /\ frames' = SetTop(g, IF f.aware /\ ~f.async THEN Enter(f) ELSE f)
      /\ active' = IF f.aware /\ ~f.async THEN Recovering(f.err) ELSE active
      /\ thrown' = [thrown EXCEPT ![g] = None]
      /\ UNCHANGED <<calls, panics, stack>> /\ running' = g
  BY <1>1 DEF Catch, Unwinding
<1>3. Top(g) \in Frame /\ active \in 0..MaxPanics /\ thrown[g] \in Error
  BY <1>2, TopIs, TurnHolds
<1>4. /\ f \in Frame /\ f.aware = Top(g).aware /\ f.err = thrown[g] /\ f.scope = Top(g).scope
      /\ f.prev = Top(g).prev /\ f.phase = "unwind"
  BY <1>1, <1>3 DEF Frame
<1>5. ~Top(g).scope
  BY <1>2, TopIs, TurnHolds DEF Sound, Scopes
<1>6. None \in Error
  BY DEF Error, None, Suppressed, DeferAssumption
<1>7. CASE f.aware /\ ~f.async
  <2>1. frames' = SetTop(g, Enter(f)) /\ active' = Recovering(f.err)
    BY <1>2, <1>7
  <2>2. /\ Enter(f) \in Frame /\ Enter(f).scope /\ Enter(f).prev = active
        /\ Enter(f).aware = f.aware /\ Enter(f).err = f.err /\ Enter(f).phase = f.phase
    BY <1>3, <1>4, EnterIs
  <2>3. ScopeMoves(g, Enter(f))
    BY <1>4, <1>5, <1>7, <2>1, <2>2 DEF ScopeMoves
  <2> QED BY <1>2, <1>4, <1>6, <2>1, <2>2, <2>3, TopMoves
<1>8. CASE ~(f.aware /\ ~f.async)
  <2>1. frames' = SetTop(g, f) /\ active' = active
    BY <1>2, <1>8
  <2>2. ScopeMoves(g, f)
    BY <1>4, <1>5, <2>1 DEF ScopeMoves
  <2> QED BY <1>2, <1>4, <1>6, <2>1, <2>2, TopMoves
<1> QED BY <1>7, <1>8

LEMMA EscapeStep ==
  ASSUME DeferAssumption, DeferInv, NEW g \in G, Escape(g)
  PROVE  DeferInv'
<1>1. PICK u : u = IF Top(g).phase = "unwind" /\ ~Top(g).aware THEN Suppressed ELSE thrown[g]
  OBVIOUS
<1>2. /\ Turn(g) /\ frames[g] # <<>> /\ frames' = Pop(g) /\ active' = AfterLeave(Top(g))
      /\ thrown' = [thrown EXCEPT ![g] = u] /\ KeepsThread(g, Pop(g))
      /\ UNCHANGED <<calls, panics, stack>>
  BY <1>1 DEF Escape, Unwinding, DeferInv, DeferTypeOK
<1>3. thrown[g] \in DOMAIN panics \cup {None, Suppressed} /\ Suppressed \notin DOMAIN panics
  BY <1>2, TurnHolds, PanicNumbers DEF Sound, Errors
<1>4. u \in DOMAIN panics \cup {None, Suppressed} /\ (u \in DOMAIN panics => u = thrown[g])
  BY <1>1, <1>3
<1> QED BY <1>2, <1>4, TopLeaves

-----------------------------------------------------------------------------
(* The theorems. *)

LEMMA DeferInitial == DeferAssumption /\ DeferInit => DeferInv
<1> SUFFICES ASSUME DeferAssumption, DeferInit PROVE DeferInv
  OBVIOUS
<1>1. DeferTypeOK
  BY DEF DeferInit, DeferTypeOK, DeferAssumption, Error, None, Suppressed
<1>2. \A g \in G : Sound(g, frames[g], thrown[g], panics)
  BY DEF DeferInit, Sound, InsideOut, Errors, Apart, Scopes
<1>3. OpenScopes /\ ByOwner /\ Stacked
  BY DEF DeferInit, OpenScopes, ByOwner, Stacked
<1> QED BY <1>1, <1>2, <1>3 DEF DeferInv

LEMMA DeferStep == DeferAssumption /\ DeferInv /\ [DeferNext]_deferVars => DeferInv'
<1> SUFFICES ASSUME DeferAssumption, DeferInv, [DeferNext]_deferVars PROVE DeferInv'
  OBVIOUS
<1>1. CASE UNCHANGED deferVars
  BY <1>1 DEF DeferInv, DeferTypeOK, OpenScopes, ByOwner, Stacked, deferVars
<1>2. ASSUME NEW g \in G, NEW aware \in BOOLEAN, NEW async \in BOOLEAN,
             CallFunction(g, aware, async)
      PROVE  DeferInv'
  BY <1>2, CallFunctionStep
<1>3. ASSUME NEW g \in G, DeferFunction(g) PROVE DeferInv'
  BY <1>3, DeferFunctionStep
<1>4. ASSUME NEW g \in G, Panic(g) PROVE DeferInv'
  BY <1>4, PanicStep
<1>5. ASSUME NEW g \in G, Recover(g) PROVE DeferInv'
  BY <1>5, RecoverStep
<1>6. ASSUME NEW g \in G, Await(g) PROVE DeferInv'
  BY <1>6, AwaitStep
<1>7. ASSUME NEW g \in G, Return(g) PROVE DeferInv'
  BY <1>7, ReturnStep
<1>8. ASSUME NEW g \in G, RunDeferred(g) PROVE DeferInv'
  BY <1>8, RunDeferredStep
<1>9. ASSUME NEW g \in G, EndDeferred(g) PROVE DeferInv'
  BY <1>9, EndDeferredStep
<1>10. ASSUME NEW g \in G, EndDispose(g) PROVE DeferInv'
  BY <1>10, EndDisposeStep
<1>11. ASSUME NEW g \in G, EndUnwind(g) PROVE DeferInv'
  BY <1>11, EndUnwindStep
<1>12. ASSUME NEW g \in G, Catch(g) PROVE DeferInv'
  BY <1>12, CatchStep
<1>13. ASSUME NEW g \in G, Escape(g) PROVE DeferInv'
  BY <1>13, EscapeStep
<1>14. ASSUME NEW g \in G, ReturnBare(g) PROVE DeferInv'
  BY <1>14, ReturnBareStep
<1> QED BY <1>1, <1>2, <1>3, <1>4, <1>5, <1>6, <1>7, <1>8, <1>9, <1>10, <1>11, <1>12, <1>13, <1>14
        DEF DeferNext

LEMMA DeferInvariant == ASSUME DeferAssumption PROVE DeferSpec => []DeferInv
<1>1. DeferInit => DeferInv
  BY DeferInitial
<1>2. DeferInv /\ [DeferNext]_deferVars => DeferInv'
  BY DeferStep
<1> QED BY <1>1, <1>2, PTL DEF DeferSpec

\* However the panics, the recoveries and the awaits of the goroutines
\* interleave, recover() consumes a panic at most once and only in the
\* goroutine that raised it, a consumed panic unwinds no further frame, and
\* panicStack holds exactly the others.
THEOREM PanicsRecoveredOnce == DeferSpec => []RecoveredOnce
<1>1. DeferInv => RecoveredOnce
  <2> SUFFICES ASSUME DeferInv PROVE RecoveredOnce
    OBVIOUS
  <2>1. OwnPanicOnly
    BY DeferBounds DEF DeferInv, OpenScopes, ByOwner, OwnPanicOnly, DeferAssumption
  <2>2. \A g \in G : ~IsRecovered(thrown[g])
    BY DEF DeferInv, Sound, Errors, IsRecovered
  <2>3. \A x : x \in {stack[i] : i \in DOMAIN stack} <=> x \in {p \in DOMAIN panics : ~IsRecovered(p)}
    <3>1. stack \in Seq(DOMAIN panics)
      BY DEF DeferInv, DeferTypeOK
    <3>2. DOMAIN stack = 1..Len(stack) /\ \A i \in 1..Len(stack) : stack[i] \in DOMAIN panics
      BY <3>1
    <3>3. \A p \in DOMAIN panics : ~IsRecovered(p) <=> \E k \in 1..Len(stack) : stack[k] = p
      BY DEF DeferInv, Stacked, IsRecovered
    <3> QED BY <3>2, <3>3
  <2>4. {stack[i] : i \in DOMAIN stack} = {p \in DOMAIN panics : ~IsRecovered(p)}
    BY <2>3
  <2> QED BY <2>1, <2>2, <2>4 DEF RecoveredOnce, RecoveredStops, DeferInv
<1>2. DeferSpec => []DeferInv
  BY DeferInvariant, DeferBounds
<1> QED BY <1>1, <1>2, PTL

\* A frame is left with deferred functions that have not run only when one of
\* them threw, and an aware frame never while it runs those of its normal exit;
\* the one other way out is the plain return statement of an aware frame
\* (lowerReturnStmt, renderBodyWithDefer and the loops of defer.ts).
THEOREM DeferredFunctionsRun == DeferSpec => DeferredRun
<1> DEFINE Runs ==
      \A g \in G : LeavesUnrun(g) =>
        \/ Top(g).busy /\ (Top(g).aware => Top(g).phase = "unwind")
        \/ Top(g).aware /\ Top(g).phase = "body" /\ thrown[g] = None
<1>1. DeferInv /\ [DeferNext]_deferVars => [Runs]_deferVars
  <2> SUFFICES ASSUME DeferInv, DeferNext, NEW h \in G,
                      frames[h] # <<>>, frames'[h] = Pop(h)[h], Top(h).defers > 0
               PROVE  \/ Top(h).busy /\ (Top(h).aware => Top(h).phase = "unwind")
                      \/ Top(h).aware /\ Top(h).phase = "body" /\ thrown[h] = None
    BY DEF LeavesUnrun
  <2>1. /\ frames \in [G -> Seq(Frame)] /\ Len(frames[h]) \in Nat
        /\ Len(frames'[h]) = Len(frames[h]) - 1 /\ Len(frames'[h]) # Len(frames[h])
    <3>1. frames \in [G -> Seq(Frame)] /\ frames[h] \in Seq(Frame)
      BY DEF DeferInv, DeferTypeOK
    <3>2. Pop(h)[h] = SubSeq(frames[h], 1, Len(frames[h]) - 1)
      BY <3>1 DEF Pop
    <3>3. Len(frames'[h]) = Len(frames[h]) - 1 /\ Len(frames[h]) \in Nat
      BY <3>1, <3>2, FramesPopped
    <3> QED BY <3>1, <3>3
  <2>2. ASSUME NEW g \in G, Pop(g)[h] = frames'[h], frames' = Pop(g) PROVE g = h
    BY <2>1, <2>2 DEF Pop
  <2>3. ASSUME NEW g \in G, NEW f, frames' = SetTop(g, f) PROVE FALSE
    <3>1. Len(SetTop(g, f)[h]) = Len(frames[h])
      BY <2>1 DEF SetTop
    <3> QED BY <2>1, <2>3, <3>1
  <2>4. ASSUME frames' = frames PROVE FALSE
    BY <2>1, <2>4
  <2>5. ASSUME NEW g \in G, NEW aware \in BOOLEAN, NEW async \in BOOLEAN,
               CallFunction(g, aware, async)
        PROVE  FALSE
    <3> DEFINE f == [aware |-> aware, async |-> async, defers |-> 0, phase |-> "body",
                     busy |-> FALSE, err |-> None, scope |-> FALSE, prev |-> None]
    <3>0. f \in Frame
      BY DeferBounds DEF Frame, Error, None, Suppressed, DeferAssumption
    <3>1. frames' = [frames EXCEPT ![g] = Append(@, f)]
      BY <2>5 DEF CallFunction
    <3> HIDE DEF f
    <3>2. frames[h] \in Seq(Frame) /\ Len(Append(frames[h], f)) = Len(frames[h]) + 1
      BY <2>1, <3>0, FramesPushed
    <3>3. frames'[h] = frames[h] \/ frames'[h] = Append(frames[h], f)
      BY <2>1, <3>1
    <3> QED BY <2>1, <3>2, <3>3
  <2>6. ASSUME NEW g \in G, Await(g) PROVE FALSE
    <3>1. frames' = [frames EXCEPT ![g] = [i \in DOMAIN @ |-> Leave(@[i])]]
      BY <2>6 DEF Await
    <3>2. Len([i \in DOMAIN frames[h] |-> Leave(frames[h][i])]) = Len(frames[h])
      BY <2>1
    <3>3. Len(frames'[h]) = Len(frames[h])
      BY <2>1, <3>1, <3>2
    <3> QED BY <2>1, <3>3
  <2>7. ASSUME NEW g \in G, EndDispose(g) \/ EndUnwind(g) PROVE FALSE
    <3>1. frames' = Pop(g) /\ Top(g).defers = 0
      BY <2>7 DEF EndDispose, EndUnwind
    <3>2. g = h
      BY <2>2, <3>1
    <3> QED BY <3>1, <3>2
  <2>8. ASSUME NEW g \in G, Escape(g)
        PROVE  Top(h).busy /\ (Top(h).aware => Top(h).phase = "unwind")
    <3>1. frames' = Pop(g) /\ thrown[g] # None
          /\ (Top(g).phase = "unwind" \/ (Top(g).phase = "dispose" /\ ~Top(g).aware))
      BY <2>8 DEF Escape, Unwinding
    <3>2. g = h
      BY <2>2, <3>1
    <3>3. Top(h).phase = "body" \/ Top(h).busy
      BY <3>1, <3>2, TopIs, DeferBounds DEF DeferInv, Sound, InsideOut
    <3> QED BY <3>1, <3>2, <3>3
  <2>9. ASSUME NEW g \in G, DeferFunction(g) \/ Return(g) \/ EndDeferred(g) PROVE FALSE
    BY <2>3, <2>9 DEF DeferFunction, Return, EndDeferred
  <2>10. ASSUME NEW g \in G, RunDeferred(g) \/ Catch(g) PROVE FALSE
    BY <2>3, <2>10 DEF RunDeferred, Catch
  <2>11. ASSUME NEW g \in G, Panic(g) \/ Recover(g) PROVE FALSE
    BY <2>4, <2>11 DEF Panic, Recover
  <2>12. ASSUME NEW g \in G, ReturnBare(g)
         PROVE  Top(h).aware /\ Top(h).phase = "body" /\ thrown[h] = None
    <3>1. /\ frames' = Pop(g) /\ Top(g).aware /\ Top(g).phase = "body" /\ thrown[g] = None
      BY <2>12 DEF ReturnBare, InCode
    <3>2. g = h
      BY <2>2, <3>1
    <3> QED BY <3>1, <3>2
  <2> QED BY <2>5, <2>6, <2>7, <2>8, <2>9, <2>10, <2>11, <2>12 DEF DeferNext
<1>2. DeferSpec => []DeferInv
  BY DeferInvariant, DeferBounds
<1>3. DeferSpec => [][DeferNext]_deferVars
  BY PTL DEF DeferSpec
<1>4. DeferSpec => [][Runs]_deferVars
  BY <1>1, <1>2, <1>3, PTL
<1> QED BY <1>4 DEF DeferredRun
=============================================================================
