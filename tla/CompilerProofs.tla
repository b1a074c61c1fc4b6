--------------------------- MODULE CompilerProofs ---------------------------
(***************************************************************************)
(* Theorems about the Go side (MCCompiler): a compilation through the      *)
(* cache is as fresh as one without it, the chosen async functions agree   *)
(* with the calls that wait, and the verdicts of the test runner are true. *)
(* Each comes from an inductive invariant of its part, for every number of *)
(* compilers, files, functions, methods and packages.                      *)
(***************************************************************************)
EXTENDS MCCompiler, SequenceFacts, FiniteSetTheorems


-----------------------------------------------------------------------------
(* The cache.                                                              *)

Gen == {"a", "b"}
Ovr == {"o"}

LEMMA PackagesAre ==
  /\ C!ToSet(<<"a", "b">>) = Gen /\ C!ToSet(<<"o">>) = Ovr
  /\ C!Packages = Gen \cup Ovr /\ Gen \cap Ovr = {}
  /\ C!Files = (Gen \cup Ovr) \X (1..NFiles)
<1>1. C!ToSet(<<"a", "b">>) = Gen /\ C!ToSet(<<"o">>) = Ovr
  BY DEF C!ToSet, Gen, Ovr
<1>2. C!Packages = Gen \cup Ovr /\ Gen \cap Ovr = {}
  BY <1>1 DEF C!Packages, Gen, Ovr
<1> QED BY <1>1, <1>2 DEF C!Files

\* The file d is x, made from these sources; and if nothing has changed that is in
\* no key, it says of the rest what there was in the beginning.
Fits(d, x, from, w) ==
  /\ d = [of |-> x, from |-> from, rest |-> d.rest]
  /\ C!Untouched(w) => d.rest = <<0, 0>>

\* A key names the sources: two sets of inputs with the same sources give a package
\* the same key, and its files are made from what the key says.
LEMMA KeyNamesContents ==
  ASSUME NEW p \in C!Packages, NEW u, NEW w, u.src = w.src, u.ts = w.ts,
         NEW f \in 1..NFiles
  PROVE  C!Key(p, u)[1] = p /\ C!Key(p, u)[3] = C!Sources(<<p, f>>, w)
<1> DEFINE x == <<p, f>>
<1>x. x[1] = p
  OBVIOUS
<1> HIDE DEF x
<1>1. CASE p \in Gen
  <2>1. C!Key(p, u) = <<p, "generated", C!NodeDigest(p, u.src)>>
    BY <1>1, PackagesAre DEF C!Key
  <2>2. C!Sources(x, w) = C!NodeDigest(p, w.src)
    BY <1>1, <1>x, PackagesAre DEF C!Sources, C!NodeDigest
  <2>3. C!NodeDigest(p, u.src) = C!NodeDigest(p, w.src)
    OBVIOUS
  <2> QED BY <2>1, <2>2, <2>3 DEF x
<1>2. CASE p \notin Gen
  <2>1. C!Key(p, u) = <<p, "copied", u.ts[p]>>
    BY <1>2, PackagesAre DEF C!Key
  <2>2. C!Sources(x, w) = w.ts[p]
    BY <1>2, <1>x, PackagesAre DEF C!Sources
  <2> QED BY <2>1, <2>2 DEF x
<1> QED BY <1>1, <1>2

\* What a compilation makes fits.
LEMMA MadeFits ==
  ASSUME NEW x, NEW w
  PROVE  Fits(C!Contents(x, w), x, C!Sources(x, w), w)
BY DEF Fits, C!Contents, C!Rest, C!Untouched

LEMMA FilesAre ==
  ASSUME NEW x \in C!Files
  PROVE  x[1] \in C!Packages /\ x[2] \in 1..NFiles /\ x = <<x[1], x[2]>>
BY PackagesAre

LEMMA OneOrMore ==
  ASSUME NEW n \in 1..3 PROVE n = 1 \/ n >= 2
OBVIOUS

\* One list behind another.
Join(u, v) == u \o v

\* Three lists in one, or fewer.
LEMMA Flattened ==
  ASSUME NEW Q, NEW s \in Seq(Seq(Q)), Len(s) \in 1..3
  PROVE  /\ C!FlattenSeq(s) \in Seq(Q)
         /\ \A i \in 1..Len(s) : ToSet(s[i]) \subseteq ToSet(C!FlattenSeq(s))
<1> DEFINE Flat(f) == f = [i \in 1..Len(s) |-> IF i = 1 THEN s[i] ELSE Join(f[i - 1], s[i])]
           h == [i \in 1..Len(s) |-> IF i = 1 THEN s[1] ELSE IF i = 2 THEN Join(s[1], s[2])
                                     ELSE Join(Join(s[1], s[2]), s[3])]
           g == CHOOSE f : Flat(f)
<1>1. Flat(h)
  <2>1. ASSUME NEW i \in 1..Len(s)
        PROVE  h[i] = IF i = 1 THEN s[i] ELSE Join(h[i - 1], s[i])
    <3>1. CASE i = 1
      BY <3>1
    <3>2. CASE i = 2
      <4>1. h[1] = s[1] /\ h[2] = Join(s[1], s[2]) /\ i - 1 = 1
        BY <3>2
      <4> HIDE DEF h
      <4> QED BY <3>2, <4>1
    <3>3. CASE i = 3
      <4>1. h[2] = Join(s[1], s[2]) /\ h[3] = Join(Join(s[1], s[2]), s[3]) /\ i - 1 = 2
        BY <3>3
      <4> HIDE DEF h
      <4> QED BY <3>3, <4>1
    <3> QED BY <3>1, <3>2, <3>3
  <2>2. h = [i \in 1..Len(s) |-> h[i]]
    OBVIOUS
  <2> HIDE DEF h
  <2> QED BY <2>1, <2>2
<1> HIDE DEF h
<1>2. Flat(g)
  <2> HIDE DEF Flat
  <2> QED BY <1>1
<1>3. C!FlattenSeq(s) = g[Len(s)]
  BY DEF C!FlattenSeq, Join
<1> HIDE DEF g
<1>4. ASSUME NEW i \in 1..Len(s) PROVE g[i] = IF i = 1 THEN s[i] ELSE Join(g[i - 1], s[i])
  BY <1>2
<1> HIDE DEF Flat
<1>5. \A i \in 1..Len(s) : s[i] \in Seq(Q)
  OBVIOUS
<1>6. g[1] = s[1] /\ g[1] \in Seq(Q)
  BY <1>4, <1>5
<1>7. CASE Len(s) = 1
  BY <1>3, <1>6, <1>7
<1>8. CASE Len(s) >= 2
  <2> PICK v2 : v2 = g[2]
    OBVIOUS
  <2> PICK v1 \in Seq(Q) : v1 = s[1]
    BY <1>6
  <2> PICK w2 \in Seq(Q) : w2 = s[2]
    BY <1>5, <1>8
  <2>1. v2 = Join(v1, w2)
    <3>1. 2 \in 1..Len(s) /\ 2 - 1 = 1
      BY <1>8
    <3> QED BY <1>4, <1>6, <3>1
  <2>2. v2 \in Seq(Q) /\ ToSet(v2) = ToSet(v1) \cup ToSet(w2)
    BY <2>1, SetOfConcat, ConcatParts DEF Join
  <2>3. CASE Len(s) = 2
    <3>1. \A i \in 1..Len(s) : i = 1 \/ i = 2
      BY <2>3
    <3> QED BY <1>3, <2>2, <2>3, <3>1
  <2>4. CASE Len(s) = 3
    <3> PICK w3 \in Seq(Q) : w3 = s[3]
      BY <1>5, <2>4
    <3> PICK v3 : v3 = g[3]
      OBVIOUS
    <3>1. v3 = Join(v2, w3)
      <4>1. 3 \in 1..Len(s) /\ 3 - 1 = 2
        BY <2>4
      <4> QED BY <1>4, <4>1
    <3>2. v3 \in Seq(Q) /\ ToSet(v3) = ToSet(v2) \cup ToSet(w3)
      BY <2>2, <3>1, SetOfConcat, ConcatParts DEF Join
    <3>3. \A i \in 1..Len(s) : i = 1 \/ i = 2 \/ i = 3
      BY <2>4
    <3> QED BY <1>3, <2>2, <2>4, <3>2, <3>3
  <2> QED BY <1>8, <2>3, <2>4
<1>9. Len(s) = 1 \/ Len(s) >= 2
  BY OneOrMore
<1> QED BY <1>7, <1>8, <1>9

\* The files of a list of packages, each in its place.
LEMMA FilesListed ==
  ASSUME NEW pkgs \in Seq(C!Packages), Len(pkgs) \in 1..3
  PROVE  /\ C!FileList(pkgs) \in Seq(C!Files)
         /\ \A i \in 1..Len(pkgs) : \A f \in 1..NFiles : <<pkgs[i], f>> \in ToSet(C!FileList(pkgs))
<1> DEFINE s == [i \in DOMAIN pkgs |-> [f \in 1..NFiles |-> <<pkgs[i], f>>]]
<1>1. DOMAIN pkgs = 1..Len(pkgs) /\ NFiles \in Nat
  BY CompilerAssumption
<1>2. ASSUME NEW i \in 1..Len(pkgs)
      PROVE  /\ s[i] \in Seq(C!Files)
             /\ \A f \in 1..NFiles : <<pkgs[i], f>> \in ToSet(s[i])
  <2>1. pkgs[i] \in C!Packages
    OBVIOUS
  <2>2. s[i] = [f \in 1..NFiles |-> <<pkgs[i], f>>]
    BY <1>1
  <2> PICK v : v = s[i]
    OBVIOUS
  <2> HIDE DEF s
  <2>3. v \in [1..NFiles -> C!Files]
    BY <2>1, <2>2 DEF C!Files
  <2>4. v \in Seq(C!Files) /\ Len(v) = NFiles
    BY <1>1, <2>3
  <2>5. \A f \in 1..NFiles : v[f] = <<pkgs[i], f>>
    BY <2>2
  <2>6. \A f \in 1..NFiles : v[f] \in ToSet(v)
    BY <2>4, SetOfSeq
  <2> QED BY <2>4, <2>5, <2>6
<1>3. s \in Seq(Seq(C!Files)) /\ Len(s) = Len(pkgs)
  <2>1. s \in [1..Len(pkgs) -> Seq(C!Files)] /\ Len(pkgs) \in Nat
    BY <1>1, <1>2
  <2> HIDE DEF s
  <2> QED BY <2>1
<1>4. C!FileList(pkgs) = C!FlattenSeq(s)
  BY DEF C!FileList
<1> HIDE DEF s
<1>5. Len(s) \in 1..3
  BY <1>3
<1>6. /\ C!FlattenSeq(s) \in Seq(C!Files)
      /\ \A i \in 1..Len(s) : ToSet(s[i]) \subseteq ToSet(C!FlattenSeq(s))
  BY <1>3, <1>5, Flattened
<1> QED BY <1>2, <1>3, <1>4, <1>6

LEMMA ListsAre ==
  /\ C!FileList(<<"a", "b">>) \in Seq(C!Files)
  /\ C!FileList(<<"o">>) \in Seq(C!Files)
  /\ C!FileList(<<"a", "b">> \o <<"o">>) \in Seq(C!Files)
  /\ C!Files \subseteq ToSet(C!FileList(<<"a", "b">> \o <<"o">>))
<1> PICK gen : gen = <<"a", "b">>
  OBVIOUS
<1> PICK ovr : ovr = <<"o">>
  OBVIOUS
<1> PICK all : all = gen \o ovr
  OBVIOUS
<1>1. "a" \in C!Packages /\ "b" \in C!Packages /\ "o" \in C!Packages
  BY PackagesAre DEF Gen, Ovr
<1>2. /\ gen \in Seq(C!Packages) /\ Len(gen) = 2
      /\ ovr \in Seq(C!Packages) /\ Len(ovr) = 1
      /\ gen[1] = "a" /\ gen[2] = "b" /\ ovr[1] = "o"
  BY <1>1
<1>3. /\ all \in Seq(C!Packages) /\ Len(all) = 3
      /\ all[1] = "a" /\ all[2] = "b" /\ all[3] = "o"
  BY <1>2, ConcatParts
<1>4. Len(all) \in 1..3 /\ Len(gen) \in 1..3 /\ Len(ovr) \in 1..3
  BY <1>2, <1>3
<1>5. /\ C!FileList(all) \in Seq(C!Files) /\ C!FileList(gen) \in Seq(C!Files)
      /\ C!FileList(ovr) \in Seq(C!Files)
  BY <1>2, <1>3, <1>4, FilesListed
<1>6. ASSUME NEW x \in C!Files PROVE x \in ToSet(C!FileList(all))
  <2>1. x[1] \in {"a", "b", "o"} /\ x[2] \in 1..NFiles /\ x = <<x[1], x[2]>>
    BY FilesAre, PackagesAre DEF Gen, Ovr
  <2>2. PICK i \in 1..Len(all) : all[i] = x[1]
    BY <1>3, <2>1
  <2>3. <<all[i], x[2]>> \in ToSet(C!FileList(all))
    BY <1>3, <1>4, <2>1, FilesListed
  <2> QED BY <2>1, <2>2, <2>3
<1> QED BY <1>5, <1>6

\* What is true of a compiler: j is its job, o its output directory, w the
\* inputs.  What it has read is what the inputs are, and the files it need not
\* touch any more are what a compilation without a cache leaves.
Right(o, w, x) == o[x] = C!Contents(x, w)
Sourced(o, w, x) == Fits(o[x], x, C!Sources(x, w), w)

Fields == {"pc", "fast", "asked", "facts", "keys", "loaded", "todo"}
Compiling == {"emit", "store", "storecopied"}

HasRead(j, w) ==
  /\ j.facts # NoEntry \/ j.pc # "idle" => j.facts = [ts |-> w.ts, meta |-> w.meta]
  /\ j.loaded # NoEntry \/ j.pc \in Compiling => j.loaded = [src |-> w.src, graph |-> w.graph]
  /\ j.pc = "idle" => j.loaded = NoEntry
  /\ j.pc \in Compiling \cup {"replay"} => j.keys = [src |-> w.src, ts |-> w.ts]

HasWritten(j, o, w) ==
  /\ j.pc \in {"replay", "store", "storecopied"} => j.todo \in Seq(C!Files)
  /\ j.pc = "replay" => \A x \in C!Files : x \in ToSet(j.todo) \/ Sourced(o, w, x)
  /\ j.pc = "replayed" => \A x \in C!Files : Sourced(o, w, x)
  /\ j.pc = "store" => \A x \in C!Files : x[1] \in Gen => Right(o, w, x)
  /\ j.pc \in {"storecopied", "done"} => \A x \in C!Files : Right(o, w, x)

JobTrue(j, o, w) == DOMAIN j = Fields /\ HasRead(j, w) /\ HasWritten(j, o, w)

WorldTrue(w) ==
  w = [src |-> w.src, ts |-> w.ts, graph |-> w.graph, meta |-> w.meta] /\ w.graph \in Nat /\ w.meta \in Nat
Belongs(m, k, w) == \A f \in 1..NFiles : Fits(m[f], <<k[1], f>>, k[3], w)
EntriesTrue(e, w) == \A k \in DOMAIN e : Belongs(e[k], k, w)
OutShaped(o) == DOMAIN o = Compilers /\ \A c \in Compilers : DOMAIN o[c] = C!Files

CacheInv ==
  /\ WorldTrue(world)
  /\ EntriesTrue(entries, world)
  /\ OutShaped(out)
  /\ DOMAIN job = Compilers
  /\ \A c \in Compilers : JobTrue(job[c], out[c], world)

\* A step of one compiler.
Others(c, f, g) == DOMAIN g = DOMAIN f /\ \A d \in DOMAIN f \ {c} : g[d] = f[d]

LEMMA OneSteps ==
  ASSUME CacheInv, NEW c \in Compilers, world' = world, Others(c, job, job'),
         Others(c, out, out'), DOMAIN out'[c] = C!Files,
         entries' = entries \/ EntriesTrue(entries', world),
         JobTrue(job'[c], out'[c], world)
  PROVE  CacheInv'
<1>1. \A d \in Compilers : JobTrue(job'[d], out'[d], world)
  BY DEF CacheInv, Others, OutShaped
<1>2. OutShaped(out') /\ DOMAIN job' = Compilers /\ WorldTrue(world) /\ EntriesTrue(entries', world)
  BY DEF CacheInv, Others, OutShaped
<1> QED BY <1>1, <1>2 DEF CacheInv

LEMMA Same ==
  ASSUME CacheInv, NEW c \in Compilers, UNCHANGED out
  PROVE  Others(c, out, out') /\ DOMAIN out'[c] = C!Files /\ out'[c] = out[c]
BY DEF CacheInv, Others, OutShaped

\* What C!Go leaves and changes.
LEMMA Gone ==
  ASSUME CacheInv, NEW c \in Compilers, NEW h, C!Go(c, h)
  PROVE  /\ Others(c, job, job')
         /\ DOMAIN job'[c] = Fields
         /\ \A k \in Fields : job'[c][k] = IF k \in DOMAIN h THEN h[k] ELSE job[c][k]
<1>1. DOMAIN job[c] = Fields /\ c \in DOMAIN job
  BY DEF CacheInv, JobTrue
<1>2. job' = [job EXCEPT ![c] = C!With(job[c], h)]
  BY DEF C!Go
<1>3. Others(c, job, job') /\ job'[c] = C!With(job[c], h)
  BY <1>1, <1>2 DEF Others
<1> QED BY <1>1, <1>3 DEF C!With

\* What a compiler that has read everything works from is what there is.
LEMMA InputsAre ==
  ASSUME NEW j, NEW w, WorldTrue(w), HasRead(j, w), j.pc \in Compiling
  PROVE  C!Inputs(j) = w
BY DEF C!Inputs, WorldTrue, HasRead, Compiling

LEMMA Named ==
  ASSUME NEW j, NEW w, WorldTrue(w), HasRead(j, w), j.pc \in Compiling \cup {"replay"},
         NEW x \in C!Files
  PROVE  C!Key(x[1], j.keys)[1] = x[1] /\ C!Key(x[1], j.keys)[3] = C!Sources(x, w)
<1> PICK u : u = j.keys
  OBVIOUS
<1>1. u.src = w.src /\ u.ts = w.ts
  BY DEF WorldTrue, HasRead
<1> PICK p, f : p = x[1] /\ f = x[2]
  OBVIOUS
<1>2. p \in C!Packages /\ f \in 1..NFiles /\ x = <<p, f>>
  BY FilesAre
<1> QED BY <1>1, <1>2, KeyNamesContents

-----------------------------------------------------------------------------
(* The steps.                                                              *)

LEMMA CacheStarts == C!CacheInit => CacheInv
<1> SUFFICES ASSUME C!CacheInit PROVE CacheInv
  OBVIOUS
<1>1. WorldTrue(world)
  <2>1. world.graph = 0 /\ world.meta = 0
    BY DEF C!CacheInit
  <2>2. world = [src |-> world.src, ts |-> world.ts, graph |-> world.graph, meta |-> world.meta]
    BY DEF C!CacheInit
  <2> QED BY <2>1, <2>2 DEF WorldTrue
<1>2. EntriesTrue(entries, world)
  BY DEF C!CacheInit, EntriesTrue
<1>3. OutShaped(out)
  BY DEF C!CacheInit, OutShaped
<1>4. DOMAIN job = Compilers
  BY DEF C!CacheInit
<1>5. ASSUME NEW c \in Compilers PROVE JobTrue(job[c], out[c], world)
  <2>1. job[c] = C!Idle
    BY DEF C!CacheInit
  <2>2. DOMAIN C!Idle = Fields /\ C!Idle.pc = "idle" /\ C!Idle.facts = NoEntry
        /\ C!Idle.loaded = NoEntry
    BY DEF C!Idle, Fields
  <2> QED BY <2>1, <2>2 DEF JobTrue, HasRead, HasWritten, Compiling
<1> QED BY <1>1, <1>2, <1>3, <1>4, <1>5 DEF CacheInv

LEMMA BeginKeeps ==
  ASSUME CacheInv, NEW c \in Compilers, NEW fast \in BOOLEAN, C!Begin(c, fast)
  PROVE  CacheInv'
<1> PICK j : j = job[c]
  OBVIOUS
<1> PICK i : i = job'[c]
  OBVIOUS
<1> PICK h : h = [pc |-> IF fast THEN "entries" ELSE "load", fast |-> fast,
                  asked |-> world, facts |-> C!Facts(j)]
  OBVIOUS
<1>1. C!Go(c, h) /\ j.pc = "idle" /\ UNCHANGED <<world, entries, out>>
  BY DEF C!Begin
<1>2. Others(c, job, job') /\ DOMAIN i = Fields
      /\ \A k \in Fields : i[k] = IF k \in DOMAIN h THEN h[k] ELSE j[k]
  BY <1>1, Gone
<1>3. JobTrue(j, out[c], world)
  BY DEF CacheInv
<1>4. i.pc \in {"entries", "load"} /\ i.facts = C!Facts(j) /\ i.loaded = j.loaded
  BY <1>2 DEF Fields
<1>5. C!Facts(j) = [ts |-> world.ts, meta |-> world.meta]
  BY <1>3 DEF C!Facts, JobTrue, HasRead
<1>6. HasRead(i, world)
  BY <1>1, <1>3, <1>4, <1>5 DEF JobTrue, HasRead, Compiling
<1>7. HasWritten(i, out[c], world)
  BY <1>4 DEF HasWritten
<1> QED BY <1>1, <1>2, <1>6, <1>7, OneSteps, Same DEF JobTrue

LEMMA LoadKeeps ==
  ASSUME CacheInv, NEW c \in Compilers, C!Load(c)
  PROVE  CacheInv'
<1> PICK j : j = job[c]
  OBVIOUS
<1> PICK i : i = job'[c]
  OBVIOUS
<1> PICK h : h = [pc |-> "entries", loaded |-> [src |-> world.src, graph |-> world.graph]]
  OBVIOUS
<1>1. C!Go(c, h) /\ j.pc = "load" /\ UNCHANGED <<world, entries, out>>
  BY DEF C!Load
<1>2. Others(c, job, job') /\ DOMAIN i = Fields
      /\ \A k \in Fields : i[k] = IF k \in DOMAIN h THEN h[k] ELSE j[k]
  BY <1>1, Gone
<1>3. JobTrue(j, out[c], world)
  BY DEF CacheInv
<1>4. i.pc = "entries" /\ i.facts = j.facts /\ i.loaded = [src |-> world.src, graph |-> world.graph]
  BY <1>2 DEF Fields
<1>5. HasRead(i, world)
  BY <1>1, <1>3, <1>4 DEF JobTrue, HasRead, Compiling
<1>6. HasWritten(i, out[c], world)
  BY <1>4 DEF HasWritten
<1> QED BY <1>1, <1>2, <1>5, <1>6, OneSteps, Same DEF JobTrue

LEMMA EntriesKeeps ==
  ASSUME CacheInv, NEW c \in Compilers, C!Entries(c)
  PROVE  CacheInv'
<1> PICK j : j = job[c]
  OBVIOUS
<1> PICK i : i = job'[c]
  OBVIOUS
<1> PICK all : all = C!FileList(<<"a", "b">> \o <<"o">>)
  OBVIOUS
<1> PICK h : h = [keys |-> [src |-> world.src, ts |-> j.facts.ts],
                  pc   |-> IF j.fast /\ j.loaded # NoEntry THEN "emit" ELSE "replay",
                  todo |-> all]
  OBVIOUS
<1>1. C!Go(c, h) /\ j.pc = "entries" /\ UNCHANGED <<world, entries, out>>
  BY DEF C!Entries
<1>2. Others(c, job, job') /\ DOMAIN i = Fields
      /\ \A k \in Fields : i[k] = IF k \in DOMAIN h THEN h[k] ELSE j[k]
  BY <1>1, Gone
<1>3. JobTrue(j, out[c], world)
  BY DEF CacheInv
<1>4. /\ i.pc = "replay" \/ (i.pc = "emit" /\ j.loaded # NoEntry)
      /\ i.facts = j.facts /\ i.loaded = j.loaded
      /\ i.keys = [src |-> world.src, ts |-> j.facts.ts] /\ i.todo = all
  BY <1>2 DEF Fields
<1>5. HasRead(i, world)
  <2>1. j.facts = [ts |-> world.ts, meta |-> world.meta]
    BY <1>1, <1>3 DEF JobTrue, HasRead
  <2>2. i.keys = [src |-> world.src, ts |-> world.ts]
    BY <1>4, <2>1
  <2>3. j.loaded # NoEntry => j.loaded = [src |-> world.src, graph |-> world.graph]
    BY <1>3 DEF JobTrue, HasRead
  <2> QED BY <1>4, <2>1, <2>2, <2>3 DEF HasRead, Compiling
<1>6. HasWritten(i, out[c], world)
  <2>1. all \in Seq(C!Files) /\ \A x \in C!Files : x \in ToSet(all)
    BY ListsAre
  <2> QED BY <1>4, <2>1 DEF HasWritten
<1> QED BY <1>1, <1>2, <1>5, <1>6, OneSteps, Same DEF JobTrue

LEMMA ReplayMissKeeps ==
  ASSUME CacheInv, NEW c \in Compilers, C!ReplayMiss(c)
  PROVE  CacheInv'
<1> PICK j : j = job[c]
  OBVIOUS
<1> PICK i : i = job'[c]
  OBVIOUS
<1> PICK h : h = [pc |-> IF j.loaded = NoEntry THEN "load" ELSE "emit"]
  OBVIOUS
<1>1. C!Go(c, h) /\ j.pc = "replay" /\ UNCHANGED <<world, entries, out>>
  BY DEF C!ReplayMiss
<1>2. Others(c, job, job') /\ DOMAIN i = Fields
      /\ \A k \in Fields : i[k] = IF k \in DOMAIN h THEN h[k] ELSE j[k]
  BY <1>1, Gone
<1>3. JobTrue(j, out[c], world)
  BY DEF CacheInv
<1>4. /\ i.pc = "load" \/ (i.pc = "emit" /\ j.loaded # NoEntry)
      /\ i.facts = j.facts /\ i.loaded = j.loaded /\ i.keys = j.keys
  BY <1>2 DEF Fields
<1>5. HasRead(i, world)
  BY <1>1, <1>3, <1>4 DEF JobTrue, HasRead, Compiling
<1>6. HasWritten(i, out[c], world)
  BY <1>4 DEF HasWritten
<1> QED BY <1>1, <1>2, <1>5, <1>6, OneSteps, Same DEF JobTrue

LEMMA ReplayFileKeeps ==
  ASSUME CacheInv, NEW c \in Compilers, C!ReplayFile(c)
  PROVE  CacheInv'
<1> PICK j : j = job[c]
  OBVIOUS
<1> PICK i : i = job'[c]
  OBVIOUS
<1> PICK s : s = j.todo
  OBVIOUS
<1> PICK x : x = Head(s)
  OBVIOUS
<1> PICK d : d = C!Replayed(c, x)
  OBVIOUS
<1> PICK h : h = [todo |-> Tail(s), pc |-> IF Len(s) = 1 THEN "replayed" ELSE "replay"]
  OBVIOUS
<1>1. /\ C!Go(c, h) /\ j.pc = "replay" /\ s # <<>> /\ C!Usable(c, x)
      /\ out' = [out EXCEPT ![c][x] = d] /\ UNCHANGED <<world, entries>>
  BY DEF C!ReplayFile
<1>2. Others(c, job, job') /\ DOMAIN i = Fields
      /\ \A k \in Fields : i[k] = IF k \in DOMAIN h THEN h[k] ELSE j[k]
  BY <1>1, Gone
<1>3. JobTrue(j, out[c], world) /\ WorldTrue(world) /\ EntriesTrue(entries, world) /\ OutShaped(out)
  BY DEF CacheInv
<1>4. /\ i.pc = IF Len(s) = 1 THEN "replayed" ELSE "replay"
      /\ i.facts = j.facts /\ i.loaded = j.loaded /\ i.keys = j.keys /\ i.todo = Tail(s)
  BY <1>2 DEF Fields
<1>5. HasRead(i, world)
  BY <1>1, <1>3, <1>4 DEF JobTrue, HasRead, Compiling
<1>6. s \in Seq(C!Files)
  BY <1>1, <1>3 DEF JobTrue, HasWritten
<1>7. /\ x \in C!Files /\ Tail(s) \in Seq(C!Files)
      /\ ToSet(s) = ToSet(Tail(s)) \cup {x}
  BY <1>1, <1>6, SetOfSeq
<1>8. Fits(d, x, C!Sources(x, world), world)
  <2>1. HasRead(j, world)
    BY <1>3 DEF JobTrue
  <2> PICK k : k = C!Key(x[1], j.keys)
    OBVIOUS
  <2>2. k[1] = x[1] /\ k[3] = C!Sources(x, world)
    BY <1>1, <1>3, <1>7, <2>1, Named
  <2>3. C!Manifest(c, x) = IF k \in DOMAIN entries THEN entries[k] ELSE NoEntry
    BY DEF C!Manifest
  <2>4. k \in DOMAIN entries /\ C!Manifest(c, x) = entries[k]
    BY <1>1, <2>3 DEF C!Usable
  <2>5. d = entries[k][x[2]]
    BY <1>1, <2>4 DEF C!Usable, C!Replayed
  <2>6. x[2] \in 1..NFiles /\ x = <<x[1], x[2]>>
    BY <1>7, FilesAre
  <2>7. Fits(d, <<k[1], x[2]>>, k[3], world)
    BY <1>3, <2>4, <2>5, <2>6 DEF EntriesTrue, Belongs
  <2> QED BY <2>2, <2>6, <2>7
<1>9. /\ Others(c, out, out') /\ DOMAIN out'[c] = C!Files
      /\ out'[c][x] = d /\ \A y \in C!Files \ {x} : out'[c][y] = out[c][y]
  BY <1>1, <1>3, <1>7 DEF Others, OutShaped
<1>10. ASSUME NEW y \in C!Files PROVE y \in ToSet(Tail(s)) \/ Sourced(out'[c], world, y)
  <2>1. CASE y = x
    BY <1>8, <1>9, <2>1 DEF Sourced
  <2>2. CASE y # x
    BY <1>1, <1>3, <1>7, <1>9, <2>2 DEF Sourced, JobTrue, HasWritten
  <2> QED BY <2>1, <2>2
<1>11. Len(s) = 1 => ToSet(Tail(s)) = {}
  <2>1. Len(s) = 1 => Tail(s) = <<>>
    BY <1>6
  <2> QED BY <2>1, <1>7, SetOfSeq
<1>12. HasWritten(i, out'[c], world)
  BY <1>4, <1>7, <1>10, <1>11 DEF HasWritten
<1> QED BY <1>1, <1>2, <1>5, <1>9, <1>12, OneSteps DEF JobTrue

LEMMA EmitKeeps ==
  ASSUME CacheInv, NEW c \in Compilers, C!Emit(c)
  PROVE  CacheInv'
<1> PICK j : j = job[c]
  OBVIOUS
<1> PICK i : i = job'[c]
  OBVIOUS
<1> PICK gen : gen = C!FileList(<<"a", "b">>)
  OBVIOUS
<1> PICK h : h = [pc |-> "store", todo |-> gen]
  OBVIOUS
<1> PICK o : o = [x \in C!Files |-> IF x[1] \in Gen THEN C!Contents(x, C!Inputs(j)) ELSE out[c][x]]
  OBVIOUS
<1>1. C!Go(c, h) /\ j.pc = "emit" /\ UNCHANGED <<world, entries>>
  BY DEF C!Emit
<1>2. out' = [out EXCEPT ![c] = o]
  BY PackagesAre DEF C!Emit
<1>3. Others(c, job, job') /\ DOMAIN i = Fields
      /\ \A k \in Fields : i[k] = IF k \in DOMAIN h THEN h[k] ELSE j[k]
  BY <1>1, Gone
<1>4. JobTrue(j, out[c], world) /\ WorldTrue(world) /\ OutShaped(out)
  BY DEF CacheInv
<1>5. /\ i.pc = "store" /\ i.facts = j.facts /\ i.loaded = j.loaded /\ i.keys = j.keys
      /\ i.todo = gen
  BY <1>3 DEF Fields
<1>6. HasRead(i, world)
  BY <1>1, <1>4, <1>5 DEF JobTrue, HasRead, Compiling
<1>7. C!Inputs(j) = world
  BY <1>1, <1>4, InputsAre DEF JobTrue, Compiling
<1>8. Others(c, out, out') /\ out'[c] = o
  BY <1>2, <1>4 DEF Others, OutShaped
<1>9. DOMAIN o = C!Files /\ \A x \in C!Files : x[1] \in Gen => Right(o, world, x)
  BY <1>7 DEF Right
<1>10. HasWritten(i, o, world)
  BY <1>5, <1>9, ListsAre DEF HasWritten
<1> QED BY <1>1, <1>3, <1>6, <1>8, <1>9, <1>10, OneSteps DEF JobTrue

LEMMA CopyKeeps ==
  ASSUME CacheInv, NEW c \in Compilers, C!CopyPackages(c)
  PROVE  CacheInv'
<1> PICK j : j = job[c]
  OBVIOUS
<1> PICK i : i = job'[c]
  OBVIOUS
<1> PICK ovr : ovr = C!FileList(<<"o">>)
  OBVIOUS
<1> PICK h : h = [pc |-> "storecopied", todo |-> ovr]
  OBVIOUS
<1> PICK o : o = [x \in C!Files |-> IF x[1] \in Ovr THEN C!Contents(x, C!Inputs(j)) ELSE out[c][x]]
  OBVIOUS
<1>1. C!Go(c, h) /\ j.pc = "store" /\ UNCHANGED <<world, entries>>
  BY DEF C!CopyPackages
<1>2. out' = [out EXCEPT ![c] = o]
  BY PackagesAre DEF C!CopyPackages
<1>3. Others(c, job, job') /\ DOMAIN i = Fields
      /\ \A k \in Fields : i[k] = IF k \in DOMAIN h THEN h[k] ELSE j[k]
  BY <1>1, Gone
<1>4. JobTrue(j, out[c], world) /\ WorldTrue(world) /\ OutShaped(out)
  BY DEF CacheInv
<1>5. /\ i.pc = "storecopied" /\ i.facts = j.facts /\ i.loaded = j.loaded /\ i.keys = j.keys
      /\ i.todo = ovr
  BY <1>3 DEF Fields
<1>6. HasRead(i, world)
  BY <1>1, <1>4, <1>5 DEF JobTrue, HasRead, Compiling
<1>7. C!Inputs(j) = world
  BY <1>1, <1>4, InputsAre DEF JobTrue, Compiling
<1>8. Others(c, out, out') /\ out'[c] = o
  BY <1>2, <1>4 DEF Others, OutShaped
<1>9. DOMAIN o = C!Files
  OBVIOUS
<1>10. ASSUME NEW x \in C!Files PROVE Right(o, world, x)
  <2>1. x[1] \in Gen \/ x[1] \in Ovr
    BY FilesAre, PackagesAre
  <2>2. CASE x[1] \in Ovr
    BY <1>7, <2>2 DEF Right
  <2>3. CASE x[1] \in Gen /\ x[1] \notin Ovr
    BY <1>1, <1>4, <2>3 DEF Right, JobTrue, HasWritten
  <2> QED BY <2>1, <2>2, <2>3
<1>11. HasWritten(i, o, world)
  BY <1>5, <1>10, ListsAre DEF HasWritten
<1> QED BY <1>1, <1>3, <1>6, <1>8, <1>9, <1>11, OneSteps DEF JobTrue

\* What a compiler publishes under a key belongs to it.
LEMMA PublishKeeps ==
  ASSUME CacheInv, NEW c \in Compilers, job[c].pc \in Compiling,
         NEW p \in C!Packages, C!Publish(c, p)
  PROVE  entries' = entries \/ EntriesTrue(entries', world)
<1> PICK j : j = job[c]
  OBVIOUS
<1> PICK k : k = C!Key(p, j.keys)
  OBVIOUS
<1> PICK m : m = [f \in 1..NFiles |-> C!Contents(<<p, f>>, C!Inputs(j))]
  OBVIOUS
<1>1. entries' = IF k \in DOMAIN entries THEN entries
                 ELSE [l \in DOMAIN entries \cup {k} |-> IF l = k THEN m ELSE entries[l]]
  BY DEF C!Publish
<1>2. JobTrue(j, out[c], world) /\ WorldTrue(world) /\ EntriesTrue(entries, world)
  BY DEF CacheInv
<1>3. C!Inputs(j) = world
  BY <1>2, InputsAre DEF JobTrue
<1>4. ASSUME NEW n \in 1..NFiles PROVE Fits(m[n], <<k[1], n>>, k[3], world)
  <2> PICK u : u = j.keys
    OBVIOUS
  <2>1. u.src = world.src /\ u.ts = world.ts
    BY <1>2 DEF JobTrue, HasRead
  <2>2. k[1] = p /\ k[3] = C!Sources(<<p, n>>, world)
    BY <2>1, KeyNamesContents
  <2>3. m[n] = C!Contents(<<p, n>>, world)
    BY <1>3
  <2> QED BY <2>2, <2>3, MadeFits
<1> PICK e : e = entries
  OBVIOUS
<1> PICK f : f = entries'
  OBVIOUS
<1>8. CASE k \in DOMAIN e
  BY <1>1, <1>8
<1>9. CASE k \notin DOMAIN e
  <2>1. f = [l \in DOMAIN e \cup {k} |-> IF l = k THEN m ELSE e[l]]
    BY <1>1, <1>9
  <2>2. EntriesTrue(e, world) /\ Belongs(m, k, world)
    BY <1>2, <1>4 DEF Belongs
  <2>3. DOMAIN f = DOMAIN e \cup {k} /\ f[k] = m /\ \A l \in DOMAIN e \ {k} : f[l] = e[l]
    BY <2>1
  <2> QED BY <2>2, <2>3 DEF EntriesTrue
<1> QED BY <1>8, <1>9

LEMMA StoreKeeps ==
  ASSUME CacheInv, NEW c \in Compilers, NEW stored \in BOOLEAN, C!StoreFile(c, stored)
  PROVE  CacheInv'
<1> PICK j : j = job[c]
  OBVIOUS
<1> PICK i : i = job'[c]
  OBVIOUS
<1> PICK s : s = j.todo
  OBVIOUS
<1> PICK x : x = Head(s)
  OBVIOUS
<1> PICK h : h = C!AfterFile(c)
  OBVIOUS
<1>1. /\ C!Go(c, h) /\ j.pc \in {"store", "storecopied"} /\ s # <<>>
      /\ (C!Publish(c, x[1]) \/ entries' = entries) /\ UNCHANGED <<world, out>>
  BY DEF C!StoreFile, C!StoresFiles
<1>2. h = [todo |-> Tail(s),
           pc |-> IF j.pc = "storecopied" /\ Len(s) = 1 THEN "done" ELSE j.pc]
  BY DEF C!AfterFile
<1>3. Others(c, job, job') /\ DOMAIN i = Fields
      /\ \A k \in Fields : i[k] = IF k \in DOMAIN h THEN h[k] ELSE j[k]
  BY <1>1, Gone
<1>4. JobTrue(j, out[c], world)
  BY DEF CacheInv
<1>5. /\ (i.pc = "done" /\ j.pc = "storecopied") \/ i.pc = j.pc
      /\ i.facts = j.facts /\ i.loaded = j.loaded /\ i.keys = j.keys /\ i.todo = Tail(s)
  BY <1>2, <1>3 DEF Fields
<1>6. HasRead(i, world)
  BY <1>1, <1>4, <1>5 DEF JobTrue, HasRead, Compiling
<1>7. s \in Seq(C!Files)
  BY <1>1, <1>4 DEF JobTrue, HasWritten
<1>8. x \in C!Files /\ Tail(s) \in Seq(C!Files) /\ x[1] \in C!Packages
  BY <1>1, <1>7, FilesAre
<1>9. HasWritten(i, out[c], world)
  BY <1>1, <1>4, <1>5, <1>8 DEF JobTrue, HasWritten
<1>10. entries' = entries \/ EntriesTrue(entries', world)
  BY <1>1, <1>8, PublishKeeps DEF Compiling
<1> QED BY <1>1, <1>3, <1>6, <1>9, <1>10, OneSteps, Same DEF JobTrue

LEMMA IdleTrue ==
  ASSUME NEW i, NEW o, NEW w, DOMAIN i = Fields, i.pc = "idle", i.loaded = NoEntry,
         i.facts # NoEntry => i.facts = [ts |-> w.ts, meta |-> w.meta]
  PROVE  JobTrue(i, o, w)
BY DEF JobTrue, HasRead, HasWritten, Compiling

LEMMA IdleIs ==
  /\ DOMAIN C!Idle = Fields /\ C!Idle.pc = "idle" /\ C!Idle.facts = NoEntry
  /\ C!Idle.loaded = NoEntry
BY DEF C!Idle, Fields

LEMMA ReturnKeeps ==
  ASSUME CacheInv, NEW c \in Compilers, C!Return(c) \/ C!Exit(c)
  PROVE  CacheInv'
<1> PICK j : j = job[c]
  OBVIOUS
<1> PICK i : i = job'[c]
  OBVIOUS
<1>1. /\ job' = [job EXCEPT ![c] = [C!Idle EXCEPT !.facts = j.facts]] \/ job' = [job EXCEPT ![c] = C!Idle]
      /\ UNCHANGED <<world, entries, out>>
  BY DEF C!Return, C!Exit
<1>2. JobTrue(j, out[c], world) /\ DOMAIN job = Compilers
  BY DEF CacheInv
<1>3. /\ i = [C!Idle EXCEPT !.facts = j.facts] \/ i = C!Idle
      /\ Others(c, job, job')
  BY <1>1, <1>2 DEF Others
<1>4. DOMAIN i = Fields /\ i.pc = "idle" /\ i.loaded = NoEntry
      /\ (i.facts = j.facts \/ i.facts = NoEntry)
  BY <1>3, IdleIs DEF Fields
<1>5. j.facts # NoEntry => j.facts = [ts |-> world.ts, meta |-> world.meta]
  BY <1>2 DEF JobTrue, HasRead
<1>6. JobTrue(i, out[c], world)
  BY <1>4, <1>5, IdleTrue
<1> QED BY <1>1, <1>3, <1>6, OneSteps, Same

\* The inputs change only between compilations, and services are started again
\* when an override changes.
LEMMA EditKeeps ==
  ASSUME CacheInv, EditAnytime = FALSE,
         \/ \E p \in C!ToSet(<<"a", "b">>), graph \in BOOLEAN : C!EditSource(p, graph)
         \/ \E p \in C!ToSet(<<"o">>), meta \in BOOLEAN : C!EditOverride(p, meta)
  PROVE  CacheInv'
<1>1. C!CanEdit
  <2> HIDE DEF C!CanEdit
  <2>1. ASSUME NEW p \in C!ToSet(<<"a", "b">>), NEW graph \in BOOLEAN, C!EditSource(p, graph)
        PROVE  C!CanEdit
    BY <2>1 DEF C!EditSource
  <2>2. ASSUME NEW p \in C!ToSet(<<"o">>), NEW meta \in BOOLEAN, C!EditOverride(p, meta)
        PROVE  C!CanEdit
    BY <2>2 DEF C!EditOverride
  <2> QED BY <2>1, <2>2
<1>2. (\A c \in Compilers : job[c].pc = "idle") /\ UNCHANGED <<entries, out>>
  BY <1>1 DEF C!CanEdit
<1>3. \A c \in Compilers : JobTrue(job[c], out[c], world)
  BY DEF CacheInv
<1>4. DOMAIN job = Compilers /\ WorldTrue(world) /\ EntriesTrue(entries, world)
  BY DEF CacheInv
<1> PICK v : v = world
  OBVIOUS
<1> PICK w : w = world'
  OBVIOUS
<1>a. /\ v = [src |-> v.src, ts |-> v.ts, graph |-> v.graph, meta |-> v.meta]
      /\ v.graph \in Nat /\ v.meta \in Nat
  BY <1>4 DEF WorldTrue
<1>5. CASE \E p \in C!ToSet(<<"a", "b">>), graph \in BOOLEAN : C!EditSource(p, graph)
  <2>1. PICK p \in C!ToSet(<<"a", "b">>), graph \in BOOLEAN : C!EditSource(p, graph)
    BY <1>5
  <2>2. /\ w = [src |-> [v.src EXCEPT ![p] = @ + 1], ts |-> v.ts,
               graph |-> IF graph THEN v.graph + 1 ELSE v.graph, meta |-> v.meta]
        /\ job' = job
    BY <2>1 DEF C!EditSource
  <2>3. /\ w = [src |-> w.src, ts |-> w.ts, graph |-> w.graph, meta |-> w.meta]
        /\ w.ts = v.ts /\ w.meta = v.meta /\ w.graph = IF graph THEN v.graph + 1 ELSE v.graph
    BY <1>a, <2>2
  <2>4. WorldTrue(w) /\ (C!Untouched(w) => C!Untouched(v))
    BY <1>a, <2>3 DEF WorldTrue, C!Untouched
  <2>5. EntriesTrue(entries, w)
    BY <1>4, <2>4 DEF EntriesTrue, Belongs, Fits
  <2>6. ASSUME NEW c \in Compilers PROVE JobTrue(job'[c], out'[c], w)
    <3> PICK i : i = job[c]
      OBVIOUS
    <3>1. DOMAIN i = Fields /\ i.pc = "idle" /\ i.loaded = NoEntry
          /\ (i.facts # NoEntry => i.facts = [ts |-> v.ts, meta |-> v.meta])
      BY <1>2, <1>3 DEF JobTrue, HasRead
    <3>2. i.facts # NoEntry => i.facts = [ts |-> w.ts, meta |-> w.meta]
      BY <2>3, <3>1
    <3>3. JobTrue(i, out'[c], w)
      BY <3>1, <3>2, IdleTrue
    <3> QED BY <2>2, <3>3
  <2> QED BY <1>2, <1>4, <2>2, <2>4, <2>5, <2>6 DEF CacheInv
<1>6. CASE \E p \in C!ToSet(<<"o">>), meta \in BOOLEAN : C!EditOverride(p, meta)
  <2>1. PICK p \in C!ToSet(<<"o">>), meta \in BOOLEAN : C!EditOverride(p, meta)
    BY <1>6
  <2>2. /\ w = IF meta THEN [v EXCEPT !.meta = @ + 1] ELSE [v EXCEPT !.ts[p] = @ + 1]
        /\ job' = [c \in Compilers |-> IF job[c].pc = "idle" THEN C!Idle ELSE job[c]]
    BY <2>1 DEF C!EditOverride
  <2>3. /\ w = [src |-> w.src, ts |-> w.ts, graph |-> w.graph, meta |-> w.meta]
        /\ w.graph = v.graph /\ w.meta = IF meta THEN v.meta + 1 ELSE v.meta
    BY <1>a, <2>2
  <2>4. WorldTrue(w) /\ (C!Untouched(w) => C!Untouched(v))
    BY <1>a, <2>3 DEF WorldTrue, C!Untouched
  <2>5. EntriesTrue(entries, w)
    BY <1>4, <2>4 DEF EntriesTrue, Belongs, Fits
  <2>6. ASSUME NEW c \in Compilers PROVE JobTrue(job'[c], out'[c], w)
    <3> PICK i : i = C!Idle
      OBVIOUS
    <3>1. DOMAIN i = Fields /\ i.pc = "idle" /\ i.loaded = NoEntry /\ i.facts = NoEntry
      BY IdleIs
    <3>2. JobTrue(i, out'[c], w)
      BY <3>1, IdleTrue
    <3> QED BY <1>2, <2>2, <3>2
  <2>7. DOMAIN job' = Compilers
    BY <2>2
  <2> QED BY <1>2, <2>4, <2>5, <2>6, <2>7 DEF CacheInv
<1> QED BY <1>5, <1>6

LEMMA CacheRests ==
  ASSUME CacheInv, UNCHANGED <<world, entries, job, out>>
  PROVE  CacheInv'
BY DEF CacheInv

LEMMA CacheStepKeeps ==
  ASSUME CacheInv, EditAnytime = FALSE, C!CacheNext
  PROVE  CacheInv'
<1>1. CASE \E c \in Compilers :
             \/ \E fast \in BOOLEAN : C!Begin(c, fast)
             \/ C!Entries(c) \/ C!ReplayFile(c) \/ C!ReplayMiss(c) \/ C!Load(c)
             \/ C!Emit(c) \/ C!CopyPackages(c)
             \/ \E stored \in BOOLEAN : C!StoreFile(c, stored)
             \/ C!Return(c) \/ C!Exit(c)
  <2>1. PICK c \in Compilers :
             \/ \E fast \in BOOLEAN : C!Begin(c, fast)
             \/ C!Entries(c) \/ C!ReplayFile(c) \/ C!ReplayMiss(c) \/ C!Load(c)
             \/ C!Emit(c) \/ C!CopyPackages(c)
             \/ \E stored \in BOOLEAN : C!StoreFile(c, stored)
             \/ C!Return(c) \/ C!Exit(c)
    BY <1>1
  <2> QED BY <2>1, BeginKeeps, EntriesKeeps, ReplayFileKeeps, ReplayMissKeeps, LoadKeeps,
             EmitKeeps, CopyKeeps, StoreKeeps, ReturnKeeps
<1>2. CASE \E d \in blobs.good : C!DamageBlob(d)
  BY <1>2, CacheRests DEF C!DamageBlob
<1>3. CASE \/ \E p \in C!ToSet(<<"a", "b">>), graph \in BOOLEAN : C!EditSource(p, graph)
           \/ \E p \in C!ToSet(<<"o">>), meta \in BOOLEAN : C!EditOverride(p, meta)
  BY <1>3, EditKeeps
<1> QED BY <1>1, <1>2, <1>3 DEF C!CacheNext

LEMMA CacheAnswers == CacheInv => CompiledFresh
<1> SUFFICES ASSUME CacheInv, NEW c \in Compilers, job[c].pc \in {"replayed", "done"},
                    NEW x \in C!Files
             PROVE  /\ out[c][x].of = x /\ out[c][x].from = C!Sources(x, world)
                    /\ job[c].pc = "done" \/ C!Untouched(world) => out[c][x] = C!Contents(x, world)
  BY DEF CompiledFresh, C!CompiledFresh, C!Succeeded
<1> PICK d : d = out[c][x]
  OBVIOUS
<1>1. JobTrue(job[c], out[c], world)
  BY DEF CacheInv
<1>2. CASE job[c].pc = "done"
  BY <1>1, <1>2 DEF JobTrue, HasWritten, Right, C!Contents
<1>3. CASE job[c].pc = "replayed"
  <2>1. Fits(d, x, C!Sources(x, world), world)
    BY <1>1, <1>3 DEF JobTrue, HasWritten, Sourced
  <2>2. d.of = x /\ d.from = C!Sources(x, world)
    BY <2>1 DEF Fits
  <2>3. C!Untouched(world) => d = C!Contents(x, world)
    <3>1. C!Untouched(world) => C!Rest(x, world) = <<0, 0>>
      BY DEF C!Untouched, C!Rest
    <3> QED BY <2>1, <3>1 DEF Fits, C!Contents
  <2> QED BY <1>3, <2>2, <2>3
<1> QED BY <1>2, <1>3

\* Whatever the processes that share the cache store, half do or fail to write, a
\* compilation leaves files made from the sources as they are, and those that one
\* without a cache would leave as far as digests cover what they depend on, if the
\* inputs do not change while a compiler runs (CompileService.Compile,
\* compiler-cache.go).
THEOREM CacheNeverStale ==
  ASSUME EditAnytime = FALSE
  PROVE  CompilerSpec => []CompiledFresh
<1>1. CompilerInit => CacheInv
  BY CacheStarts DEF CompilerInit
<1>2. CacheInv /\ [CompilerNext]_<<part, cacheVars, colourVars, runnerVars>> => CacheInv'
  <2> SUFFICES ASSUME CacheInv, [CompilerNext]_<<part, cacheVars, colourVars, runnerVars>>
               PROVE  CacheInv'
    OBVIOUS
  <2>1. CASE C!CacheNext
    BY <2>1, CacheStepKeeps
  <2>2. CASE UNCHANGED cacheVars
    BY <2>2, CacheRests DEF cacheVars
  <2> QED BY <2>1, <2>2 DEF CompilerNext, CacheStep, ColourStep, RunnerStep
<1> QED BY <1>1, <1>2, CacheAnswers, PTL DEF CompilerSpec

-----------------------------------------------------------------------------
(* The colouring.                                                          *)

Going == {"propagate", "again", "loop"}

\* No async function or method has a caller that is not async.
Closed ==
  \A f \in Fns : \A x \in A!Callees(f) : x \in async \cup ifaces => f \in async

\* The work list: whatever is async and called has been queued, and the callers
\* of what has left the queue are async.
Worklist ==
  /\ queue \subseteq queued /\ queue \subseteq async \cup ifaces
  /\ \A f \in Fns : \A x \in A!Callees(f) :
       /\ x \in async \cup ifaces => x \in queued
       /\ x \in queued \ queue => f \in async

\* The methods of interfaces follow the implementations in S.
Followed(S) == A!InterfacesFollowing(S) \subseteq ifaces

ColourInv ==
  /\ program \in Programs
  /\ async \subseteq Fns /\ ifaces \subseteq Methods \ program.errors
  /\ A!CollectFunctionFacts(program) \subseteq async
  /\ \A m \in ifaces : program.impl[m] \cap async # {}
  /\ A!ColourMinimal
  /\ colourStage \in Going => Worklist
  /\ colourStage \in {"apply", "done"} => Closed
  /\ colourStage = "loop" => \E S \in SUBSET async : count = Cardinality(S) /\ Followed(S)
  /\ colourStage = "done" => Followed(async)

LEMMA SameCardinality == ASSUME NEW S PROVE A!Cardinality(S) = Cardinality(S)
BY DEF A!Cardinality, Cardinality

LEMMA ColourStarts == A!ColourInit => ColourInv
BY DEF A!ColourInit, A!CollectFunctionFacts, ColourInv, A!ColourMinimal, Going

\* A step that adds to async only what follows from it stays minimal.
LEMMA StaysMinimal ==
  ASSUME ColourInv, UNCHANGED program,
         \A S \in SUBSET Fns : A!CollectFunctionFacts(program) \subseteq S /\ async \subseteq S
            /\ A!Reasons(S) \subseteq S => async' \subseteq S
  PROVE  A!ColourMinimal'
<1>1. ASSUME NEW S \in SUBSET Fns PROVE A!Reasons(S)' = A!Reasons(S)
  BY DEF A!Reasons, A!Callees, A!InterfacesFollowing
<1>2. A!CollectFunctionFacts(program)' = A!CollectFunctionFacts(program)
  BY DEF A!CollectFunctionFacts
<1> QED BY <1>1, <1>2 DEF ColourInv, A!ColourMinimal

\* A queue that starts again with everything async that is called.
LEMMA QueueStarts ==
  ASSUME UNCHANGED program,
         queue' = {x \in UNION {A!Callees(f) : f \in Fns} : x \in async' \cup ifaces'},
         queued' = queue'
  PROVE  Worklist'
<1>1. \A f \in Fns : A!Callees(f)' = A!Callees(f)
  BY DEF A!Callees
<1> QED BY <1>1 DEF Worklist

LEMMA PropagateKeeps ==
  ASSUME ColourInv, NEW x, A!Propagate(x)
  PROVE  ColourInv'
<1> DEFINE callers == {f \in Fns : x \in A!Callees(f)}
<1>1. /\ colourStage \in Going /\ x \in queue /\ UNCHANGED <<program, ifaces, colourStage, count>>
      /\ async' = async \cup callers
      /\ queue' = (queue \ {x}) \cup (callers \ queued)
      /\ queued' = queued \cup callers
  BY DEF A!Propagate, Going
<1>2. \A f \in Fns : A!Callees(f)' = A!Callees(f)
  BY <1>1 DEF A!Callees
<1>3. Worklist
  BY <1>1 DEF ColourInv
<1>4. Worklist'
  <2>1. queue' \subseteq queued' /\ queue' \subseteq async' \cup ifaces'
    BY <1>1, <1>3 DEF Worklist
  <2>2. ASSUME NEW f \in Fns, NEW y \in A!Callees(f)
        PROVE  /\ y \in async' \cup ifaces' => y \in queued'
               /\ y \in queued' \ queue' => f \in async'
    BY <1>1, <1>3 DEF Worklist
  <2> QED BY <1>2, <2>1, <2>2 DEF Worklist
<1>5. ASSUME NEW S \in SUBSET Fns, A!CollectFunctionFacts(program) \subseteq S,
             async \subseteq S, A!Reasons(S) \subseteq S
      PROVE  async' \subseteq S
  <2>1. ASSUME NEW f \in Fns, x \in A!Callees(f) PROVE f \in S
    <3>1. CASE x \in async
      BY <1>5, <2>1, <3>1 DEF A!Reasons
    <3>2. CASE x \in ifaces /\ x \in program.promoted[f]
      <4>1. program.impl[x] \cap S # {}
        BY <1>5, <3>2 DEF ColourInv
      <4>2. x \in A!InterfacesFollowing(S)
        BY <3>2, <4>1 DEF ColourInv, A!InterfacesFollowing
      <4> QED BY <1>5, <3>2, <4>2 DEF A!Reasons
    <3>3. CASE x \in ifaces /\ x \in program.calls[f]
      <4>1. program.calls[f] \cap (Methods \ program.errors) # {}
        BY <3>3 DEF ColourInv
      <4> QED BY <1>5, <4>1 DEF A!CollectFunctionFacts
    <3>4. x \in async \/ x \in ifaces
      BY <1>1, <1>3 DEF Worklist
    <3> QED BY <2>1, <3>1, <3>2, <3>3, <3>4 DEF A!Callees
  <2> QED BY <1>1, <1>5, <2>1
<1>6. A!ColourMinimal'
  BY <1>1, <1>5, StaysMinimal
<1> HIDE DEF callers
<1>7. /\ async \subseteq async' /\ async' \subseteq Fns
  BY <1>1 DEF ColourInv, callers
<1>8. A!CollectFunctionFacts(program)' \subseteq async'
  BY <1>1, <1>7 DEF ColourInv, A!CollectFunctionFacts
<1>9. colourStage' = "loop" => \E S \in SUBSET async' : count' = Cardinality(S) /\ Followed(S)'
  BY <1>1, <1>7 DEF ColourInv, Followed, A!InterfacesFollowing
<1> QED BY <1>1, <1>4, <1>6, <1>7, <1>8, <1>9 DEF ColourInv, Going

LEMMA ArgumentsKeep ==
  ASSUME ColourInv, A!FunctionArguments
  PROVE  ColourInv'
<1> DEFINE more == {f \in Fns : program.passes[f] \cap async # {}}
<1>1. /\ colourStage \in {"propagate", "again"} /\ queue = {} /\ async' = async \cup more
      /\ UNCHANGED <<program, ifaces, count>>
      /\ \/ more \subseteq async /\ colourStage' = "apply"
         \/ /\ colourStage' = "again"
            /\ queue' = {x \in UNION {A!Callees(f) : f \in Fns} : x \in async \cup more \cup ifaces}
            /\ queued' = queue'
  BY DEF A!FunctionArguments
<1>2. \A f \in Fns : A!Callees(f)' = A!Callees(f)
  BY <1>1 DEF A!Callees
<1>3. colourStage' = "again" => Worklist'
  BY <1>1, QueueStarts
<1>4. colourStage' = "apply" => Closed'
  <2>1. Closed
    BY <1>1 DEF ColourInv, Worklist, Closed, Going
  <2> QED BY <1>1, <1>2, <2>1 DEF Closed
<1>5. ASSUME NEW S \in SUBSET Fns, async \subseteq S, A!Reasons(S) \subseteq S
      PROVE  async' \subseteq S
  <2>1. more \subseteq A!Reasons(S)
    BY <1>5 DEF A!Reasons
  <2> QED BY <1>1, <1>5, <2>1
<1>6. A!ColourMinimal'
  BY <1>1, <1>5, StaysMinimal
<1> HIDE DEF more
<1>7. /\ async \subseteq async' /\ async' \subseteq Fns
  BY <1>1 DEF ColourInv, more
<1>8. A!CollectFunctionFacts(program)' \subseteq async'
  BY <1>1, <1>7 DEF ColourInv, A!CollectFunctionFacts
<1> QED BY <1>1, <1>3, <1>4, <1>6, <1>7, <1>8 DEF ColourInv, Going

LEMMA ColourStepKeeps ==
  ASSUME ColourInv, A!ColourNext
  PROVE  ColourInv'
<1>1. CASE A!FirstPropagation
  <2>1. Worklist'
    BY <1>1, QueueStarts DEF A!FirstPropagation, A!StartPropagation, A!FunctionAsync
  <2>2. A!ColourMinimal'
    BY <1>1, StaysMinimal DEF A!FirstPropagation
  <2> QED BY <1>1, <2>1, <2>2 DEF A!FirstPropagation, A!StartPropagation, ColourInv, Going,
                                  A!CollectFunctionFacts
<1>2. CASE A!ApplyInterfaces
  <2>1. Worklist'
    BY <1>2, QueueStarts DEF A!ApplyInterfaces
  <2>2. A!ColourMinimal'
    BY <1>2, StaysMinimal DEF A!ApplyInterfaces
  <2>3. async' \in SUBSET async' /\ count' = Cardinality(async') /\ Followed(async)'
    BY <1>2, SameCardinality DEF A!ApplyInterfaces, Followed, A!InterfacesFollowing
  <2>4. \E S \in SUBSET async' : count' = Cardinality(S) /\ Followed(S)'
    BY <2>3
  <2>5. /\ ifaces' \subseteq Methods \ program'.errors
        /\ \A m \in ifaces' : program'.impl[m] \cap async' # {}
    BY <1>2 DEF A!ApplyInterfaces, ColourInv, A!InterfacesFollowing
  <2> QED BY <1>2, <2>1, <2>2, <2>4, <2>5 DEF A!ApplyInterfaces, ColourInv, Going,
                                        A!CollectFunctionFacts
<1>3. CASE A!LoopOrEnd
  <2>1. /\ colourStage = "loop" /\ queue = {}
        /\ UNCHANGED <<program, async, ifaces, queue, queued, count>>
        /\ colourStage' = IF Cardinality(async) = count THEN "done" ELSE "apply"
    BY <1>3, SameCardinality DEF A!LoopOrEnd
  <2>2. Closed'
    BY <2>1 DEF ColourInv, Worklist, Closed, Going, A!Callees
  <2>3. A!ColourMinimal'
    BY <2>1, StaysMinimal
  <2>4. Cardinality(async) = count => Followed(async)'
    <3>1. PICK S \in SUBSET async : count = Cardinality(S) /\ Followed(S)
      BY <2>1 DEF ColourInv
    <3>2. IsFiniteSet(async)
      BY CompilerAssumption, FS_Subset DEF ColourInv
    <3>3. Cardinality(async) = count => S = async
      BY <3>1, <3>2, FS_Subset
    <3> QED BY <2>1, <3>1, <3>3 DEF Followed, A!InterfacesFollowing
  <2> QED BY <2>1, <2>2, <2>3, <2>4 DEF ColourInv, Going, A!CollectFunctionFacts
<1> QED BY <1>1, <1>2, <1>3, PropagateKeeps, ArgumentsKeep DEF A!ColourNext

LEMMA ColourRests ==
  ASSUME ColourInv, UNCHANGED colourVars
  PROVE  ColourInv'
<1>1. UNCHANGED <<program, async, ifaces, queue, queued, colourStage, count>>
  BY DEF colourVars
<1> QED BY <1>1 DEF ColourInv, Worklist, Closed, Followed, A!CollectFunctionFacts,
                    A!ColourMinimal, A!Reasons, A!Callees, A!InterfacesFollowing

\* The two operations that lowering awaits and that Build does not know.
Unknown == {"range-channel", "defer-range"}

LEMMA ColourAnswers ==
  ASSUME ColourInv, OtherOps \cap Unknown = {}
  PROVE  ColoursAgree
<1>1. ASSUME NEW f \in Fns, program.op[f] \in Unknown
      PROVE  f \in async
  <2>1. program.op[f] \in RootOps \cup OtherOps \cup {"none", "lazy-read"}
    BY <1>1 DEF ColourInv, Programs
  <2>2. program.op[f] \in RootOps
    BY <1>1, <2>1 DEF Unknown
  <2> QED BY <2>2 DEF ColourInv, A!CollectFunctionFacts
<1>2. \A f \in Fns : \A L : A!EmittedAsync(f, L) <=> A!LoweredAsync(f, L)
  BY <1>1 DEF A!EmittedAsync, Unknown, A!LoweredAsync, A!FunctionAsync
<1>3. ASSUME colourStage = "done", NEW L \in A!LazyFound, NEW f \in Fns, A!BodyAwaits(f, L)
      PROVE  A!LoweredAsync(f, L) \/ A!InRecursion(f, L)
  <2>1. program.op[f] \in RootOps \cup {"range-channel"} => f \in async
    BY <1>1 DEF ColourInv, A!CollectFunctionFacts, Unknown
  <2>2. ASSUME NEW x \in A!Callees(f), x \in async \cup ifaces PROVE f \in async
    BY <1>3, <2>2 DEF ColourInv, Closed
  <2>3. ASSUME NEW x \in A!Callees(f), x \in L PROVE f \in L \/ A!InRecursion(f, L)
    BY <2>3 DEF A!LazyFound, A!MissesOnlyRecursion, A!InRecursion
  <2>4. ASSUME NEW x \in A!Callees(f), A!CallNeedsAwait(f, x, L)
        PROVE  A!LoweredAsync(f, L) \/ A!InRecursion(f, L)
    BY <2>2, <2>3, <2>4 DEF A!CallNeedsAwait, A!LoweredAsync, A!FunctionAsync
  <2>5. f \in async => A!LoweredAsync(f, L)
    BY DEF A!LoweredAsync, A!FunctionAsync
  <2> QED BY <1>3, <2>1, <2>4, <2>5 DEF A!BodyAwaits
<1>4. ASSUME colourStage = "done", NEW L \in A!LazyFound, NEW f \in Fns, NEW x \in A!Callees(f),
             \/ x \in Fns /\ A!EmittedAsync(x, L)
             \/ /\ x \in Methods \ program.errors
                /\ \E i \in program.impl[x] :
                     A!EmittedAsync(i, IF x \in program.calls[f] THEN L ELSE {})
      PROVE  A!CallNeedsAwait(f, x, L)
  <2>1. CASE x \in Fns /\ A!EmittedAsync(x, L)
    BY <1>2, <2>1 DEF A!CallNeedsAwait
  <2>2. CASE x \in Methods \ program.errors /\ x \in program.calls[f]
    <3>1. f \in async
      BY <2>2 DEF ColourInv, A!CollectFunctionFacts
    <3> QED BY <2>2, <3>1 DEF A!CallNeedsAwait, A!LoweredAsync, A!FunctionAsync
  <2>3. CASE /\ x \in Methods \ program.errors /\ x \notin program.calls[f]
             /\ \E i \in program.impl[x] : A!EmittedAsync(i, {})
    <3>1. PICK i \in program.impl[x] : A!EmittedAsync(i, {})
      BY <2>3
    <3>2. program.impl[x] \subseteq Fns
      BY <2>3 DEF ColourInv, Programs
    <3>3. i \in async
      BY <1>2, <3>1, <3>2, CompilerAssumption DEF A!LoweredAsync, A!FunctionAsync, ColourInv
    <3>4. x \in A!InterfacesFollowing(async)
      BY <2>3, <3>1, <3>3 DEF A!InterfacesFollowing
    <3> QED BY <1>4, <3>4 DEF ColourInv, Followed, A!CallNeedsAwait, A!LoweredAsync, A!FunctionAsync
  <2> QED BY <1>4, <2>1, <2>2, <2>3
<1>5. A!ColoursAgree
  BY <1>2, <1>3, <1>4 DEF A!ColoursAgree
<1> QED BY <1>5 DEF ColoursAgree, ColourInv

\* A behaviour of another part colours nothing.
Uncoloured == colourStage = "start" /\ async = {}

LEMMA UncolouredAgrees == Uncoloured => ColoursAgree
BY DEF Uncoloured, ColoursAgree, A!ColoursAgree, A!ColourMinimal

Coloured == IF part = "colour" THEN ColourInv ELSE Uncoloured

\* In every program without a range over a channel, the calls that yield a
\* promise are awaited in functions that are async, and nothing else is async
\* (SemanticModelOwner.Build).
THEOREM ColouringAgrees ==
  ASSUME OtherOps \cap Unknown = {}
  PROVE  CompilerSpec => []ColoursAgree
<1>1. CompilerInit => Coloured
  BY ColourStarts DEF CompilerInit, Coloured, Uncoloured
<1>2. Coloured /\ [CompilerNext]_<<part, cacheVars, colourVars, runnerVars>> => Coloured'
  <2> SUFFICES ASSUME Coloured, [CompilerNext]_<<part, cacheVars, colourVars, runnerVars>>
               PROVE  Coloured'
    OBVIOUS
  <2>1. part' = part
    BY DEF CompilerNext, CacheStep, ColourStep, RunnerStep
  <2>2. CASE part = "colour" /\ A!ColourNext
    BY <2>1, <2>2, ColourStepKeeps DEF Coloured
  <2>3. CASE UNCHANGED colourVars
    <3>1. Uncoloured => Uncoloured'
      BY <2>3 DEF Uncoloured, colourVars
    <3> QED BY <2>1, <2>3, <3>1, ColourRests DEF Coloured
  <2> QED BY <2>2, <2>3 DEF CompilerNext, CacheStep, ColourStep, RunnerStep
<1>3. Coloured => ColoursAgree
  BY ColourAnswers, UncolouredAgrees DEF Coloured
<1> QED BY <1>1, <1>2, <1>3, PTL DEF CompilerSpec

-----------------------------------------------------------------------------
(* The test runner.                                                        *)

Owners == {"none", "blank", "graph", "compiler", "runner", "process"}
Phases == {"none", "pass", "fail", "skip"}
Result == [action : {"skip", "fail", "pass"}, owner : Owners, compile : Phases,
           typecheck : Phases, runtime : Phases]
Told == {"nothing", "pass", "fail"}
WithRun == {"ready", "waiting", "queued", "check", "run", "chunk"}
Workers == WithRun \cup {"none", "grouped"}
Early == {"load", "batch", "compile", "prepare"}
Stages == Early \cup {"typecheck", "each", "runtimes", "chunks", "done"}

\* What is true of a package: r is its result, t what its last process said, w
\* its goroutine, s the stage of Run, k its variable ok, d whether ctx is done.
\* A package whose tests have no verdict and nobody to blame is still with Run.
Decided(r, t, w, s, k, d) ==
  /\ s = "load" => r.action = "skip"
  /\ s \in Early \cup {"done"} => w = "none"
  /\ s = "typecheck" => w \in {"none", "ready"}
  /\ s = "chunks" => w \in {"none", "chunk", "grouped"}
  /\ r.action = "skip" => t = "nothing" /\ w = "none"
  /\ r.action = "pass" => t = "pass" /\ (r.runtime = "pass" \/ d)
  /\ r.action = "fail" /\ r.owner = "none" =>
       s \in Early \/ w \in WithRun \/ (w = "grouped" /\ ~k)
  /\ r.owner = "blank" => d

RunnerTypes ==
  /\ results \in [R!Pkgs -> Result]
  /\ told \in [R!Pkgs -> Told]
  /\ worker \in [R!Pkgs -> Workers]
  /\ stage \in Stages
  /\ cancelled \in BOOLEAN
  /\ chunksOk \in BOOLEAN

RunnerInv ==
  /\ RunnerTypes
  /\ \A p \in R!Pkgs :
       Decided(results[p], told[p], worker[p], stage, chunksOk, cancelled)

\* What a phase before the tools may do to a result: mark it, or blame someone
\* for a package that is still runnable.
Remains(r, z) == z.action = r.action /\ z.owner = r.owner /\ z.runtime = r.runtime
Blames(r, z) == /\ r.action # "skip" /\ r.owner = "none"
                /\ z.action = "fail" /\ z.owner \notin {"none", "blank"}

LEMMA OwnersAre == "graph" \in Owners /\ "compiler" \in Owners /\ "runner" \in Owners
                   /\ "process" \in Owners /\ "blank" \in Owners
BY DEF Owners

\* The records that the phases make of a result.
LEMMA Blamed ==
  ASSUME NEW r \in Result, NEW o \in Owners, NEW z,
         \/ z = R!Failed(r, o)
         \/ z = [R!Failed(r, o) EXCEPT !.runtime = "fail"]
         \/ z = [R!Failed(r, o) EXCEPT !.compile = "fail"]
         \/ z = [R!Failed(r, o) EXCEPT !.typecheck = "fail", !.runtime = "skip"]
  PROVE  z \in Result /\ z.action = "fail" /\ z.owner = o
<1> DEFINE y == R!Failed(r, o)
<1>1. y \in Result /\ y.action = "fail" /\ y.owner = o
  BY DEF R!Failed, Result, Phases, Owners
<1> HIDE DEF y
<1>2. CASE z = y
  BY <1>1, <1>2
<1>3. CASE z = [y EXCEPT !.runtime = "fail"]
  BY <1>1, <1>3 DEF Result, Phases
<1>4. CASE z = [y EXCEPT !.compile = "fail"]
  BY <1>1, <1>4 DEF Result, Phases
<1>5. CASE z = [y EXCEPT !.typecheck = "fail", !.runtime = "skip"]
  BY <1>1, <1>5 DEF Result, Phases
<1> QED BY <1>2, <1>3, <1>4, <1>5 DEF y

LEMMA Passed ==
  ASSUME NEW r \in Result, NEW z, z = [r EXCEPT !.action = "pass", !.runtime = "pass"]
  PROVE  z \in Result /\ z.action = "pass" /\ z.runtime = "pass" /\ z.owner = r.owner
<1>1. z \in Result
  BY DEF Result, Phases
<1>2. z.action = "pass" /\ z.runtime = "pass" /\ z.owner = r.owner
  BY DEF Result
<1> QED BY <1>1, <1>2

LEMMA Judged ==
  ASSUME NEW r \in Result, NEW ok \in BOOLEAN, NEW z, z = R!Verdict(r, ok)
  PROVE  /\ z \in Result
         /\ ok => z.action = "pass" /\ z.runtime = "pass" /\ z.owner = r.owner
         /\ ~ok => z.action = "fail" /\ z.owner = "process"
<1>1. CASE ok = TRUE
  <2>1. z = [r EXCEPT !.action = "pass", !.runtime = "pass"]
    BY <1>1 DEF R!Verdict
  <2> QED BY <2>1, <1>1, Passed
<1>2. CASE ok = FALSE
  <2>1. z = [R!Failed(r, "process") EXCEPT !.runtime = "fail"]
    BY <1>2 DEF R!Verdict
  <2>2. z \in Result /\ z.action = "fail" /\ z.owner = "process"
    <3>1. PICK o \in Owners : o = "process"
      BY OwnersAre
    <3>2. z = [R!Failed(r, o) EXCEPT !.runtime = "fail"]
      BY <2>1, <3>1
    <3> QED BY <3>1, <3>2, Blamed
  <2> QED BY <2>2, <1>2
<1> QED BY <1>1, <1>2

\* Marking one phase of a result changes neither the action nor the owner.
LEMMA Marked ==
  ASSUME NEW r \in Result, NEW v \in Phases, NEW z,
         z = [r EXCEPT !.compile = v] \/ z = [r EXCEPT !.typecheck = v]
  PROVE  z \in Result /\ Remains(r, z)
<1>1. CASE z = [r EXCEPT !.compile = v]
  BY <1>1 DEF Result, Remains
<1>2. CASE z = [r EXCEPT !.typecheck = v]
  BY <1>2 DEF Result, Remains
<1> QED BY <1>1, <1>2

LEMMA RunnerStarts == R!RunnerInit => RunnerInv
<1> SUFFICES ASSUME R!RunnerInit PROVE RunnerInv
  OBVIOUS
<1>1. R!Fresh("skip") \in Result /\ R!Fresh("skip").action = "skip"
      /\ R!Fresh("skip").owner = "none"
  BY DEF R!Fresh, Result, Phases, Owners
<1>2. RunnerTypes
  BY <1>1 DEF R!RunnerInit, RunnerTypes, Told, Workers, Stages, Early
<1> QED BY <1>1, <1>2 DEF R!RunnerInit, RunnerInv, Decided, Early

\* A step that says of every package what becomes of it.
LEMMA EveryPackage ==
  ASSUME NEW r, NEW t, NEW w, NEW s, NEW k, NEW d,
         results' = r, told' = t, worker' = w, stage' = s, chunksOk' = k, cancelled' = d,
         r = [p \in R!Pkgs |-> r[p]], t = [p \in R!Pkgs |-> t[p]],
         w = [p \in R!Pkgs |-> w[p]],
         s \in Stages, k \in BOOLEAN, d \in BOOLEAN,
         \A p \in R!Pkgs : /\ r[p] \in Result /\ t[p] \in Told /\ w[p] \in Workers
                           /\ Decided(r[p], t[p], w[p], s, k, d)
  PROVE  RunnerInv'
<1>1. r \in [R!Pkgs -> Result] /\ t \in [R!Pkgs -> Told] /\ w \in [R!Pkgs -> Workers]
  OBVIOUS
<1>2. RunnerTypes'
  BY <1>1 DEF RunnerTypes
<1> QED BY <1>2 DEF RunnerInv

\* Loading, compiling and preparing decide about all packages at once; no
\* goroutine is at work.
LEMMA RunnerLoads ==
  ASSUME RunnerInv, NEW tests, NEW broken, R!Load(tests, broken)
  PROVE  RunnerInv'
<1> DEFINE r == [p \in R!Pkgs |-> IF p \in broken THEN R!Failed(R!Fresh("fail"), "graph")
                                  ELSE R!Fresh(IF p \in tests THEN "fail" ELSE "skip")]
<1>1. /\ R!Fresh("fail") \in Result /\ R!Fresh("fail").action = "fail"
      /\ R!Fresh("skip") \in Result /\ R!Fresh("skip").action = "skip"
      /\ R!Fresh("skip").owner = "none" /\ R!Fresh("fail").owner = "none"
  BY DEF R!Fresh, Result, Phases, Owners
<1>2. /\ R!Failed(R!Fresh("fail"), "graph") \in Result
      /\ R!Failed(R!Fresh("fail"), "graph").action = "fail"
      /\ R!Failed(R!Fresh("fail"), "graph").owner = "graph"
  <2>1. PICK y : y = R!Fresh("fail")
    OBVIOUS
  <2>2. y \in Result
    BY <1>1, <2>1
  <2>3. PICK z : z = R!Failed(y, "graph")
    OBVIOUS
  <2>4. z \in Result /\ z.action = "fail" /\ z.owner = "graph"
    BY <2>2, <2>3 DEF R!Failed, Result, Owners
  <2> QED BY <2>1, <2>3, <2>4
<1>3. /\ results' = r /\ stage' = "batch" /\ stage = "load"
      /\ told' = told /\ worker' = worker /\ chunksOk' = chunksOk /\ cancelled' = cancelled
  BY DEF R!Load, R!Goto
<1>4. ASSUME NEW p \in R!Pkgs
      PROVE  /\ r[p] \in Result /\ r[p].action \in {"fail", "skip"} /\ r[p].owner # "blank"
             /\ told[p] = "nothing" /\ worker[p] = "none"
  <2>1. told[p] = "nothing" /\ worker[p] = "none"
    BY <1>3 DEF RunnerInv, Decided
  <2>2. r[p] = R!Failed(R!Fresh("fail"), "graph") \/ r[p] = R!Fresh("fail")
        \/ r[p] = R!Fresh("skip")
    OBVIOUS
  <2> QED BY <2>1, <2>2, <1>1, <1>2
<1> HIDE DEF r
<1>5. ASSUME NEW p \in R!Pkgs
      PROVE  Decided(r[p], told[p], worker[p], "batch", chunksOk, cancelled)
  BY <1>4 DEF Decided, Early
<1> QED BY <1>3, <1>4, <1>5, EveryPackage DEF RunnerInv, RunnerTypes, Stages, Early, r, Told, Workers, WithRun

LEMMA RunnerCompiles ==
  ASSUME RunnerInv, NEW ok, NEW good, NEW blank,
         R!CompileBatch(ok) \/ R!CompileEach(good, blank)
  PROVE  RunnerInv'
<1>1. /\ stage' \in {"prepare", "compile"} /\ stage \in Early
      /\ told' = told /\ worker' = worker /\ chunksOk' = chunksOk
      /\ cancelled' \in BOOLEAN /\ (cancelled => cancelled')
      /\ R!CompileEach(good, blank) /\ blank # {} => cancelled'
  <2>1. cancelled \in BOOLEAN
    BY DEF RunnerInv, RunnerTypes
  <2>2. CASE R!CompileBatch(ok)
    <3>1. ~R!CompileEach(good, blank)
      BY <2>2 DEF R!CompileBatch, R!CompileEach
    <3> QED BY <2>1, <2>2, <3>1 DEF R!CompileBatch, R!Goto, Early
  <2>3. CASE R!CompileEach(good, blank)
    BY <2>1, <2>3 DEF R!CompileEach, R!Goto, Early
  <2> QED BY <2>2, <2>3
<1>2. ASSUME NEW p \in R!Pkgs
      PROVE  /\ results'[p] \in Result
             /\ \/ Remains(results[p], results'[p])
                \/ Blames(results[p], results'[p])
                \/ /\ results'[p].action = "fail" /\ results'[p].owner = "blank"
                   /\ results[p].action # "skip" /\ cancelled'
  <2>1. results[p] \in Result
    BY DEF RunnerInv, RunnerTypes
  <2>2. CASE results'[p] = results[p]
    BY <2>1, <2>2 DEF Remains
  <2>3. CASE results'[p] = [results[p] EXCEPT !.compile = "pass"]
    <3>1. "pass" \in Phases
      BY DEF Phases
    <3> QED BY <2>1, <2>3, <3>1, Marked
  <2>4. ASSUME NEW o \in {"compiler", "blank"}, p \in R!Runnable, o = "blank" => cancelled',
               results'[p] = [R!Failed(results[p], o) EXCEPT !.compile = "fail"]
        PROVE  /\ results'[p] \in Result
               /\ \/ Blames(results[p], results'[p])
                  \/ /\ results'[p].action = "fail" /\ results'[p].owner = "blank"
                     /\ results[p].action # "skip" /\ cancelled'
    <3>1. o \in Owners
      BY OwnersAre
    <3>2. results'[p] \in Result /\ results'[p].action = "fail" /\ results'[p].owner = o
      <4> DEFINE y == R!Failed(results[p], o)
      <4>1. y \in Result /\ y.action = "fail" /\ y.owner = o
        BY <2>1, <3>1, Blamed
      <4> HIDE DEF y
      <4>2. results'[p] = [y EXCEPT !.compile = "fail"]
        BY <2>4 DEF y
      <4> QED BY <4>1, <4>2 DEF Result, Phases
    <3> QED BY <3>2, <2>4 DEF Blames, R!Runnable
  <2>5. R!CompileBatch(ok) => results'[p] = results[p]
                              \/ results'[p] = [results[p] EXCEPT !.compile = "pass"]
    BY DEF R!CompileBatch
  <2>6. R!CompileEach(good, blank) =>
          \/ results'[p] = results[p]
          \/ results'[p] = [results[p] EXCEPT !.compile = "pass"]
          \/ /\ p \in R!Runnable /\ p \in blank
             /\ results'[p] = [R!Failed(results[p], "blank") EXCEPT !.compile = "fail"]
          \/ /\ p \in R!Runnable
             /\ results'[p] = [R!Failed(results[p], "compiler") EXCEPT !.compile = "fail"]
    BY DEF R!CompileEach
  <2>7. R!CompileEach(good, blank) /\ p \in blank => cancelled'
    BY <1>1
  <2> QED BY <2>2, <2>3, <2>4, <2>5, <2>6, <2>7
<1>3. results' = [p \in R!Pkgs |-> results'[p]]
  BY DEF R!CompileBatch, R!CompileEach
<1>4. ASSUME NEW p \in R!Pkgs, NEW z, z = results'[p]
      PROVE  Decided(z, told[p], worker[p], stage', chunksOk, cancelled')
  <2>1. Decided(results[p], told[p], worker[p], stage, chunksOk, cancelled)
    BY DEF RunnerInv
  <2>2. \/ Remains(results[p], z)
        \/ Blames(results[p], z)
        \/ z.action = "fail" /\ z.owner = "blank" /\ results[p].action # "skip" /\ cancelled'
    BY <1>2, <1>4
  <2> QED BY <2>1, <2>2, <1>1 DEF Decided, Remains, Blames, Early
<1>5. /\ told = [p \in R!Pkgs |-> told[p]] /\ worker = [p \in R!Pkgs |-> worker[p]]
      /\ chunksOk \in BOOLEAN
      /\ \A p \in R!Pkgs : told[p] \in Told /\ worker[p] = "none"
  BY <1>1 DEF RunnerInv, RunnerTypes, Decided
<1>6. stage' \in Stages /\ stage' # "done" /\ "none" \in Workers
  BY <1>1 DEF Stages, Early, Workers
<1> QED BY <1>1, <1>2, <1>3, <1>4, <1>5, <1>6, EveryPackage

LEMMA RunnerPrepares ==
  ASSUME RunnerInv, NEW good, NEW shims, R!WorkspaceFails \/ R!Prepare(good, shims)
  PROVE  RunnerInv'
<1>1. /\ stage = "prepare" /\ stage' \in {"done", "each", "typecheck"}
      /\ told' = told /\ chunksOk' = chunksOk /\ cancelled' = cancelled
  BY DEF R!WorkspaceFails, R!Prepare, R!Goto
<1>2. /\ told = [p \in R!Pkgs |-> told[p]] /\ worker = [p \in R!Pkgs |-> worker[p]]
      /\ chunksOk \in BOOLEAN /\ cancelled \in BOOLEAN
      /\ \A p \in R!Pkgs : told[p] \in Told /\ worker[p] = "none"
  BY <1>1 DEF RunnerInv, RunnerTypes, Early, Decided
<1>3. ASSUME NEW p \in R!Pkgs
      PROVE  /\ results'[p] \in Result
             /\ \/ Remains(results[p], results'[p])
                   /\ (p \notin R!Runnable \/ (p \in good /\ R!Prepare(good, shims) /\ shims))
                \/ Blames(results[p], results'[p])
  <2>1. results[p] \in Result
    BY DEF RunnerInv, RunnerTypes
  <2>2. CASE results'[p] = results[p]
             /\ (p \notin R!Runnable \/ (p \in good /\ R!Prepare(good, shims) /\ shims))
    BY <2>1, <2>2 DEF Remains
  <2>3. CASE /\ p \in R!Runnable
             /\ \/ results'[p] = R!Failed(results[p], "runner")
                \/ results'[p] = [R!Failed(results[p], "runner") EXCEPT !.runtime = "fail"]
    <3>1. results'[p] \in Result /\ results'[p].action = "fail" /\ results'[p].owner = "runner"
      BY <2>1, <2>3, Blamed, OwnersAre
    <3> QED BY <3>1, <2>3 DEF Blames, R!Runnable
  <2>4. CASE R!WorkspaceFails
    BY <2>2, <2>3, <2>4 DEF R!WorkspaceFails, R!MarkAllFailures
  <2>5. CASE R!Prepare(good, shims)
    <3>1. results'[p] = CASE p \in R!Runnable \ good  -> R!Failed(results[p], "runner")
                          [] p \in good /\ ~shims   ->
                               [R!Failed(results[p], "runner") EXCEPT !.runtime = "fail"]
                          [] OTHER                  -> results[p]
      BY <2>5 DEF R!Prepare
    <3>2. good \subseteq R!Runnable
      BY <2>5 DEF R!Prepare
    <3> QED BY <3>1, <3>2, <2>2, <2>3, <2>5
  <2> QED BY <2>4, <2>5
<1>4. results' = [p \in R!Pkgs |-> results'[p]] /\ worker' = [p \in R!Pkgs |-> worker'[p]]
  BY <1>2 DEF R!WorkspaceFails, R!Prepare, R!MarkAllFailures
<1>5. ASSUME NEW p \in R!Pkgs
      PROVE  /\ worker'[p] \in {"none", "check", "ready"}
             /\ worker'[p] # "none" => /\ p \in good /\ p \in R!Runnable
                                       /\ stage' # "done"
             /\ stage' = "typecheck" => worker'[p] # "check"
             /\ p \in good /\ R!Prepare(good, shims) /\ shims => worker'[p] # "none"
  <2>1. CASE R!WorkspaceFails
    <3>1. (~R!Prepare(good, shims) \/ ~(p \in good /\ shims)) /\ stage' = "done"
      BY <2>1 DEF R!WorkspaceFails, R!Prepare, R!Goto
    <3> QED BY <2>1, <3>1, <1>2 DEF R!WorkspaceFails
  <2>2. CASE R!Prepare(good, shims)
    <3>1. worker'[p] = IF ~(p \in good /\ shims) THEN "none"
                       ELSE IF R!Cardinality(good) = 1 THEN "check" ELSE "ready"
      BY <2>2 DEF R!Prepare
    <3>2. /\ good \subseteq R!Runnable /\ (stage' = "done" => good = {} \/ ~shims)
          /\ stage' = "typecheck" => R!Cardinality(good) # 1
      BY <2>2 DEF R!Prepare, R!Goto
    <3>3. CASE p \in good /\ shims
      <4>1. (worker'[p] = "check" /\ R!Cardinality(good) = 1) \/ worker'[p] = "ready"
        BY <3>1, <3>3
      <4> QED BY <4>1, <3>2, <3>3
    <3>4. CASE ~(p \in good /\ shims)
      <4>1. worker'[p] = "none"
        BY <3>1, <3>4
      <4> QED BY <4>1, <3>4
    <3> QED BY <3>3, <3>4
  <2> QED BY <2>1, <2>2
<1>6. ASSUME NEW p \in R!Pkgs, NEW z, z = results'[p], NEW w, w = worker'[p]
      PROVE  Decided(z, told[p], w, stage', chunksOk, cancelled)
  <2>1. Decided(results[p], told[p], worker[p], stage, chunksOk, cancelled)
    BY DEF RunnerInv
  <2>2. CASE Blames(results[p], z)
    <3>1. w \in {"none", "check", "ready"} /\ (w # "none" => stage' # "done")
          /\ (stage' = "typecheck" => w # "check")
      BY <1>5, <1>6
    <3> QED BY <2>2, <3>1, <1>1 DEF Decided, Blames, Early
  <2>3. CASE Remains(results[p], z) /\ p \notin R!Runnable
    <3>1. results[p].action = "skip" \/ results[p].owner # "none"
      BY <2>3 DEF R!Runnable
    <3>2. w = "none"
      BY <2>3, <1>5, <1>6
    <3> QED BY <2>1, <2>3, <3>1, <3>2, <1>1 DEF Decided, Remains
  <2>4. CASE Remains(results[p], z) /\ p \in good /\ R!Prepare(good, shims) /\ shims
    <3>1. w \in {"check", "ready"} /\ p \in R!Runnable
      BY <2>4, <1>5, <1>6
    <3>2. results[p].action # "skip"
      BY <3>1 DEF R!Runnable
    <3>3. stage' \in {"each", "typecheck"} /\ (stage' = "typecheck" => w = "ready")
      BY <2>4, <3>1, <1>1, <1>5, <1>6
    <3> QED BY <2>1, <2>4, <3>1, <3>2, <3>3 DEF Decided, Remains, WithRun, Early
  <2> QED BY <2>2, <2>3, <2>4, <1>3, <1>6
<1>7. /\ stage' \in Stages /\ stage' \notin Early
      /\ {"none", "check", "ready"} \subseteq Workers
      /\ \A p \in R!Pkgs : stage' = "done" => worker'[p] = "none"
      /\ "none" \notin WithRun \cup {"grouped"}
  BY <1>1, <1>5 DEF Stages, Early, Workers, WithRun
<1> QED BY <1>1, <1>2, <1>3, <1>4, <1>5, <1>6, <1>7, EveryPackage

-----------------------------------------------------------------------------
(* The tools of the runner. *)

\* The type check of all packages at once.
LEMMA RunnerTypeChecks ==
  ASSUME RunnerInv, NEW verdict \in {"pass", "override", "fail"}, NEW grouped,
         R!TypeCheckAll(verdict, grouped)
  PROVE  RunnerInv'
<1>1. /\ stage = "typecheck" /\ stage' \in {"chunks", "runtimes", "done", "each"}
      /\ told' = told /\ chunksOk' = chunksOk /\ cancelled' = cancelled
  BY DEF R!TypeCheckAll, R!Goto
<1>2. /\ told = [p \in R!Pkgs |-> told[p]]
      /\ results = [p \in R!Pkgs |-> results[p]]
      /\ chunksOk \in BOOLEAN /\ cancelled \in BOOLEAN
      /\ \A p \in R!Pkgs : told[p] \in Told /\ worker[p] \in Workers /\ results[p] \in Result
  BY DEF RunnerInv, RunnerTypes
<1>3. PICK w : worker' = [p \in R!Pkgs |-> IF worker[p] = "ready" THEN w ELSE worker[p]]
               /\ w \in {"chunk", "queued", "none", "waiting"}
               /\ (w = "none" <=> verdict = "override")
               /\ (stage' = "done" <=> verdict = "override")
               /\ (stage' = "chunks" => w = "chunk")
  <2>1. PICK w : /\ R!Start(R!Ready, w)
                 /\ \/ verdict = "pass" /\ w = "chunk" /\ stage' = "chunks"
                    \/ verdict = "pass" /\ w = "queued" /\ stage' = "runtimes"
                    \/ verdict = "override" /\ w = "none" /\ stage' = "done"
                    \/ verdict = "fail" /\ w = "waiting" /\ stage' = "each"
    BY DEF R!TypeCheckAll, R!Goto
  <2> QED BY <2>1 DEF R!Start, R!Ready
<1>4. ASSUME NEW p \in R!Pkgs
      PROVE  /\ results'[p] \in Result
             /\ verdict # "override" => Remains(results[p], results'[p])
             /\ verdict = "override" =>
                  \/ Remains(results[p], results'[p]) /\ p \notin R!Runnable
                  \/ Blames(results[p], results'[p])
  <2>1. CASE results'[p] = results[p] /\ (verdict = "override" => p \notin R!Runnable)
    BY <1>2, <2>1 DEF Remains
  <2>2. CASE results'[p] = [results[p] EXCEPT !.typecheck = "pass"] /\ verdict # "override"
    <3>1. "pass" \in Phases
      BY DEF Phases
    <3> QED BY <1>2, <2>2, <3>1, Marked
  <2>3. CASE /\ p \in R!Runnable /\ verdict = "override"
             /\ results'[p] = [R!Failed(results[p], "process") EXCEPT
                                 !.typecheck = "fail", !.runtime = "skip"]
    <3> DEFINE y == R!Failed(results[p], "process")
    <3>2. y \in Result /\ y.action = "fail" /\ y.owner = "process"
      BY <1>2, Blamed, OwnersAre
    <3> HIDE DEF y
    <3>3. results'[p] = [y EXCEPT !.typecheck = "fail", !.runtime = "skip"]
      BY <2>3 DEF y
    <3>1. results'[p] \in Result /\ results'[p].action = "fail" /\ results'[p].owner = "process"
      BY <3>2, <3>3 DEF Result, Phases
    <3> QED BY <3>1, <2>3 DEF Blames, R!Runnable
  <2>4. CASE verdict = "pass"
    BY <2>1, <2>2, <2>4 DEF R!TypeCheckAll
  <2>5. CASE verdict = "override"
    BY <2>1, <2>3, <2>5 DEF R!TypeCheckAll
  <2>6. CASE verdict = "fail"
    BY <2>1, <2>6 DEF R!TypeCheckAll
  <2> QED BY <2>4, <2>5, <2>6
<1>5. results' = [p \in R!Pkgs |-> results'[p]]
  BY <1>2 DEF R!TypeCheckAll
<1>6. ASSUME NEW p \in R!Pkgs, NEW z, z = results'[p], NEW v, v = worker'[p]
      PROVE  Decided(z, told[p], v, stage', chunksOk, cancelled)
  <2>1. Decided(results[p], told[p], worker[p], stage, chunksOk, cancelled)
    BY DEF RunnerInv
  <2>2. v = IF worker[p] = "ready" THEN w ELSE worker[p]
    BY <1>3, <1>6
  <2>3. CASE verdict # "override"
    <3>1. Remains(results[p], z)
      BY <1>4, <1>6, <2>3
    <3>2. w \in WithRun
      BY <1>3, <2>3 DEF WithRun
    <3>3. /\ stage' \in {"chunks", "runtimes", "each"} /\ stage = "typecheck"
          /\ stage' = "chunks" => w = "chunk"
      BY <1>1, <1>3, <2>3
    <3>4. (worker[p] = "none" /\ v = "none") \/ (worker[p] = "ready" /\ v = w)
      BY <2>1, <2>2, <3>3 DEF Decided
    <3>5. results[p].action = "skip" => worker[p] = "none" /\ told[p] = "nothing"
      BY <2>1 DEF Decided
    <3>6. results[p].action = "pass" =>
            told[p] = "pass" /\ (results[p].runtime = "pass" \/ cancelled)
      BY <2>1 DEF Decided
    <3>7. /\ results[p].action = "fail" /\ results[p].owner = "none" => worker[p] = "ready"
          /\ results[p].owner = "blank" => cancelled
      BY <2>1, <3>3, <3>4 DEF Decided, Early, WithRun
    <3> QED BY <3>1, <3>2, <3>3, <3>4, <3>5, <3>6, <3>7 DEF Decided, Remains, Early
  <2>4. CASE verdict = "override" /\ Blames(results[p], z)
    <3>1. v = "none" /\ stage' = "done"
      BY <2>1, <2>2, <2>4, <1>1, <1>3 DEF Decided
    <3> QED BY <2>1, <2>4, <3>1 DEF Decided, Blames, Early
  <2>5. CASE verdict = "override" /\ Remains(results[p], z) /\ p \notin R!Runnable
    <3>1. results[p].action = "skip" \/ results[p].owner # "none"
      BY <2>5 DEF R!Runnable
    <3>2. w = "none" /\ stage' = "done"
      BY <1>3, <2>5
    <3>3. v = "none"
      BY <2>1, <2>2, <3>2, <1>1 DEF Decided
    <3> QED BY <2>1, <3>1, <3>2, <3>3, <2>5 DEF Decided, Remains, Early
  <2> QED BY <2>3, <2>4, <2>5, <1>4, <1>6
<1>7. stage' \in Stages /\ worker' = [p \in R!Pkgs |-> worker'[p]]
      /\ \A p \in R!Pkgs : worker'[p] \in Workers
  <2>1. w \in Workers
    BY <1>3 DEF Workers, WithRun
  <2> QED BY <1>1, <1>2, <1>3, <2>1 DEF Stages
<1> QED BY <1>1, <1>2, <1>4, <1>5, <1>6, <1>7, EveryPackage

\* A step of one package's goroutine.
LEMMA OnePackage ==
  ASSUME RunnerInv, NEW p \in R!Pkgs, NEW z \in Result, NEW t \in Told, NEW w \in Workers,
         results' = [results EXCEPT ![p] = z], told' = [told EXCEPT ![p] = t],
         R!Start({p}, w), UNCHANGED <<stage, cancelled, chunksOk>>,
         Decided(z, t, w, stage, chunksOk, cancelled)
  PROVE  RunnerInv'
<1>1. /\ results \in [R!Pkgs -> Result] /\ told \in [R!Pkgs -> Told]
      /\ worker \in [R!Pkgs -> Workers]
      /\ stage \in Stages /\ cancelled \in BOOLEAN /\ chunksOk \in BOOLEAN
  BY DEF RunnerInv, RunnerTypes
<1>2. worker' = [q \in R!Pkgs |-> IF q = p THEN w ELSE worker[q]]
  BY DEF R!Start
<1>3. ASSUME NEW q \in R!Pkgs
      PROVE  /\ results'[q] \in Result /\ told'[q] \in Told /\ worker'[q] \in Workers
             /\ Decided(results'[q], told'[q], worker'[q], stage, chunksOk, cancelled)
  <2>1. CASE q = p
    BY <1>1, <1>2, <2>1
  <2>2. CASE q # p
    <3>1. results'[q] = results[q] /\ told'[q] = told[q] /\ worker'[q] = worker[q]
      BY <1>1, <1>2, <2>2
    <3>2. Decided(results[q], told[q], worker[q], stage, chunksOk, cancelled)
      BY DEF RunnerInv
    <3> QED BY <1>1, <3>1, <3>2
  <2> QED BY <2>1, <2>2
<1>4. /\ results' = [q \in R!Pkgs |-> results'[q]] /\ told' = [q \in R!Pkgs |-> told'[q]]
      /\ worker' = [q \in R!Pkgs |-> worker'[q]]
  BY <1>1, <1>2
<1> QED BY <1>1, <1>3, <1>4, EveryPackage

\* A goroutine is at work on a package that is neither skipped nor, in these
\* stages, done with.
LEMMA RunnerWorkers ==
  ASSUME RunnerInv, NEW p \in R!Pkgs, NEW ok \in BOOLEAN,
         R!TakeSlot(p) \/ R!GiveUp(p) \/ R!CheckEnds(p, ok) \/ R!RunEnds(p, ok)
  PROVE  RunnerInv'
<1> DEFINE r == results[p]
           t == told[p]
           v == worker[p]
<1>1. /\ results \in [R!Pkgs -> Result] /\ told \in [R!Pkgs -> Told]
      /\ worker \in [R!Pkgs -> Workers]
      /\ r \in Result /\ t \in Told /\ v \in Workers
      /\ Decided(r, t, v, stage, chunksOk, cancelled)
  BY DEF RunnerInv, RunnerTypes
<1>2. v \in {"waiting", "queued", "check", "run"}
  BY DEF R!TakeSlot, R!GiveUp, R!CheckEnds, R!RunEnds
<1>3. UNCHANGED <<stage, cancelled, chunksOk>>
  BY DEF R!TakeSlot, R!GiveUp, R!CheckEnds, R!RunEnds
<1> HIDE DEF r, t, v
<1>4. stage \notin Early \cup {"done", "typecheck", "chunks"} /\ r.action # "skip"
  BY <1>1, <1>2 DEF Decided
<1>5. results = [results EXCEPT ![p] = r] /\ told = [told EXCEPT ![p] = t]
  BY <1>1 DEF r, t
<1>6. /\ "check" \in Workers /\ "run" \in Workers /\ "none" \in Workers
      /\ "pass" \in Phases /\ "pass" \in Told /\ "fail" \in Told
      /\ "run" \in WithRun /\ "check" \in WithRun
  BY DEF Workers, WithRun, Phases, Told
<1>7. CASE R!TakeSlot(p)
  <2>1. PICK w \in {"check", "run"} : R!Start({p}, w)
    BY <1>7 DEF R!TakeSlot
  <2>2. results' = results /\ told' = told
    BY <1>7 DEF R!TakeSlot
  <2>3. Decided(r, t, w, stage, chunksOk, cancelled)
    BY <1>1, <1>4, <1>6, <2>1 DEF Decided
  <2> QED BY <1>1, <1>3, <1>5, <1>6, <2>1, <2>2, <2>3, OnePackage
<1>8. CASE R!GiveUp(p)
  <2>1. PICK z : /\ z = [r EXCEPT !.owner = "runner",
                           !.typecheck = IF v = "waiting" THEN "fail" ELSE @,
                           !.runtime = IF v = "queued" THEN "fail" ELSE @]
                 /\ results' = [results EXCEPT ![p] = z]
    BY <1>1, <1>8 DEF R!GiveUp, r, v
  <2>2. z \in Result /\ z.action = r.action /\ z.owner = "runner"
    BY <1>1, <2>1 DEF Result, Phases, Owners
  <2>3. cancelled /\ told' = told /\ R!Start({p}, "none")
    BY <1>8 DEF R!GiveUp
  <2>4. Decided(z, t, "none", stage, chunksOk, cancelled)
    BY <1>1, <1>4, <2>2, <2>3 DEF Decided
  <2> QED BY <1>1, <1>3, <1>5, <1>6, <2>1, <2>2, <2>3, <2>4, OnePackage
<1>9. CASE R!CheckEnds(p, ok) /\ ok = TRUE
  <2>1. PICK z : z = [r EXCEPT !.typecheck = "pass"] /\ results' = [results EXCEPT ![p] = z]
    BY <1>1, <1>9 DEF R!CheckEnds, r
  <2>2. z \in Result /\ Remains(r, z)
    BY <1>1, <1>6, <2>1, Marked
  <2>3. told' = told /\ R!Start({p}, "run")
    BY <1>9 DEF R!CheckEnds
  <2>4. Decided(z, t, "run", stage, chunksOk, cancelled)
    BY <1>1, <1>4, <1>6, <2>2 DEF Decided, Remains
  <2> QED BY <1>1, <1>3, <1>5, <1>6, <2>1, <2>2, <2>3, <2>4, OnePackage
<1>10. CASE R!CheckEnds(p, ok) /\ ok = FALSE
  <2>1. PICK z : /\ z = [r EXCEPT !.owner = "process", !.typecheck = "fail"]
                 /\ results' = [results EXCEPT ![p] = z]
    BY <1>1, <1>10 DEF R!CheckEnds, r
  <2>2. z \in Result /\ z.action = r.action /\ z.owner = "process" /\ z.runtime = r.runtime
    BY <1>1, <2>1 DEF Result, Phases, Owners
  <2>3. told' = told /\ R!Start({p}, "none")
    BY <1>10 DEF R!CheckEnds
  <2>4. Decided(z, t, "none", stage, chunksOk, cancelled)
    BY <1>1, <1>4, <2>2 DEF Decided
  <2> QED BY <1>1, <1>3, <1>5, <1>6, <2>1, <2>2, <2>3, <2>4, OnePackage
<1>11. CASE R!RunEnds(p, ok)
  <2>1. PICK z : z = R!Verdict(r, ok) /\ results' = [results EXCEPT ![p] = z]
    BY <1>1, <1>11 DEF R!RunEnds, r
  <2>2. /\ z \in Result
        /\ ok => z.action = "pass" /\ z.runtime = "pass" /\ z.owner = r.owner
        /\ ~ok => z.action = "fail" /\ z.owner = "process"
    BY <1>1, <2>1, Judged
  <2>3. PICK s \in Told : /\ told' = [told EXCEPT ![p] = s]
                          /\ ok => s = "pass"
    BY <1>6, <1>11 DEF R!RunEnds
  <2>4. R!Start({p}, "none")
    BY <1>11 DEF R!RunEnds
  <2>5. Decided(z, s, "none", stage, chunksOk, cancelled)
    <3>1. \/ z.action = "pass" /\ z.runtime = "pass" /\ s = "pass" /\ z.owner = r.owner
          \/ z.action = "fail" /\ z.owner = "process"
      BY <2>2, <2>3
    <3>2. r.owner = "blank" => cancelled
      BY <1>1 DEF Decided
    <3> QED BY <1>4, <3>1, <3>2 DEF Decided, Early
  <2> QED BY <1>1, <1>3, <1>6, <2>1, <2>2, <2>3, <2>4, <2>5, OnePackage
<1> QED BY <1>7, <1>8, <1>9, <1>10, <1>11

\* A chunk's process ends: those with a record have a verdict; the others are
\* left to the second round, which chunksOk = FALSE announces.
LEMMA RunnerChunks ==
  ASSUME RunnerInv, NEW k, NEW S \in SUBSET R!Pkgs, NEW passed, R!ChunkEnds(k, S, passed)
  PROVE  RunnerInv'
<1>1. /\ results \in [R!Pkgs -> Result] /\ told \in [R!Pkgs -> Told]
      /\ worker \in [R!Pkgs -> Workers] /\ chunksOk \in BOOLEAN /\ cancelled \in BOOLEAN
  BY DEF RunnerInv, RunnerTypes
<1>2. /\ stage = "chunks" /\ stage' = stage /\ cancelled' = cancelled
      /\ S \subseteq R!Chunk(k) /\ chunksOk' = (chunksOk /\ S = R!Chunk(k))
      /\ results' = [p \in R!Pkgs |-> IF p \in S THEN R!Verdict(results[p], p \in passed)
                                      ELSE results[p]]
      /\ told' = [p \in R!Pkgs |-> CASE p \notin S    -> told[p]
                                     [] p \in passed  -> "pass"
                                     [] OTHER         -> "fail"]
      /\ worker' = [p \in R!Pkgs |-> IF p \in R!Chunk(k) THEN "grouped" ELSE worker[p]]
      /\ \A p \in R!Chunk(k) : worker[p] = "chunk"
      /\ passed \subseteq S
  BY DEF R!ChunkEnds, R!Start, R!Chunk
<1>3. /\ "pass" \in Told /\ "fail" \in Told /\ "grouped" \in Workers
      /\ "chunks" \in Stages /\ "chunks" \notin Early
  BY DEF Told, Workers, Stages, Early
<1>4. ASSUME NEW p \in R!Pkgs
      PROVE  /\ results'[p] \in Result /\ told'[p] \in Told /\ worker'[p] \in Workers
             /\ Decided(results'[p], told'[p], worker'[p], stage, chunksOk', cancelled)
  <2>1. Decided(results[p], told[p], worker[p], stage, chunksOk, cancelled)
    BY DEF RunnerInv
  <2>2. CASE p \in S
    <3>1. PICK z : z = R!Verdict(results[p], p \in passed) /\ results'[p] = z
      BY <1>2, <2>2
    <3>2. /\ z \in Result
          /\ p \in passed => z.action = "pass" /\ z.runtime = "pass" /\ z.owner = results[p].owner
          /\ p \notin passed => z.action = "fail" /\ z.owner = "process"
      <4>1. CASE p \in passed
        <5>1. z = [results[p] EXCEPT !.action = "pass", !.runtime = "pass"]
          BY <3>1, <4>1 DEF R!Verdict
        <5> QED BY <1>1, <4>1, <5>1, Passed
      <4>2. CASE p \notin passed
        <5>1. z = [R!Failed(results[p], "process") EXCEPT !.runtime = "fail"]
          BY <3>1, <4>2 DEF R!Verdict
        <5>2. PICK y : y = R!Failed(results[p], "process")
          OBVIOUS
        <5>3. y \in Result /\ y.action = "fail" /\ y.owner = "process"
          BY <1>1, <5>2 DEF R!Failed, Result, Owners
        <5> QED BY <4>2, <5>1, <5>2, <5>3 DEF Result, Phases
      <4> QED BY <4>1, <4>2
    <3>3. told'[p] = IF p \in passed THEN "pass" ELSE "fail"
      BY <1>2, <2>2
    <3>4. worker'[p] = "grouped"
      BY <1>2, <2>2
    <3>5. ASSUME NEW y, y = told'[p]
          PROVE  y \in Told /\ Decided(z, y, "grouped", stage, chunksOk', cancelled)
      <4>1. results[p].owner = "blank" => cancelled
        BY <2>1 DEF Decided
      <4> QED BY <1>2, <1>3, <3>2, <3>3, <3>5, <4>1 DEF Decided
    <3> QED BY <1>3, <3>1, <3>2, <3>4, <3>5
  <2>3. CASE p \in R!Chunk(k) /\ p \notin S
    <3>1. results'[p] = results[p] /\ told'[p] = told[p] /\ worker'[p] = "grouped"
          /\ worker[p] = "chunk" /\ chunksOk' = FALSE
      BY <1>2, <2>3
    <3>2. Decided(results[p], told[p], "grouped", stage, chunksOk', cancelled)
      BY <1>2, <1>3, <2>1, <3>1 DEF Decided
    <3> QED BY <1>1, <1>3, <3>1, <3>2
  <2>4. CASE p \notin R!Chunk(k)
    <3>1. results'[p] = results[p] /\ told'[p] = told[p] /\ worker'[p] = worker[p]
      BY <1>2, <2>4
    <3>2. chunksOk' => chunksOk
      BY <1>2
    <3>3. Decided(results[p], told[p], worker[p], stage, chunksOk', cancelled)
      BY <2>1, <3>2 DEF Decided
    <3> QED BY <1>1, <3>1, <3>3
  <2> QED BY <1>2, <2>2, <2>3, <2>4
<1>5. /\ results' = [p \in R!Pkgs |-> results'[p]] /\ told' = [p \in R!Pkgs |-> told'[p]]
      /\ worker' = [p \in R!Pkgs |-> worker'[p]] /\ chunksOk' \in BOOLEAN
  BY <1>1, <1>2
<1>6. PICK b \in BOOLEAN : chunksOk' = b
  BY <1>5
<1>7. \A p \in R!Pkgs : Decided(results'[p], told'[p], worker'[p], stage, b, cancelled)
  BY <1>4, <1>6
<1> QED BY <1>1, <1>2, <1>3, <1>4, <1>5, <1>6, <1>7, EveryPackage

LEMMA RunnerEnds ==
  ASSUME RunnerInv, R!ChunksEnd \/ R!AllEnd \/ R!Cancel
  PROVE  RunnerInv'
<1>1. /\ results = [p \in R!Pkgs |-> results[p]] /\ told = [p \in R!Pkgs |-> told[p]]
      /\ worker = [p \in R!Pkgs |-> worker[p]]
      /\ stage \in Stages /\ chunksOk \in BOOLEAN /\ cancelled \in BOOLEAN
      /\ \A p \in R!Pkgs : results[p] \in Result /\ told[p] \in Told /\ worker[p] \in Workers
  BY DEF RunnerInv, RunnerTypes
<1>2. \A p \in R!Pkgs : Decided(results[p], told[p], worker[p], stage, chunksOk, cancelled)
  BY DEF RunnerInv
<1>3. UNCHANGED <<results, told, chunksOk>>
  BY DEF R!ChunksEnd, R!AllEnd, R!Cancel
<1>4. CASE R!ChunksEnd
  <2> DEFINE w == [p \in R!Pkgs |-> IF worker[p] = "grouped" /\ ~chunksOk THEN "queued"
                                    ELSE "none"]
  <2>1. /\ stage = "chunks" /\ worker' = w /\ cancelled' = cancelled
        /\ \A p \in R!Pkgs : worker[p] # "chunk"
        /\ stage' = IF chunksOk THEN "done" ELSE "runtimes"
    BY <1>4 DEF R!ChunksEnd, R!Goto
  <2>2. stage' \in Stages
    BY <2>1 DEF Stages
  <2>3. ASSUME NEW p \in R!Pkgs
        PROVE  w[p] \in Workers /\ Decided(results[p], told[p], w[p], stage', chunksOk, cancelled)
    <3>1. w[p] = IF worker[p] = "grouped" /\ ~chunksOk THEN "queued" ELSE "none"
      OBVIOUS
    <3> HIDE DEF w
    <3>2. Decided(results[p], told[p], worker[p], "chunks", chunksOk, cancelled)
      BY <1>2, <2>1
    <3>3. worker[p] # "chunk"
      BY <2>1
    <3> QED BY <3>1, <3>2, <3>3, <2>1 DEF Decided, Workers, WithRun, Early
  <2>4. w = [p \in R!Pkgs |-> w[p]]
    OBVIOUS
  <2> HIDE DEF w
  <2> QED BY <1>1, <1>3, <2>1, <2>2, <2>3, <2>4, EveryPackage
<1>5. CASE R!AllEnd
  <2>1. /\ stage \in {"each", "runtimes"} /\ stage' = "done" /\ worker' = worker
        /\ cancelled' = cancelled /\ \A p \in R!Pkgs : worker[p] = "none"
    BY <1>5 DEF R!AllEnd, R!Goto
  <2>2. ASSUME NEW p \in R!Pkgs
        PROVE  Decided(results[p], told[p], worker[p], "done", chunksOk, cancelled)
    BY <1>2, <2>1 DEF Decided, WithRun, Early
  <2>3. "done" \in Stages
    BY DEF Stages
  <2>4. RunnerTypes'
    BY <1>3, <2>1, <2>3 DEF RunnerInv, RunnerTypes
  <2> QED BY <1>3, <2>1, <2>2, <2>4 DEF RunnerInv
<1>6. CASE R!Cancel
  <2>1. worker' = worker /\ stage' = stage
    BY <1>6 DEF R!Cancel
  <2>2. cancelled' \in BOOLEAN /\ cancelled'
    BY <1>6 DEF R!Cancel
  <2>3. ASSUME NEW p \in R!Pkgs
        PROVE  Decided(results[p], told[p], worker[p], stage, chunksOk, cancelled')
    BY <1>2, <2>2 DEF Decided
  <2>4. RunnerTypes'
    BY <1>3, <2>1, <2>2 DEF RunnerInv, RunnerTypes
  <2> QED BY <1>3, <2>1, <2>3, <2>4 DEF RunnerInv
<1> QED BY <1>4, <1>5, <1>6

LEMMA RunnerStepKeeps ==
  ASSUME RunnerInv, R!RunnerNext
  PROVE  RunnerInv'
BY RunnerLoads, RunnerCompiles, RunnerPrepares, RunnerTypeChecks, RunnerWorkers,
   RunnerChunks, RunnerEnds DEF R!RunnerNext

LEMMA RunnerRests ==
  ASSUME RunnerInv, UNCHANGED runnerVars
  PROVE  RunnerInv'
BY DEF runnerVars, RunnerInv, RunnerTypes

LEMMA RunnerAnswers == RunnerInv => VerdictsTrue
<1> SUFFICES ASSUME RunnerInv, stage = "done", NEW p \in R!Pkgs
             PROVE  /\ results[p].action = "pass" =>
                         told[p] = "pass" /\ (results[p].runtime = "pass" \/ cancelled)
                    /\ results[p].action = "fail" =>
                         results[p].owner # "none" /\ (results[p].owner = "blank" => cancelled)
                    /\ results[p].action = "skip" => told[p] = "nothing"
  BY DEF VerdictsTrue, R!VerdictsTrue
<1>1. Decided(results[p], told[p], worker[p], stage, chunksOk, cancelled)
  BY DEF RunnerInv
<1> QED BY <1>1 DEF Decided, Early, WithRun

\* A package is reported as passed only if the last process that ran its tests
\* said so, whatever fails, is cancelled or overlaps (runner.go).
THEOREM RunnerVerdictsTrue == CompilerSpec => []VerdictsTrue
<1>1. CompilerInit => RunnerInv
  BY RunnerStarts DEF CompilerInit
<1>2. RunnerInv /\ [CompilerNext]_<<part, cacheVars, colourVars, runnerVars>> => RunnerInv'
  <2> SUFFICES ASSUME RunnerInv, [CompilerNext]_<<part, cacheVars, colourVars, runnerVars>>
               PROVE  RunnerInv'
    OBVIOUS
  <2>1. CASE R!RunnerNext
    BY <2>1, RunnerStepKeeps
  <2>2. CASE UNCHANGED runnerVars
    BY <2>2, RunnerRests
  <2> QED BY <2>1, <2>2 DEF CompilerNext, CacheStep, ColourStep, RunnerStep
<1> QED BY <1>1, <1>2, RunnerAnswers, PTL DEF CompilerSpec
=============================================================================
