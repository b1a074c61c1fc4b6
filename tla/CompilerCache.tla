--------------------------- MODULE CompilerCache ---------------------------
(***************************************************************************)
(* The compiler's artifact cache (compiler/compiler-cache.go) and the      *)
(* pipeline that uses it, CompileService.Compile (compiler/service.go).    *)
(*                                                                         *)
(* Several compiler processes share one cache directory.  Each step below  *)
(* is a system call or a run of steps that touch nothing shared, so        *)
(* processes interleave between them, may be killed at any point, and may  *)
(* fail to write.  A file's contents are the inputs they were made from, a *)
(* digest is what is digested (SHA-256 does not collide), and a key is the *)
(* tuple of fields it hashes.                                              *)
(***************************************************************************)
EXTENDS Naturals, Sequences, SequencesExt

CONSTANTS Compilers,     \* processes
          Generated,     \* the packages to compile, a sequence
          Overrides,     \* the override packages of the copy plan, a sequence
          Imports,       \* the packages whose sources each package's digest covers
          NFiles,        \* files of a package
          MaxEdits,      \* bound: edits of input files
          MaxFaults,     \* bound: kills, failed writes and damaged blobs
          EditAnytime,   \* inputs may change while a compiler runs
          NoEntry

VARIABLES
  world,    \* the versions of the input files; graph is what the packages say
            \* together (who implements an interface and waits, whether anyone
            \* imports reflect), meta the metadata of the overrides
  blobs,    \* blobs/sha256: the digests on disk, and the damaged ones
  entries,  \* entries: the published manifest of a key
  job,      \* what each compiler is doing
  out,      \* the output directory of each compiler
  edits, faults

cacheVars == <<world, blobs, entries, job, out, edits, faults>>

Packages == ToSet(Generated) \cup ToSet(Overrides)
Files == Packages \X (1..NFiles)

\* A package list as the list of its files.
FileList(pkgs) ==
  FlattenSeq([i \in DOMAIN pkgs |-> [f \in 1..NFiles |-> <<pkgs[i], f>>]])

Idle == [pc |-> "idle", fast |-> FALSE, asked |-> NoEntry, facts |-> NoEntry,
         keys |-> NoEntry, loaded |-> NoEntry, todo |-> <<>>]

CacheInit ==
  /\ world = [src |-> [p \in ToSet(Generated) |-> 0],
              ts |-> [p \in ToSet(Overrides) |-> 0], graph |-> 0, meta |-> 0]
  /\ blobs = [good |-> {}, damaged |-> {}]
  /\ entries = [k \in {} |-> NoEntry]
  /\ job = [c \in Compilers |-> Idle]
  /\ out = [c \in Compilers |-> [x \in Files |-> NoEntry]]
  /\ edits = 0
  /\ faults = 0

-----------------------------------------------------------------------------
(* Keys and contents. *)

\* Mutant: the digest of a package leaves out its imports.
OwnDigest(p, src) == [q \in {p} |-> src[q]]

\* nodeDigest: the files of the package and of the packages it imports.
NodeDigest(p, src) == [q \in Imports[p] |-> src[q]]

\* generatedKey and copiedKey.  Neither has what the graph says as a whole, nor
\* the metadata of overrides.
Key(p, w) ==
  IF p \in ToSet(Generated) THEN <<p, "generated", NodeDigest(p, w.src)>>
  ELSE <<p, "copied", w.ts[p]>>

\* What a file of the output is made from: generated code from the sources that a
\* package imports, and from the rest: which methods are async anywhere in the graph,
\* whether its types are described for reflect, which override functions are async.
Sources(x, w) == IF x[1] \in ToSet(Generated) THEN [q \in Imports[x[1]] |-> w.src[q]]
                 ELSE w.ts[x[1]]
Rest(x, w) == IF x[1] \in ToSet(Generated) THEN <<w.graph, w.meta>> ELSE <<0, 0>>
Contents(x, w) == [of |-> x, from |-> Sources(x, w), rest |-> Rest(x, w)]

\* What a job works from: the sources it loaded, the facts it read.
Inputs(j) == [src |-> j.loaded.src, ts |-> j.facts.ts,
              graph |-> j.loaded.graph, meta |-> j.facts.meta]

\* The fields of a job that a step changes.
With(j, changes) ==
  [k \in DOMAIN j |-> IF k \in DOMAIN changes THEN changes[k] ELSE j[k]]

Go(c, changes) == job' = [job EXCEPT ![c] = With(@, changes)]

\* OverrideRegistryOwner.Facts reads the override directories once.
Facts(j) == IF j.facts # NoEntry THEN j.facts
            ELSE [ts |-> world.ts, meta |-> world.meta]

-----------------------------------------------------------------------------
(* CompileService.Compile, up to a decision to compile. *)

\* LoadIdentity and Facts; fast = compilerCacheFastReplayAllowed.
Begin(c, fast) ==
  /\ job[c].pc = "idle"
  /\ Go(c, [pc |-> IF fast THEN "entries" ELSE "load", fast |-> fast,
            asked |-> world, facts |-> Facts(job[c])])
  /\ UNCHANGED <<world, blobs, entries, out, edits, faults>>

\* CopyPlan and Entries: the keys of the input files as they are now.  The
\* fast path replays before it loads; otherwise the sources are loaded first.
Entries(c) ==
  /\ job[c].pc = "entries"
  /\ LET retried == job[c].fast /\ job[c].loaded # NoEntry
     IN Go(c, [keys |-> [src |-> world.src, ts |-> job[c].facts.ts],
               pc   |-> IF retried THEN "emit" ELSE "replay",
               todo |-> FileList(Generated \o Overrides)])
  /\ UNCHANGED <<world, blobs, entries, out, edits, faults>>

\* readManifest for the entry of a file.
Manifest(c, x) ==
  LET k == Key(x[1], job[c].keys)
  IN  IF k \in DOMAIN entries THEN entries[k] ELSE NoEntry

\* Mutant: the digest of a blob is not compared.
UsableUnchecked(c, x) ==
  /\ Manifest(c, x) # NoEntry
  /\ Manifest(c, x)[x[2]] \in blobs.good \cup blobs.damaged

\* replayManifest: the blob is there with the size and the digest recorded.
Usable(c, x) ==
  /\ Manifest(c, x) # NoEntry
  /\ Manifest(c, x)[x[2]] \in blobs.good

Replayed(c, x) ==
  LET d == Manifest(c, x)[x[2]]
  IN  IF d \in blobs.good THEN d ELSE [d EXCEPT !.of = "damaged"]

\* One file is replayed; writeFileAtomic renames it into place.
ReplayFile(c) ==
  /\ job[c].pc = "replay" /\ job[c].todo # <<>>
  /\ LET x == Head(job[c].todo) IN
     /\ Usable(c, x)
     /\ out' = [out EXCEPT ![c][x] = Replayed(c, x)]
     /\ Go(c, [todo |-> Tail(job[c].todo),
               pc |-> IF Len(job[c].todo) = 1 THEN "replayed" ELSE "replay"])
  /\ UNCHANGED <<world, blobs, entries, edits, faults>>

\* Replay gives up: what it has written stays.
ReplayMiss(c) ==
  /\ job[c].pc = "replay" /\ ~Usable(c, Head(job[c].todo))
  /\ Go(c, [pc |-> IF job[c].loaded = NoEntry THEN "load" ELSE "emit"])
  /\ UNCHANGED <<world, blobs, entries, out, edits, faults>>

\* PackageGraphOwner.Load parses and type-checks the sources.
Load(c) ==
  /\ job[c].pc = "load"
  /\ Go(c, [pc |-> "entries", loaded |-> [src |-> world.src, graph |-> world.graph]])
  /\ UNCHANGED <<world, blobs, entries, out, edits, faults>>

-----------------------------------------------------------------------------
(* Compiling and storing. *)

\* Semantic model, lowering, EmitToMemory, WriteFiles, in the job's own
\* output directory.
Emit(c) ==
  /\ job[c].pc = "emit"
  /\ out' = [out EXCEPT ![c] = [x \in Files |->
       IF x[1] \in ToSet(Generated) THEN Contents(x, Inputs(job[c])) ELSE @[x]]]
  /\ Go(c, [pc |-> "store", todo |-> FileList(Generated)])
  /\ UNCHANGED <<world, blobs, entries, edits, faults>>

\* CopyPackages, after StoreGenerated.
CopyPackages(c) ==
  /\ job[c].pc = "store" /\ job[c].todo = <<>>
  /\ out' = [out EXCEPT ![c] = [x \in Files |->
       IF x[1] \in ToSet(Overrides) THEN Contents(x, Inputs(job[c])) ELSE @[x]]]
  /\ Go(c, [pc |-> "storecopied", todo |-> FileList(Overrides)])
  /\ UNCHANGED <<world, blobs, entries, edits, faults>>

StoresFiles(c) == job[c].pc \in {"store", "storecopied"} /\ job[c].todo # <<>>

\* The file is the last of its package: the manifest is next.
LastOfPackage(c) == Head(job[c].todo)[2] = NFiles

AfterFile(c) ==
  [todo |-> Tail(job[c].todo),
   pc |-> IF job[c].pc = "storecopied" /\ Len(job[c].todo) = 1 THEN "done"
          ELSE job[c].pc]

\* storeManifest: the directory is renamed into place.  The rename fails when
\* the entry exists, and the old manifest stays.
Publish(c, p) ==
  LET k == Key(p, job[c].keys)
      m == [f \in 1..NFiles |-> Contents(<<p, f>>, Inputs(job[c]))]
  IN  entries' = IF k \in DOMAIN entries THEN entries
                 ELSE [l \in DOMAIN entries \cup {k} |->
                         IF l = k THEN m ELSE entries[l]]

\* storeBlob: nothing is written when the path exists, damaged or not; a
\* failure (stored = FALSE) is not reported.
StoreFile(c, stored) ==
  /\ StoresFiles(c)
  /\ LET x == Head(job[c].todo)
         d == Contents(x, Inputs(job[c]))
     IN /\ stored \/ (d \notin blobs.good \cup blobs.damaged /\ faults < MaxFaults)
        /\ faults' = IF stored THEN faults ELSE faults + 1
        /\ blobs' = IF stored /\ d \notin blobs.damaged
                    THEN [blobs EXCEPT !.good = @ \cup {d}] ELSE blobs
        /\ IF LastOfPackage(c) THEN Publish(c, x[1]) ELSE UNCHANGED entries
  /\ Go(c, AfterFile(c))
  /\ UNCHANGED <<world, out, edits>>

\* The result is returned; the service keeps its override facts.
Return(c) ==
  /\ job[c].pc \in {"replayed", "done"}
  /\ job' = [job EXCEPT ![c] = [Idle EXCEPT !.facts = job[c].facts]]
  /\ UNCHANGED <<world, blobs, entries, out, edits, faults>>

-----------------------------------------------------------------------------
(* Faults, and what users do. *)

\* A diagnostic ends the compilation, or the process is killed or exits.
Exit(c) ==
  /\ job[c].pc # "idle" \/ job[c].facts # NoEntry
  /\ faults < MaxFaults
  /\ job' = [job EXCEPT ![c] = Idle]
  /\ faults' = faults + 1
  /\ UNCHANGED <<world, blobs, entries, out, edits>>

DamageBlob(d) ==
  /\ faults < MaxFaults
  /\ blobs' = [good |-> blobs.good \ {d}, damaged |-> blobs.damaged \cup {d}]
  /\ faults' = faults + 1
  /\ UNCHANGED <<world, entries, job, out, edits>>

CanEdit ==
  /\ edits < MaxEdits /\ edits' = edits + 1
  /\ EditAnytime \/ \A c \in Compilers : job[c].pc = "idle"
  /\ UNCHANGED <<blobs, entries, out, faults>>

\* Sources are edited; graph tells whether that changes what other packages than
\* those that import p are compiled to.
EditSource(p, graph) ==
  /\ CanEdit
  /\ world' = [src |-> [world.src EXCEPT ![p] = @ + 1], ts |-> world.ts,
               graph |-> IF graph THEN world.graph + 1 ELSE world.graph, meta |-> world.meta]
  /\ UNCHANGED job

\* An override file is edited, and services are restarted to see it.
EditOverride(p, meta) ==
  /\ CanEdit
  /\ world' = IF meta THEN [world EXCEPT !.meta = @ + 1]
              ELSE [world EXCEPT !.ts[p] = @ + 1]
  /\ job' = [c \in Compilers |->
               IF job[c].pc = "idle" THEN Idle ELSE job[c]]

CacheNext ==
  \/ \E c \in Compilers :
       \/ \E fast \in BOOLEAN : Begin(c, fast)
       \/ Entries(c) \/ ReplayFile(c) \/ ReplayMiss(c) \/ Load(c)
       \/ Emit(c) \/ CopyPackages(c)
       \/ \E stored \in BOOLEAN : StoreFile(c, stored)
       \/ Return(c) \/ Exit(c)
  \/ \E d \in blobs.good : DamageBlob(d)
  \/ \E p \in ToSet(Generated), graph \in BOOLEAN : EditSource(p, graph)
  \/ \E p \in ToSet(Overrides), meta \in BOOLEAN : EditOverride(p, meta)

CacheSpec == CacheInit /\ [][CacheNext]_cacheVars

-----------------------------------------------------------------------------
(* Properties. *)

\* A compiler has succeeded, and the inputs are still those it began with.
Succeeded(c) == job[c].pc \in {"replayed", "done"} /\ job[c].asked = world

\* Nothing has changed that is in no key.
Untouched(w) == w.graph = 0 /\ w.meta = 0

\* A compilation that succeeds leaves in its output directory every file, made from
\* the sources its digest covers as they are, whatever other compilers stored, left
\* half done or failed to write; and if it has compiled, or nothing has changed but
\* what digests cover, exactly what a compilation without a cache would have left.
CompiledFresh ==
  \A c \in Compilers : Succeeded(c) => \A x \in Files :
    /\ out[c][x].of = x /\ out[c][x].from = Sources(x, world)
    /\ job[c].pc = "done" \/ Untouched(world) => out[c][x] = Contents(x, world)

\* What a cache promises: replayed or compiled, the output is what a compilation
\* without it would have left.  No run checks it: a method that begins to wait in one
\* package makes calls of its interface async in packages that do not import it
\* (semantic-model.go:1696-1732), a first import of reflect adds the description of
\* types everywhere (service.go:204), and a digest covers only a package and what it
\* imports (compiler-cache.go:360-398).
GraphFresh ==
  \A c \in Compilers : Succeeded(c) => \A x \in Files : out[c][x] = Contents(x, world)
=============================================================================
