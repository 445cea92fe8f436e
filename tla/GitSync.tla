------------------------------ MODULE GitSync ------------------------------
(***************************************************************************)
(* Delivery of workers through a Git repository (internal/gitsync,         *)
(* internal/server/workerspecs.go, store/postgres/workerspecs.go): a spec  *)
(* is saved, rendered to files and committed to a branch, by the operator  *)
(* (Sync now) or by the reconciler of the leader, which compares the hash  *)
(* of the files with the one recorded at the last sync and never looks at  *)
(* the repository itself.                                                  *)
(*                                                                         *)
(* The files of a spec are one file, at the path of the spec, and their    *)
(* hash is injective.  A save reads the row and writes it back; one editor *)
(* at a time is as good as one step, for no other statement writes those   *)
(* columns.                                                                *)
(*                                                                         *)
(* Names that Schedules has too, whose leader runs the reconciler as well, *)
(* are told apart: a proof module extends both.                            *)
(***************************************************************************)
EXTENDS Naturals, FiniteSets

CONSTANTS
  Name,         \* names of worker specs, numbers in the order of the names
  Body,         \* what a spec may say: image, queues, replicas, ...
  Repo,         \* repositories (with their branch) one may connect to
  Base,         \* base paths one may set
  Reconciler,   \* the replicas, which run one each
  Request,      \* Sync now requests in flight
  MaxEdits, MaxFailures,  \* bounds on what the operator and the faults do
  Env           \* what may happen besides, a subset of Hazard

(***************************************************************************)
(* clone      the clone fails                                              *)
(* push       the push fails                                               *)
(* ackLost    the push succeeds and reports an error                       *)
(* dbError    SetWorkerSpecSyncResult fails                                *)
(* crash      the process dies                                             *)
(* foreign    somebody else commits to the branch, elsewhere               *)
(* overlap    two syncs of one spec run at the same time                   *)
(* reconnect  the connection is changed to another repository or branch    *)
(***************************************************************************)
Hazard == {"clone", "push", "ackLost", "dbError", "crash", "foreign",
           "overlap", "reconnect"}

none == 0

ASSUME GitSyncAssumption ==
  /\ Name \subseteq Nat \ {none} /\ none \notin Body /\ Base # {}
  /\ MaxEdits \in Nat /\ MaxFailures \in Nat
  /\ Env \subseteq Hazard
  /\ Reconciler \cap Request = {}

VARIABLES
  spec,    \* pf_worker_specs
  conn,    \* the git_connection setting: repository and base path
  repo,    \* the branch of each repository: its head and the tree there
  sync,    \* Engine.Sync and its caller, per reconciler and request
  todo,    \* the specs a reconciler's tick has listed and not yet seen to
  lost,    \* history: specs whose last sync left no record, or ran beside
           \* another sync of the spec
  edits, failures

gitVars == <<spec, conn, repo, sync, todo, lost, edits, failures>>

Syncer == Reconciler \cup Request

DefaultBase == CHOOSE b \in Base : TRUE

NoHash == <<>>
NoSpec == [id |-> none, body |-> none, auto |-> FALSE, hash |-> NoHash,
           state |-> "none"]
New(id, body, auto) == [id |-> id, body |-> body, auto |-> auto, hash |-> NoHash,
                        state |-> "pending"]
Elsewhere == <<"elsewhere", none>>
Paths == (Base \X Name) \cup {Elsewhere}

RepoPath(n) == <<conn.base, n>>
TreeHash(n, body) == <<RepoPath(n), body>>

Idle == [pc |-> "idle", name |-> none, row |-> NoSpec, repo |-> "none",
         head |-> 0, tree |-> <<>>, hash |-> NoHash, state |-> "none", beside |-> FALSE]

At(w, pc) == sync[w].pc = pc
Done(w) == sync' = [sync EXCEPT ![w] = Idle]
Fails(kind) == kind \in Env /\ failures < MaxFailures /\ failures' = failures + 1

InFlight(n) == {w \in Syncer : ~At(w, "idle") /\ sync[w].name = n}

\* A sync of a row that was read; beside another one of its spec, perhaps.
Begin(w, n, row) ==
  /\ IF InFlight(n) = {} THEN UNCHANGED failures ELSE Fails("overlap")
  /\ sync' = [v \in Syncer |->
       CASE v = w -> [Idle EXCEPT !.pc = "clone", !.name = n, !.row = row,
                                  !.beside = InFlight(n) # {}]
         [] v \in InFlight(n) -> [sync[v] EXCEPT !.beside = TRUE]
         [] OTHER -> sync[v]]

-----------------------------------------------------------------------------
(* The operator. *)

Edit == edits < MaxEdits /\ edits' = edits + 1

\* The columns of the bookkeeping belong to SetWorkerSpecSyncResult.
UpsertWorkerSpec(n, body, auto) ==
  /\ Edit
  /\ spec' = [spec EXCEPT ![n] =
       IF @ = NoSpec
       THEN New(edits + 2, body, auto)
       ELSE [@ EXCEPT !.body = body, !.auto = auto]]
  /\ spec' # spec
  /\ UNCHANGED <<conn, repo, sync, todo, lost, failures>>

\* The files stay in the repository.
DeleteWorkerSpec(n) ==
  /\ spec[n] # NoSpec /\ Edit
  /\ spec' = [spec EXCEPT ![n] = NoSpec]
  /\ UNCHANGED <<conn, repo, sync, todo, lost, failures>>

PutGitConnection(r, b) ==
  /\ Edit
  /\ conn' = [repo |-> r, base |-> b] /\ conn' # conn
  /\ r # conn.repo => "reconnect" \in Env
  /\ UNCHANGED <<spec, repo, sync, todo, lost, failures>>

\* Sync now: the row is read, and the engine called.
SyncNow(w, n) ==
  /\ w \in Request /\ At(w, "idle")
  /\ spec[n] # NoSpec /\ Edit
  /\ Begin(w, n, spec[n])
  /\ UNCHANGED <<spec, conn, repo, todo, lost>>

-----------------------------------------------------------------------------
(* The reconciler. *)

ToSync(n) == [name |-> n, row |-> spec[n], hash |-> TreeHash(n, spec[n].body)]

\* The tick of a leader reads the connection and lists the specs it is
\* responsible for, to be rendered under that connection; another leader ticks
\* beside it when the tick of the first outlasts its leadership.
ListSpecs(w) ==
  /\ w \in Reconciler /\ At(w, "idle") /\ todo[w] = {}
  /\ LET listed == {n \in Name : spec[n].auto} IN
     /\ listed # {}
     /\ todo' = [todo EXCEPT ![w] = {ToSync(n) : n \in listed}]
  /\ UNCHANGED <<spec, conn, repo, sync, lost, edits, failures>>

\* Mutant: a failed sync is not tried again while the files are the same.
ConvergedWhateverCame(it) == it.hash = it.row.hash \/ it.row.state = "error"
Converged(it) == it.hash = it.row.hash /\ it.row.state = "synced"

\* The next of the list, which is in the order of the names.
Consider(w) ==
  /\ w \in Reconciler /\ At(w, "idle")
  /\ \E it \in todo[w] :
       /\ \A other \in todo[w] : it.name <= other.name
       /\ IF Converged(it) THEN UNCHANGED <<sync, failures>>
                           ELSE Begin(w, it.name, it.row)
       /\ todo' = [todo EXCEPT ![w] = @ \ {it}]
  /\ UNCHANGED <<spec, conn, repo, lost, edits>>

-----------------------------------------------------------------------------
(* Engine.Sync. *)

\* The connection is read again, the files are rendered, the branch is cloned
\* and the files written over it: a clean worktree ends the sync.
Clone(w) ==
  LET n == sync[w].name
      path == RepoPath(n)
      hash == TreeHash(n, sync[w].row.body)
      r == conn.repo
      got == [sync[w] EXCEPT !.repo = r, !.hash = hash, !.head = repo[r].head,
                !.tree = [repo[r].tree EXCEPT ![path] = sync[w].row.body]]
      end(state) == [got EXCEPT !.pc = "record", !.state = state]
  IN
  /\ At(w, "clone")
  /\ \/ /\ sync' = [sync EXCEPT ![w] =
             IF got.tree = repo[r].tree THEN end("synced")
             ELSE [got EXCEPT !.pc = "push"]]
        /\ UNCHANGED failures
     \/ /\ Fails("clone")
        /\ sync' = [sync EXCEPT ![w] = end("error")]
  /\ UNCHANGED <<spec, conn, repo, todo, lost, edits>>

\* Mutant: the push is forced.
AcceptedAlways(w) == TRUE
Accepted(w) == repo[sync[w].repo].head = sync[w].head

Land(w) ==
  LET r == sync[w].repo IN
  repo' = [repo EXCEPT ![r] = [head |-> @.head + 1, tree |-> sync[w].tree]]

\* Mutant: a rejected push is taken for one that was up to date.
VerdictRejected(w) == "synced"
Verdict(w) == IF Accepted(w) THEN "synced" ELSE "error"

\* A branch that moved rejects the push.
Push(w) ==
  LET to(state) == sync' = [sync EXCEPT ![w] =
                              [sync[w] EXCEPT !.pc = "record", !.state = state]]
  IN
  /\ At(w, "push")
  /\ \/ /\ IF Accepted(w) THEN Land(w) ELSE UNCHANGED repo
        /\ to(Verdict(w)) /\ UNCHANGED failures
     \/ Fails("push") /\ to("error") /\ UNCHANGED repo
     \/ Accepted(w) /\ Fails("ackLost") /\ Land(w) /\ to("error")
  /\ UNCHANGED <<spec, conn, todo, lost, edits>>

Recorded(w, row) ==
  [row EXCEPT !.state = sync[w].state,
              !.hash = IF sync[w].state = "synced" THEN sync[w].hash ELSE @]

\* SetWorkerSpecSyncResult; the spec may be gone, or be another of its name.
Record(w) ==
  LET n == sync[w].name  found == spec[n].id = sync[w].row.id IN
  /\ At(w, "record")
  /\ \/ /\ spec' = IF found THEN [spec EXCEPT ![n] = Recorded(w, @)] ELSE spec
        /\ lost' = IF found /\ ~sync[w].beside THEN lost \ {n} ELSE lost \cup {n}
        /\ UNCHANGED failures
     \/ /\ Fails("dbError")
        /\ lost' = lost \cup {n}
        /\ UNCHANGED spec
  /\ Done(w)
  /\ UNCHANGED <<conn, repo, todo, edits>>

Crash(w) ==
  /\ ~At(w, "idle") \/ (w \in Reconciler /\ todo[w] # {})
  /\ Fails("crash")
  /\ Done(w)
  /\ todo' = [todo EXCEPT ![w] = {}]
  /\ lost' = IF At(w, "record") THEN lost \cup {sync[w].name} ELSE lost
  /\ UNCHANGED <<spec, conn, repo, edits>>

ForeignCommit(r) ==
  /\ Fails("foreign")
  /\ repo' = [repo EXCEPT ![r] =
       [head |-> repo[r].head + 1, tree |-> [repo[r].tree EXCEPT ![Elsewhere] = @ + 1]]]
  /\ UNCHANGED <<spec, conn, sync, todo, lost, edits>>

-----------------------------------------------------------------------------
\* The first spec has been saved and not yet synced.
GitInit ==
  /\ \E b \in Body : spec = [n \in Name |-> IF n = 1 THEN New(1, b, TRUE) ELSE NoSpec]
  /\ \E r \in Repo : conn = [repo |-> r, base |-> DefaultBase]
  /\ repo = [r \in Repo |-> [head |-> 0, tree |-> [p \in Paths |-> none]]]
  /\ sync = [w \in Syncer |-> Idle]
  /\ todo = [w \in Syncer |-> {}]
  /\ lost = {}
  /\ edits = 0 /\ failures = 0

Operator ==
  \/ \E n \in Name, b \in Body, a \in BOOLEAN : UpsertWorkerSpec(n, b, a)
  \/ \E n \in Name : DeleteWorkerSpec(n)
  \/ \E r \in Repo, b \in Base : PutGitConnection(r, b)
  \/ \E w \in Request, n \in Name : SyncNow(w, n)

Work(w) == ListSpecs(w) \/ Consider(w) \/ Clone(w) \/ Push(w) \/ Record(w)

GitNext ==
  \/ Operator
  \/ \E w \in Syncer : Work(w) \/ Crash(w)
  \/ \E r \in Repo : ForeignCommit(r)

\* The tickers fire and the requests run on.
Fairness == \A w \in Syncer : WF_gitVars(Work(w))

GitSpec == GitInit /\ [][GitNext]_gitVars
FairSpec == GitSpec /\ Fairness

-----------------------------------------------------------------------------
Hash == (Base \X Name) \X Body
Tree == {t \in [Paths -> Body \cup Nat] : t[Elsewhere] \in Nat}

Saved == [id : Nat \ {none}, body : Body, auto : BOOLEAN, hash : Hash \cup {NoHash},
          state : {"pending", "synced", "error"}]

Flight == [pc : {"clone", "push", "record"}, name : Name, row : Saved,
           repo : Repo \cup {"none"}, head : Nat, tree : Tree \cup {<<>>},
           hash : Hash \cup {NoHash}, state : {"none", "synced", "error"},
           beside : BOOLEAN]

GitTypeOK ==
  /\ spec \in [Name -> Saved \cup {NoSpec}]
  /\ conn \in [repo : Repo, base : Base]
  /\ repo \in [Repo -> [head : Nat, tree : Tree]]
  /\ sync \in [Syncer -> Flight \cup {Idle}]
  /\ todo \in [Syncer -> SUBSET [name : Name, row : Saved, hash : Hash]]
  /\ lost \subseteq Name
  /\ edits \in 0..MaxEdits /\ failures \in 0..MaxFailures

\* A sync changes the files of its own spec and no others: what other syncs
\* and other people have committed since its clone stays, for the push is
\* rejected.
OnlyItsOwnFiles ==
  [][\A r \in Repo, p \in Paths :
       repo'[r].tree[p] # repo[r].tree[p]
         => \/ \E w \in Syncer : At(w, "push") /\ sync[w].hash[1] = p
            \/ p = Elsewhere /\ repo'[r].tree[p] > repo[r].tree[p]]_gitVars

\* While no sync of it is in flight, a spec that is `synced` has in the
\* repository the files that its last sync recorded (worker_spec.go: "repo
\* matches the last render"), unless the last sync left no record or ran beside
\* another, in which case the records may come in the wrong order.
SyncedIsInRepo ==
  \A n \in Name :
    (spec[n].state = "synced" /\ n \notin lost /\ InFlight(n) = {})
      => repo[conn.repo].tree[spec[n].hash[1]] = spec[n].hash[2]

\* When the operator and the faults rest, every spec with auto_sync arrives in
\* the repository, however its syncs failed before (with the same exception).
Delivered(n) ==
  spec[n].auto => \/ repo[conn.repo].tree[RepoPath(n)] = spec[n].body
                  \/ n \in lost
Converges == <>[](\A n \in Name : Delivered(n))
=============================================================================
