--------------------------- MODULE ProjectRegistry ---------------------------
(***************************************************************************)
(* Projects and their slugs: functions/cloud/project-registry.js.          *)
(*                                                                         *)
(* A project is one record, and a slug is one entry that names its         *)
(* project.  Nothing writes the two together, so a change of slug claims   *)
(* the new entry, writes the record, and then gives the old entry up.      *)
(*                                                                         *)
(* Abstractions: names and times are left out; a new id is one no record   *)
(* has; validation ends a request before its first call.                   *)
(***************************************************************************)
EXTENDS CloudRequests

CONSTANTS
    Projects, \* project ids
    Slugs

VARIABLES
    project,   \* project records
    slugIndex, \* the project each slug names
    accepted   \* history: projects whose creation was answered with success

projectVars == <<project, slugIndex, accepted>>

Statuses == {"active", "disabled", "deleted"}

Record == [slug : Slugs, status : Statuses]

ASSUME ProjectsAssumption == NULL \notin Projects \cup Slugs \cup Record

InitProjects ==
    /\ project = [i \in Projects |-> NULL]
    /\ slugIndex = [s \in Slugs |-> NULL]
    /\ accepted = {}

ExistsOrDeleted(i) == project[i] # NULL \* mutant of Exists

\* getProject, ensureProjectExists: the project is there and not deleted.
Exists(i) == project[i] # NULL /\ project[i].status # "deleted"

\* requireActiveProject
IsActive(i) == project[i] # NULL /\ project[i].status = "active"

\* What listProjects shows: every record that is not deleted.
ListedProjects == {i \in Projects : Exists(i)}

\* Mutant of SlugAvailable: a disabled project does not hold its slug.
SlugUnlessDisabled(s, i) == slugIndex[s] \in {NULL, i} \/ ~IsActive(slugIndex[s])

\* assertSlugAvailable
SlugAvailable(s, i) == slugIndex[s] \in {NULL, i}

\* A handler that is about to write `next` for project i; `old` is the slug the
\* record had when the handler read it.
Change(pc, i, next, old) == [pc |-> pc, id |-> i, next |-> next, old |-> old]

-----------------------------------------------------------------------------
(* createProject *)

\* generatedProjectId: 128 random bits, and no record has them.
UnusedIds == {i \in Projects :
    /\ project[i] = NULL
    /\ \A s \in Slugs : slugIndex[s] # i
    /\ \A p \in Busy : "id" \in DOMAIN proc[p] => proc[p].id # i}

StartCreateProject(p, s) ==
    /\ slugIndex[s] = NULL
    /\ \E i \in UnusedIds :
        Begin(p, Change("putNewProject", i, [slug |-> s, status |-> "active"], s))
    /\ UNCHANGED projectVars

PutNewProject(p) ==
    /\ proc[p].pc = "putNewProject"
    /\ Write(project' = [project EXCEPT ![proc[p].id] = proc[p].next], UNCHANGED project,
             GoTo(p, "putSlug"), Finish(p))
    /\ UNCHANGED <<slugIndex, accepted>>

PutSlug(p) ==
    /\ proc[p].pc = "putSlug"
    /\ Write(slugIndex' = [slugIndex EXCEPT ![proc[p].next.slug] = proc[p].id],
             UNCHANGED slugIndex, GoTo(p, "confirmSlug"), GoTo(p, "undoProject"))
    /\ UNCHANGED <<project, accepted>>

\* The entry is read back: whoever wrote it last keeps the slug.
ConfirmSlug(p) ==
    /\ proc[p].pc = "confirmSlug"
    /\ \/ /\ slugIndex[proc[p].next.slug] = proc[p].id
          /\ Read(Finish(p) /\ accepted' = accepted \cup {proc[p].id},
                  GoTo(p, "undoProject") /\ UNCHANGED accepted)
       \/ /\ slugIndex[proc[p].next.slug] # proc[p].id
          /\ Read(GoTo(p, "undoProject"), GoTo(p, "undoProject"))
          /\ UNCHANGED accepted
    /\ UNCHANGED <<project, slugIndex>>

\* The best-effort removal of the new record.
UndoProject(p) ==
    /\ proc[p].pc = "undoProject"
    /\ Read(project' = [project EXCEPT ![proc[p].id] = NULL], UNCHANGED project)
    /\ Finish(p)
    /\ UNCHANGED <<slugIndex, accepted>>

-----------------------------------------------------------------------------
(* updateProject *)

\* The current record is read and patched; a change of name leaves it as it is here.
\* A new slug must then be claimed.
StartUpdate(p, i, next) ==
    /\ Exists(i)
    /\ next.status \in {project[i].status, "active", "disabled"}
    /\ Begin(p, Change(IF next.slug = project[i].slug THEN "putUpdate" ELSE "checkSlug",
                       i, next, project[i].slug))
    /\ UNCHANGED projectVars

CheckSlug(p) ==
    /\ proc[p].pc = "checkSlug"
    /\ Read(IF SlugAvailable(proc[p].next.slug, proc[p].id) THEN GoTo(p, "claimSlug")
                                                            ELSE Finish(p),
            Finish(p))
    /\ UNCHANGED projectVars

ClaimSlug(p) ==
    /\ proc[p].pc = "claimSlug"
    /\ Write(slugIndex' = [slugIndex EXCEPT ![proc[p].next.slug] = proc[p].id],
             UNCHANGED slugIndex, GoTo(p, "putMoved"), Finish(p))
    /\ UNCHANGED <<project, accepted>>

PutMoved(p) ==
    /\ proc[p].pc = "putMoved"
    /\ Write(project' = [project EXCEPT ![proc[p].id] = proc[p].next], UNCHANGED project,
             GoTo(p, "readOldSlug"), GoTo(p, "undoSlug"))
    /\ UNCHANGED <<slugIndex, accepted>>

\* The best-effort removal of the entry that was claimed.
UndoSlug(p) ==
    /\ proc[p].pc = "undoSlug"
    /\ Read(slugIndex' = [slugIndex EXCEPT ![proc[p].next.slug] = NULL], UNCHANGED slugIndex)
    /\ Finish(p)
    /\ UNCHANGED <<project, accepted>>

PutUpdate(p) ==
    /\ proc[p].pc = "putUpdate"
    /\ Write(project' = [project EXCEPT ![proc[p].id] = proc[p].next], UNCHANGED project,
             Finish(p), Finish(p))
    /\ UNCHANGED <<slugIndex, accepted>>

-----------------------------------------------------------------------------
(* deleteProject, and the end of a change of slug *)

StartDelete(p, i) ==
    /\ Exists(i)
    /\ Begin(p, Change("putDeleted", i, [project[i] EXCEPT !.status = "deleted"],
                       project[i].slug))
    /\ UNCHANGED projectVars

PutDeleted(p) ==
    /\ proc[p].pc = "putDeleted"
    /\ Write(project' = [project EXCEPT ![proc[p].id] = proc[p].next], UNCHANGED project,
             GoTo(p, "readOldSlug"), Finish(p))
    /\ UNCHANGED <<slugIndex, accepted>>

ReadOldSlug(p) ==
    /\ proc[p].pc = "readOldSlug"
    /\ Read(IF slugIndex[proc[p].old] = proc[p].id THEN GoTo(p, "dropOldSlug") ELSE Finish(p),
            Finish(p))
    /\ UNCHANGED projectVars

DropOldSlug(p) ==
    /\ proc[p].pc = "dropOldSlug"
    /\ Write(slugIndex' = [slugIndex EXCEPT ![proc[p].old] = NULL], UNCHANGED slugIndex,
             Finish(p), Finish(p))
    /\ UNCHANGED <<project, accepted>>

ProjectStart(p) ==
    \/ \E s \in Slugs : StartCreateProject(p, s)
    \/ \E i \in Projects : \/ \E next \in Record : StartUpdate(p, i, next)
                           \/ StartDelete(p, i)

ProjectStep(p) ==
    \/ PutNewProject(p) \/ PutSlug(p) \/ ConfirmSlug(p) \/ UndoProject(p)
    \/ CheckSlug(p) \/ ClaimSlug(p) \/ PutMoved(p) \/ UndoSlug(p) \/ PutUpdate(p)
    \/ PutDeleted(p) \/ ReadOldSlug(p) \/ DropOldSlug(p)

-----------------------------------------------------------------------------
(* Properties *)

\* A project whose creation was answered keeps its slug until it is deleted, through
\* renames, failures and handlers that stop half-way, and so no two of them share one;
\* unless requests overlap, or a write that was reported as failed took effect.
SlugsResolve ==
    ~overlapped /\ ~lateEffect =>
        \A i \in accepted \cap ListedProjects : slugIndex[project[i].slug] = i

\* A deleted project is never live again, for requests that do not overlap:
\* updateProject and deleteProject refuse it.
DeletedStaysDeleted ==
    [][~overlapped' => \A i \in Projects :
        project[i] # NULL /\ project[i].status = "deleted" => project'[i] = project[i]]_
            <<requestVars, projectVars>>

=============================================================================
