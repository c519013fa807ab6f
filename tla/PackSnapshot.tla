----------------------------- MODULE PackSnapshot -----------------------------
(***************************************************************************)
(* src/lane/config.py: safe_pack_snapshot, the private copy of the files a *)
(* command is about to send, made from a worktree that others may edit     *)
(* while it is being copied.                                               *)
(*                                                                         *)
(* A path of the pack is a regular file, a symbolic link, absent, or       *)
(* "behind": a regular file reached through a directory that has become a  *)
(* link.  What matters of its name is whether it looks like a secret.      *)
(* Globs that overlap are one set: a path is copied once (`copied`).       *)
(***************************************************************************)
EXTENDS FiniteSets, Naturals

CONSTANTS Lanes,     \* lane processes that stage a pack
          Packed,    \* paths the include globs match, if they exist
          Private,   \* those with a secret-like name
          NoPath

ASSUME PackAssumption == Private \subseteq Packed /\ NoPath \notin Packed

VARIABLES shape,     \* the worktree: what each path is now
          phase,     \* per lane, where safe_pack_snapshot is
          todo,      \* paths it has not come to yet
          current,   \* the path it has checked and is about to open
          pack       \* what it copied: a path, and what was read under its name

snapshot == <<phase, todo, current, pack>>

Shapes == {"absent", "regular", "link", "behind"}
Phases == {"idle", "validating", "staging", "opening", "staged", "refused"}

\* A worktree as checked_root accepts it: no secret lies in it yet.
InitPack == /\ shape = [p \in Packed |-> IF p \in Private THEN "absent" ELSE "regular"]
            /\ phase = [d \in Lanes |-> "idle"]
            /\ todo = [d \in Lanes |-> {}]
            /\ current = [d \in Lanes |-> NoPath]
            /\ pack = [d \in Lanes |-> {}]

Enter(d, label) == phase' = [phase EXCEPT ![d] = label]

Read(d, p) == pack' = [pack EXCEPT ![d] = @ \cup {[path |-> p, file |-> shape[p]]}]

\* What unsafe_pack_paths reports: a link, or a file with a secret-like name.
Unsafe == {p \in Packed : shape[p] = "link" \/ (shape[p] = "regular" /\ p \in Private)}

\* What it reports too, if the glob looks behind a directory that is a link.
Linked == {p \in Packed : shape[p] = "behind"}

BeginPack(d) == /\ Enter(d, "validating")
                /\ todo' = [todo EXCEPT ![d] = Packed]
                /\ UNCHANGED <<current, pack>>

\* assert_safe_pack, before anything is copied.
Validate(d) == /\ phase[d] = "validating"
               /\ \/ Unsafe = {} /\ Enter(d, "staging")
                  \/ Unsafe \cup Linked # {} /\ Enter(d, "refused")
               /\ UNCHANGED <<shape, todo, current, pack>>

\* lstat finds a regular file, and its name and the directories on its way are
\* checked again.
Pick(d, p) == /\ phase[d] = "staging" /\ p \in todo[d]
              /\ shape[p] = "regular" /\ p \notin Private
              /\ Enter(d, "opening")
              /\ current' = [current EXCEPT ![d] = p]
              /\ todo' = [todo EXCEPT ![d] = @ \ {p}]
              /\ UNCHANGED <<shape, pack>>

\* "pack input became unsafe", or one that is gone since the glob listed it, or
\* that turned between lstat and the check of the way.
Refuse(d, p) == /\ phase[d] = "staging" /\ p \in todo[d]
                /\ shape[p] # "regular" \/ p \in Private
                /\ Enter(d, "refused")
                /\ UNCHANGED <<shape, todo, current, pack>>

\* The glob does not list it, or lstat finds no regular file: left out.
PassOver(d, p) == /\ phase[d] = "staging" /\ p \in todo[d]
                  /\ shape[p] # "regular"
                  /\ todo' = [todo EXCEPT ![d] = @ \ {p}]
                  /\ UNCHANGED <<shape, phase, current, pack>>

\* Defect: open(2) without O_NOFOLLOW.
CopyFollowing(d) == /\ phase[d] = "opening"
                    /\ shape[current[d]] # "absent"
                    /\ Read(d, current[d])
                    /\ Enter(d, "staging")
                    /\ UNCHANGED <<shape, todo, current>>

\* O_NOFOLLOW and fstat: a regular file at the moment of the open.  They speak of
\* the last name only; a directory that became a link since Pick is followed.
Copy(d) == /\ phase[d] = "opening"
           /\ shape[current[d]] \in {"regular", "behind"}
           /\ Read(d, current[d])
           /\ Enter(d, "staging")
           /\ UNCHANGED <<shape, todo, current>>

CopyFails(d) == /\ phase[d] = "opening"
                /\ shape[current[d]] \notin {"regular", "behind"}
                /\ Enter(d, "refused")
                /\ UNCHANGED <<shape, todo, current, pack>>

Staged(d) == /\ phase[d] = "staging" /\ todo[d] = {}
             /\ Enter(d, "staged")
             /\ UNCHANGED <<shape, todo, current, pack>>

PackStep(d) == \/ Validate(d) \/ Copy(d) \/ CopyFails(d) \/ Staged(d)
               \/ \E p \in Packed : Pick(d, p) \/ Refuse(d, p) \/ PassOver(d, p)

\* The block ends and its temporary directory is deleted.
DropPack(d) == /\ Enter(d, "idle")
               /\ todo' = [todo EXCEPT ![d] = {}]
               /\ current' = [current EXCEPT ![d] = NoPath]
               /\ pack' = [pack EXCEPT ![d] = {}]

TypeOfPack == /\ shape \in [Packed -> Shapes]
              /\ phase \in [Lanes -> Phases]
              /\ todo \in [Lanes -> SUBSET Packed]
              /\ current \in [Lanes -> Packed \cup {NoPath}]
              /\ pack \in [Lanes -> SUBSET [path : Packed, file : Shapes]]

\* Nothing leaves the machine that was read through a link in the place of the
\* file, or under a name that looks secret, whatever becomes of the file while the
\* pack is validated, listed and copied (assert_safe_pack: "the pack is what
\* actually leaves the machine").  It says nothing of a directory on the way that
\* is replaced by a link after its check: what lies behind it is copied.
PackIsClean == \A d \in Lanes : \A e \in pack[d] : e.file # "link" /\ e.path \notin Private
=============================================================================
