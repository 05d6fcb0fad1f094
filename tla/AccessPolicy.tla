---------------------------- MODULE AccessPolicy ----------------------------
(***************************************************************************)
(* The access policy (access.py).  A policy gives rules for paths; of the  *)
(* rules that match a resource the longest decides.  Searches use the same *)
(* rules translated to a filter, directory listings a third form of them.  *)
(* The file is read again whenever its time stamp has changed; requests of *)
(* several threads share the last policy that was parsed.                  *)
(*                                                                         *)
(* A resource is a path, a sequence of names (normalize_resource has made  *)
(* it one); the empty path is that of the default rule.  Each edit of the  *)
(* file gets a stamp of its own, its number: load_policy knows a file by   *)
(* its time in nanoseconds and its size, so an edit that keeps both, or    *)
(* gives the file back those of an earlier one, is not seen by the code    *)
(* and is left out here.                                                   *)
(***************************************************************************)
EXTENDS Integers, Sequences, FiniteSets

CONSTANTS
    Person,     \* ids of principals
    Group,
    Anyone,     \* the subject `*'
    Resource,   \* resources and folders, paths
    Policy,     \* policies the file may contain
    Broken,     \* contents that are no policy
    Thread,     \* threads that serve requests
    MaxEdits,   \* bound: edits of the file
    None

Path == Seq(STRING)
Subject == Person \cup Group \cup {Anyone}

ASSUME ResourceAssumption == Resource \subseteq Path
ASSUME PolicyAssumption ==
    \A P \in Policy :
        /\ <<>> \in DOMAIN P.read /\ DOMAIN P.read \subseteq Path
        /\ DOMAIN P.write = DOMAIN P.read
        /\ P.admin \subseteq DOMAIN P.groups /\ DOMAIN P.groups \subseteq Person
ASSUME ThreadAssumption == Broken \notin Policy /\ MaxEdits \in Nat /\ None \notin Person

-----------------------------------------------------------------------------
(* Rules.                                                                  *)

Rules(P) == DOMAIN P.read

\* Rule.matches: the path itself, or one below it.
Matches(r, d) == Len(r) <= Len(d) /\ \A k \in 1 .. Len(r) : r[k] = d[k]

\* Rule.contains.
Encloses(r, o) == o # r /\ Matches(r, o)

\* Principal.subjects.
Subjects(P, p) == {Anyone, p} \cup P.groups[p]

Reads(P, r, p) == (P.read[r] \cup P.write[r]) \cap Subjects(P, p) # {}
Writes(P, r, p) == P.write[r] \cap Subjects(P, p) # {}

\* rule_for: the longest rule that matches; the default always does.
RuleFor(P, d) ==
    CHOOSE r \in Rules(P) :
        Matches(r, d) /\ \A o \in Rules(P) : Matches(o, d) => Len(o) <= Len(r)

MayRead(P, p, d) == p \in P.admin \/ Reads(P, RuleFor(P, d), p)
MayWrite(P, p, d) == p \in P.admin \/ Writes(P, RuleFor(P, d), p)

\* reads_any_under: whether a folder is listed.
Listed(P, p, f) ==
    \/ MayRead(P, p, f)
    \/ \E r \in Rules(P) : Encloses(f, r) /\ Reads(P, r, p)

ReadsEverything(P, p) == p \in P.admin \/ \A r \in Rules(P) : Reads(P, r, p)

\* Mutant of Denied: every rule that denies counts, also one above r.
DeniedAnywhere(P, p, r) == {o \in Rules(P) : ~Reads(P, o, p)}

\* The rules that es_filter takes away from a rule that grants.
Denied(P, p, r) == {o \in Rules(P) : Encloses(r, o) /\ ~Reads(P, o, p)}

\* es_filter: the documents a search of p is given.
Selected(P, p, d) ==
    \/ ReadsEverything(P, p)
    \/ \E r \in Rules(P) :
           /\ Reads(P, r, p) /\ Matches(r, d)
           /\ \A o \in Denied(P, p, r) : ~Matches(o, d)

-----------------------------------------------------------------------------
(* Loading the policy, and requests.                                       *)

VARIABLES
    history,  \* contents of the file, edit after edit; the last is there now
    cache,    \* _cache: the stamp it is filed under and the edit it holds
    req       \* thread -> the request it serves

accessVars == <<history, cache, req>>

Now == Len(history)

\* A request loads the policy to find out who asks (current_principal), and
\* again to decide (can). It keeps the edits that it saw.
Idle == [pc |-> "idle", person |-> None, began |-> 0, stamp |-> 0, who |-> 0, used |-> 0]

AccessInit ==
    /\ \E P \in Policy \cup {Broken} : history = <<P>>
    /\ cache = [stamp |-> 0, edit |-> 0]
    /\ req = [t \in Thread |-> Idle]

\* The operator edits the policy.
EditPolicy(P) ==
    /\ Now <= MaxEdits /\ P # history[Now]
    /\ history' = Append(history, P)
    /\ UNCHANGED <<cache, req>>

Become(t, r) == req' = [req EXCEPT ![t] = r]

StartRequest(t, p) ==
    /\ req[t].pc = "idle"
    /\ Become(t, [Idle EXCEPT !.pc = "stat", !.person = p, !.began = Now])
    /\ UNCHANGED <<history, cache>>

\* load_policy takes the stamp first.
StatPolicy(t) ==
    /\ req[t].pc = "stat"
    /\ Become(t, [req[t] EXCEPT !.pc = "look", !.stamp = Now])
    /\ UNCHANGED <<history, cache>>

\* What the request does once the policy of edit v is loaded: the principal
\* is known or refused; then the request is decided.
Loaded(t, v) ==
    IF req[t].who # 0
    THEN Become(t, [req[t] EXCEPT !.pc = "done", !.used = v])
    ELSE IF req[t].person \in DOMAIN history[v].groups
         THEN Become(t, [req[t] EXCEPT !.pc = "stat", !.who = v])
         ELSE Become(t, Idle)

LookUp(t) ==
    /\ req[t].pc = "look"
    /\ IF cache.stamp = req[t].stamp
       THEN Loaded(t, cache.edit)
       ELSE Become(t, [req[t] EXCEPT !.pc = "read"])
    /\ UNCHANGED <<history, cache>>

\* The file is read and parsed; what cannot be parsed refuses the request.
ReadPolicy(t) ==
    /\ req[t].pc = "read"
    /\ IF history[Now] = Broken
       THEN Become(t, Idle)
       ELSE Become(t, [req[t] EXCEPT !.pc = "publish", !.used = Now])
    /\ UNCHANGED <<history, cache>>

\* Mutant of Filed: the stamp is taken when the policy is published.
FiledNow(t) == [stamp |-> Now, edit |-> req[t].used]

\* What is published is filed under the stamp taken before it was read.
Filed(t) == [stamp |-> req[t].stamp, edit |-> req[t].used]

Publish(t) ==
    /\ req[t].pc = "publish"
    /\ cache' = Filed(t)
    /\ Loaded(t, req[t].used)
    /\ UNCHANGED history

EndRequest(t) ==
    /\ req[t].pc = "done"
    /\ Become(t, Idle)
    /\ UNCHANGED <<history, cache>>

AccessNext ==
    \/ \E P \in Policy \cup {Broken} : EditPolicy(P)
    \/ \E t \in Thread :
           \/ \E p \in Person : StartRequest(t, p)
           \/ StatPolicy(t) \/ LookUp(t) \/ ReadPolicy(t) \/ Publish(t) \/ EndRequest(t)

AccessSpec == AccessInit /\ [][AccessNext]_accessVars

-----------------------------------------------------------------------------
(* Properties.                                                             *)

Sound(v) == history[v] # Broken

\* "allows(principal, "read", doc_id)와 같은 집합을 고르는 ES 필터"
\* (es_filter): a search is given exactly the documents that the policy it is
\* decided by lets be read, however rules that grant and deny are nested.
FilterExact ==
    \A t \in Thread : req[t].pc = "done" =>
        LET P == history[req[t].used]
        IN  \A p \in DOMAIN P.groups, d \in Resource : Selected(P, p, d) <=> MayRead(P, p, d)

\* A listing shows the way to everything that may be read (can_list).
ListingComplete ==
    \A t \in Thread : req[t].pc = "done" =>
        LET P == history[req[t].used]
        IN  \A p \in DOMAIN P.groups, f, d \in Resource :
                Matches(f, d) /\ MayRead(P, p, d) => Listed(P, p, f)

\* "정책을 고치면 재색인 없이 다음 요청부터 적용된다" (access.py:16): a request
\* is decided by policies no older than the file was when it began, whatever
\* other threads read and published meanwhile.
PolicyFresh ==
    \A t \in Thread : req[t].pc = "done" =>
        /\ req[t].began <= req[t].who /\ req[t].began <= req[t].used
        /\ Sound(req[t].who) /\ Sound(req[t].used)
=============================================================================
