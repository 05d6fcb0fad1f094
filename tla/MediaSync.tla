----------------------------- MODULE MediaSync -----------------------------
(***************************************************************************)
(* Images and audio of the library: clients (media_sync.py) list the files *)
(* without current vectors, download each in parts, embed it and send the  *)
(* vectors to the server (media.py), which serves several calls at a time. *)
(* Files are edited, removed and put back by others, a bulk may store some *)
(* items and refuse others, and a client gives a call up while the server  *)
(* still works on it.                                                      *)
(*                                                                         *)
(* A digest stands for its content and the parts of a download for the     *)
(* contents they were read from; the vector of a segment is the download   *)
(* it was made from.  The digests the server keeps by size and time stamp  *)
(* are always right here, as every edit changes the stamp.  There is one   *)
(* media model; the server accepts it or not.  Media are numbered in the   *)
(* order of the listing, which is also taken for that of their paths.  A   *)
(* client that gave a call up sends nothing more until the server is done  *)
(* with it: the code does not wait, but two calls of one client meet on    *)
(* the server as those of two clients do.  Runs with a limit, note links   *)
(* and the row of the document index written after the chunks (DocIndex)   *)
(* are left out.                                                           *)
(***************************************************************************)
EXTENDS Naturals, Sequences, FiniteSets

CONSTANTS
    Client,
    Medium,       \* images and audio of the library
    Audio,        \* those that are audio
    Content,
    Parts,        \* [Content -> parts of a download, and segments of audio]
    Page,         \* limit of list_media
    MaxChanges,   \* bound: edits of files and of the setting
    MaxFailures,  \* bound: refused items and calls given up
    Gone

ASSUME MediaAssumption ==
    /\ Medium \subseteq Nat /\ IsFiniteSet(Medium)
    /\ Audio \subseteq Medium /\ Gone \notin Content
    /\ Parts \in [Content -> Nat \ {0}] /\ Page \in Nat \ {0}
    /\ {MaxChanges, MaxFailures} \subseteq Nat

VARIABLES
    library,   \* [Medium -> Content \cup {Gone}]
    vectors,   \* [Medium -> the stored chunks, by segment: [sha, from]]
    accepts,   \* the server takes vectors of the media model
    client,    \* [Client -> its run; entries: what is left of the list, and listed how
               \* many there were; failed: entries that failed or were skipped]
    call,      \* [Client -> the upload the server works on for it]
    crossed,   \* clients whose upload was under way together with another one of its file
    torn,      \* media some upload of which overlapped another one or failed in part
    changes, failures

mediaVars == <<library, vectors, accepts, client, call, crossed, torn, changes, failures>>

NoCall == [medium |-> Gone, sha |-> Gone, from |-> <<>>, known |-> {}, step |-> "none"]
AtRest == [at |-> "idle", entries |-> {}, listed |-> 0, got |-> <<>>, failed |-> 0, calm |-> TRUE]

MediaInit ==
    /\ library \in [Medium -> Content \cup {Gone}]
    /\ vectors = [m \in Medium |-> <<>>]
    /\ accepts = TRUE
    /\ client = [c \in Client |-> AtRest]
    /\ call = [c \in Client |-> NoCall]
    /\ crossed = {} /\ torn = {} /\ changes = 0 /\ failures = 0
----------------------------------------------------------------------------
(* The server.                                                             *)

Indexed(m) == accepts /\ 1 \in DOMAIN vectors[m] /\ vectors[m][1].sha = library[m]

Missing == {m \in Medium : library[m] # Gone /\ ~Indexed(m)}

\* How many are listed before m.
Offset(m) == Cardinality({k \in Missing : k < m})

\* An image has one segment, audio one per window.
Segments(m, sha) == IF m \in Audio THEN 1 .. Parts[sha] ELSE {1}

\* Mutant of Acceptable: the digest is not compared with the file of the server.
AcceptablePresent(m, sha) == accepts /\ library[m] # Gone

\* put_media_embeddings refuses a file that changed since it was listed.
Acceptable(m, sha) == accepts /\ library[m] # Gone /\ library[m] = sha

\* Other uploads of the same file that the server works on.
Beside(c) == {d \in Client \ {c} : call[d].step = "checked" /\ call[d].medium = call[c].medium}

\* require_media, media_model and the digest; then the chunks there are.
CheckPut(c) ==
    /\ call[c].step = "sent"
    /\ LET m == call[c].medium
       IN IF Acceptable(m, call[c].sha)
          THEN /\ call' = [call EXCEPT ![c].step = "checked", ![c].sha = library[m],
                                       ![c].known = DOMAIN vectors[m]]
               /\ crossed' = IF Beside(c) = {} THEN crossed \ {c} ELSE crossed \cup Beside(c) \cup {c}
          ELSE call' = [call EXCEPT ![c].step = "refused"] /\ UNCHANGED crossed
    /\ UNCHANGED <<library, vectors, accepts, client, torn, changes, failures>>

\* What is stored while another run lists moves what its next page is of.
Shifted(c) ==
    [d \in Client |-> IF d # c /\ client[d].at = "list" THEN [client[d] EXCEPT !.calm = FALSE]
                      ELSE client[d]]

\* One bulk: a chunk per segment, and those of no segment deleted.  Items can
\* be refused while the others take effect, and the call ends in an error.  The
\* items of two bulks may come in any order: a file with two uploads under way
\* stays torn until one that met no other has succeeded.
ApplyPut(c) ==
    /\ call[c].step = "checked"
    /\ LET m == call[c].medium
           wanted == Segments(m, call[c].sha)
           dropped == call[c].known \ wanted
       IN \E refused \in {{}} \cup (IF failures < MaxFailures THEN SUBSET (wanted \cup dropped) ELSE {}) :
             /\ vectors' = [vectors EXCEPT ![m] =
                   [s \in (DOMAIN @ \ (dropped \ refused)) \cup (wanted \ refused) |->
                       IF s \in wanted \ refused
                       THEN [sha |-> call[c].sha, from |-> call[c].from]
                       ELSE @[s]]]
             /\ call' = [call EXCEPT ![c].step = IF refused = {} THEN "stored" ELSE "refused"]
             /\ torn' = IF refused # {} \/ c \in crossed THEN torn \cup {m}
                        ELSE IF DOMAIN vectors[m] \subseteq call[c].known THEN torn \ {m} ELSE torn
             /\ failures' = IF refused = {} THEN failures ELSE failures + 1
    /\ client' = Shifted(c)
    /\ UNCHANGED <<library, accepts, crossed, changes>>
----------------------------------------------------------------------------
(* A run of media-sync.                                                    *)

NobodyWorks == \A c \in Client : client[c].at \in {"idle", "done"} /\ call[c] = NoCall

Begin(c) ==
    /\ client[c].at = "idle"
    /\ client' = [client EXCEPT ![c] = [AtRest EXCEPT !.at = "list", !.calm = NobodyWorks]]
    /\ UNCHANGED <<library, vectors, accepts, call, crossed, torn, changes, failures>>

\* The next page starts where the entries so far end.
List(c) ==
    /\ client[c].at = "list"
    /\ LET start == client[c].listed
           total == Cardinality(Missing)
           end == IF start + Page < total THEN start + Page ELSE total
           page == {m \in Missing : start <= Offset(m) /\ Offset(m) < end}
           entries == client[c].entries
                      \cup {[nr |-> Offset(m), medium |-> m, sha |-> library[m]] : m \in page}
           last == end >= total
       IN client' = [client EXCEPT ![c].at =
                        CASE ~accepts /\ last -> "refused"
                          [] accepts /\ last /\ entries = {} -> "done"
                          [] accepts /\ last /\ entries # {} -> "get"
                          [] OTHER -> "list",
                     ![c].entries = entries,
                     ![c].listed = IF start < end THEN end ELSE start]
    /\ UNCHANGED <<library, vectors, accepts, call, crossed, torn, changes, failures>>

\* Images first, within a kind by path.
Sooner(e, f) ==
    \/ e.medium \notin Audio /\ f.medium \in Audio
    \/ /\ e.medium \in Audio <=> f.medium \in Audio
       /\ e.medium < f.medium \/ (e.medium = f.medium /\ e.nr < f.nr)

Soonest(entries) == CHOOSE e \in entries : \A f \in entries \ {e} : Sooner(e, f)
Current(c) == Soonest(client[c].entries)

\* On to the next entry; a failure is counted and the run goes on.
Onward(run, failed) ==
    LET rest == run.entries \ {Soonest(run.entries)}
    IN  [run EXCEPT !.entries = rest, !.got = <<>>, !.failed = @ + failed,
                    !.at = IF rest = {} THEN "done" ELSE "get"]

\* get_media: whether the part after n others is the last one.
IsEnd(m, n) == n + 1 >= Parts[library[m]]

Fresh(c, got) == got = [i \in 1 .. Parts[Current(c).sha] |-> Current(c).sha]

\* One part; after the last one the digests of the list, of the parts and of the
\* file must be the same.  What cannot be read or does not fit fails.
GetPart(c) ==
    /\ client[c].at = "get"
    /\ LET now == library[Current(c).medium]
           got == Append(client[c].got, now)
           run == client[c]
       IN client' = [client EXCEPT ![c] =
             CASE now = Gone -> Onward(run, 1)
               [] now # Gone /\ ~IsEnd(Current(c).medium, Len(run.got)) -> [run EXCEPT !.got = got]
               [] now # Gone /\ now = Current(c).sha /\ IsEnd(Current(c).medium, Len(run.got))
                     /\ Fresh(c, got) -> [run EXCEPT !.got = got, !.at = "embed"]
               [] OTHER -> Onward(run, 1)]
    /\ UNCHANGED <<library, vectors, accepts, call, crossed, torn, changes, failures>>

\* The client embeds the file and sends the vectors, unless it has still a call
\* that it gave up: the server ends that one first.
Send(c) ==
    /\ client[c].at = "embed" /\ call[c] = NoCall
    /\ call' = [call EXCEPT ![c] = [medium |-> Current(c).medium, sha |-> Current(c).sha,
                                    from |-> client[c].got, known |-> {}, step |-> "sent"]]
    /\ client' = [client EXCEPT ![c].at = "wait"]
    /\ UNCHANGED <<library, vectors, accepts, crossed, torn, changes, failures>>

\* An image that cannot be opened or audio without samples.
Skip(c) ==
    /\ client[c].at = "embed" /\ failures < MaxFailures
    /\ client' = [client EXCEPT ![c] = Onward(@, 1)]
    /\ failures' = failures + 1
    /\ UNCHANGED <<library, vectors, accepts, call, crossed, torn, changes>>

Answered(c) ==
    /\ client[c].at = "wait" /\ call[c].step \in {"stored", "refused"}
    /\ client' = [client EXCEPT ![c] = Onward(@, IF call[c].step = "stored" THEN 0 ELSE 1)]
    /\ call' = [call EXCEPT ![c] = NoCall]
    /\ UNCHANGED <<library, vectors, accepts, crossed, torn, changes, failures>>

\* httpx gives up; the server does not know.
GiveUp(c) ==
    /\ client[c].at = "wait" /\ failures < MaxFailures
    /\ failures' = failures + 1
    /\ client' = [client EXCEPT ![c] = Onward(@, 1)]
    /\ UNCHANGED <<library, vectors, accepts, call, crossed, torn, changes>>

Unheard(c) ==
    /\ client[c].at # "wait" /\ call[c].step \in {"stored", "refused"}
    /\ call' = [call EXCEPT ![c] = NoCall]
    /\ UNCHANGED <<library, vectors, accepts, client, crossed, torn, changes, failures>>

\* The run reports what it did and the client may begin again.
End(c) ==
    /\ client[c].at \in {"done", "refused"}
    /\ client' = [client EXCEPT ![c] = AtRest]
    /\ UNCHANGED <<library, vectors, accepts, call, crossed, torn, changes, failures>>
----------------------------------------------------------------------------
Disturbed == [d \in Client |-> [client[d] EXCEPT !.calm = FALSE]]

EditMedium(m) ==
    /\ changes < MaxChanges
    /\ \E content \in (Content \cup {Gone}) \ {library[m]} : library' = [library EXCEPT ![m] = content]
    /\ client' = Disturbed
    /\ changes' = changes + 1
    /\ UNCHANGED <<vectors, accepts, call, crossed, torn, failures>>

\* A sync deletes the chunks of files that are not there.
PruneMedium(m) ==
    /\ library[m] = Gone /\ vectors[m] # <<>>
    /\ vectors' = [vectors EXCEPT ![m] = <<>>]
    /\ client' = Disturbed
    /\ UNCHANGED <<library, accepts, call, crossed, torn, changes, failures>>

\* Another setting or another backend: a run that has read a page and finds the
\* backend changed on the next one ends with an error.
SwitchModel ==
    /\ changes < MaxChanges
    /\ accepts' = ~accepts
    /\ \E noticed \in BOOLEAN :
          client' = [d \in Client |->
              IF noticed /\ client[d].at = "list" /\ client[d].listed > 0
              THEN [Disturbed[d] EXCEPT !.at = "refused"] ELSE Disturbed[d]]
    /\ changes' = changes + 1
    /\ UNCHANGED <<library, vectors, call, crossed, torn, failures>>

MediaNext ==
    \/ \E c \in Client :
          \/ Begin(c) \/ List(c) \/ GetPart(c) \/ Send(c) \/ Skip(c)
          \/ CheckPut(c) \/ ApplyPut(c) \/ Answered(c) \/ GiveUp(c) \/ Unheard(c) \/ End(c)
    \/ \E m \in Medium : EditMedium(m) \/ PruneMedium(m)
    \/ SwitchModel

MediaSpec == MediaInit /\ [][MediaNext]_mediaVars
----------------------------------------------------------------------------
\* The chunks of a file are one per segment, all made from its content.
Complete(m) ==
    /\ DOMAIN vectors[m] = Segments(m, library[m])
    /\ \A s \in DOMAIN vectors[m] : \A i \in DOMAIN vectors[m][s].from :
          vectors[m][s].from[i] = library[m]

\* What list_media reports as indexed has the vectors of the file as it is,
\* every segment of it, unless an upload overlapped another one of the same
\* file or its bulk failed in part (media.py, put_media_embeddings).
IndexedIsWhole == \A m \in Medium : Indexed(m) /\ m \notin torn => Complete(m)

\* A run that reports no failure and skips nothing leaves no file without
\* vectors, if no other client was at work when it began (an upload checked
\* before could land after it), no file or setting changed meanwhile and nothing
\* was stored by others while it listed (media_sync.py; docs/mcp.md, list_media).
CleanRunLeavesNone ==
    \A c \in Client : client[c].at = "done" /\ client[c].calm /\ client[c].failed = 0 => Missing = {}

\* What the list says is there is there, and a run that succeeds completes it.
MediaExact == IndexedIsWhole /\ CleanRunLeavesNone
============================================================================
