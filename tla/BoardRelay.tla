---------------------------- MODULE BoardRelay -----------------------------
(***************************************************************************)
(* The relay between the Board of a project and a repository of GitHub     *)
(* issues (board-relay/internal).  A sync is a long chain of calls of      *)
(* three services that share no transaction: GitHub, Board and the relay's *)
(* own table of mappings.  Any call may be the last one of a sync: the     *)
(* remote item exists and its mapping does not.  What a later sync makes   *)
(* of that is what this module is about.                                   *)
(*                                                                         *)
(* Imported items carry an idempotency key of Board, exported ones a       *)
(* marker in their body; both are modelled by the item they name.          *)
(* Comments are modelled as root comments of their post.  Board answers    *)
(* 404 for what was purged, and the relay ends a sync at every error.      *)
(***************************************************************************)
EXTENDS Integers, FiniteSets

CONSTANTS
    Posts,      \* ids of Board posts
    Issues,     \* ids of GitHub issues
    Comments,   \* ids of Board comments
    Remotes,    \* ids of GitHub issue comments
    Syncs,      \* sync requests that may run at the same time
    External,   \* the marker of an issue an outside agent opened
    NoItem,
    MaxFaults   \* bound: calls that end a sync

ASSUME RelayAssumption ==
    /\ MaxFaults \in Nat
    /\ NoItem \notin Posts \cup Issues \cup Comments \cup Remotes \cup {External}
    /\ External \notin Posts

VARIABLES
    posts,       \* posts[p]: "absent", "active" or "deleted"
    postKey,     \* the issue a post was imported from
    comments,    \* comments[c]: the post it is on, or NoItem
    purged,      \* the comments that were deleted
    commentKey,  \* the issue comment a comment was imported from
    issues,      \* issues[i]: its marker (a post or External), or NoItem
    remotes,     \* remotes[r]: the issue it is on, or NoItem
    remoteMark,  \* the comment named by the marker of r
    postMap,     \* den_board_relay.mappings of posts: pairs <<post, issue>>
    commentMap,  \* and of comments: pairs <<comment, issue comment>>
    sync,        \* the syncs in progress
    faults       \* faults left

boardVars  == <<posts, postKey, comments, purged, commentKey>>
githubVars == <<issues, remotes, remoteMark>>
relayVars  == <<posts, postKey, comments, purged, commentKey, issues, remotes,
                remoteMark, postMap, commentMap, sync, faults>>

-----------------------------------------------------------------------------

\* A sync: the issues it listed, those left in the current loop, the posts,
\* comments and issue comments left, and the items in hand.
Sync ==
    [pc : {"idle", "importIssues", "createPost", "savePost",
           "exportPosts", "createIssue", "saveIssue",
           "listComments", "exportComments", "createRemote", "saveRemote",
           "importComments", "importRemotes", "recover", "createComment", "saveComment"},
     listed : SUBSET Issues, left : SUBSET Issues, posts : SUBSET Posts,
     comments : SUBSET Comments, remotes : SUBSET Remotes,
     post : Posts \cup {NoItem}, issue : Issues \cup {NoItem},
     comment : Comments \cup {NoItem}, remote : Remotes \cup {NoItem}]

NoSync ==
    [pc |-> "idle", listed |-> {}, left |-> {}, posts |-> {}, comments |-> {},
     remotes |-> {}, post |-> NoItem, issue |-> NoItem, comment |-> NoItem, remote |-> NoItem]

RelayTypeOK ==
    /\ posts \in [Posts -> {"absent", "active", "deleted"}]
    /\ postKey \in [Posts -> Issues \cup {NoItem}]
    /\ comments \in [Comments -> Posts \cup {NoItem}]
    /\ purged \subseteq Comments
    /\ commentKey \in [Comments -> Remotes \cup {NoItem}]
    /\ issues \in [Issues -> Posts \cup {External, NoItem}]
    /\ remotes \in [Remotes -> Issues \cup {NoItem}]
    /\ remoteMark \in [Remotes -> Comments \cup {NoItem}]
    /\ postMap \subseteq Posts \X Issues
    /\ commentMap \subseteq Comments \X Remotes
    /\ sync \in [Syncs -> Sync]
    /\ faults \in 0..MaxFaults

RelayInit ==
    /\ posts = [p \in Posts |-> "absent"]
    /\ postKey = [p \in Posts |-> NoItem]
    /\ comments = [c \in Comments |-> NoItem]
    /\ purged = {}
    /\ commentKey = [c \in Comments |-> NoItem]
    /\ issues = [i \in Issues |-> NoItem]
    /\ remotes = [r \in Remotes |-> NoItem]
    /\ remoteMark = [r \in Remotes |-> NoItem]
    /\ postMap = {}
    /\ commentMap = {}
    /\ sync = [s \in Syncs |-> NoSync]
    /\ faults = MaxFaults

-----------------------------------------------------------------------------
(* The table of mappings and the steps of a sync.                            *)

MappedBoard(M, b) == \E m \in M : m[1] = b
MappedGitHub(M, g) == \E m \in M : m[2] = g
IssueOf(p) == CHOOSE i \in Issues : <<p, i>> \in postMap
PostOf(i) == CHOOSE p \in Posts : <<p, i>> \in postMap

\* saveMappingSQL: on conflict of the GitHub id the row takes the new board
\* id; the primary key on the board id is not the conflict target, so a board
\* item that is mapped to something else makes the statement fail.
Rest(M, g) == {m \in M : m[2] # g}
SaveFails(M, b, g) == MappedBoard(Rest(M, g), b)
Saved(M, b, g) == Rest(M, g) \cup {<<b, g>>}

At(s, pc) == sync[s].pc = pc

Becomes(s, y) == sync' = [sync EXCEPT ![s] = y]

\* The error ends the sync; the receipt is all that is left of it.
Ends(s) == Becomes(s, NoSync)

\* Mutant: the relay's own issues are imported instead of the others.
ListOwnIssues(s) ==
    LET listed == {i \in Issues : issues[i] # NoItem} IN
    /\ At(s, "idle")
    /\ Becomes(s, [NoSync EXCEPT !.pc = "importIssues", !.listed = listed])
    /\ UNCHANGED <<boardVars, githubVars, postMap, commentMap, faults>>

ListIssues(s) ==
    LET listed == {i \in Issues : issues[i] # NoItem} IN
    /\ At(s, "idle")
    /\ Becomes(s, [NoSync EXCEPT !.pc = "importIssues", !.listed = listed,
                                 !.left = {i \in listed : issues[i] = External}])
    /\ UNCHANGED <<boardVars, githubVars, postMap, commentMap, faults>>

-----------------------------------------------------------------------------
(* importIssues                                                              *)

ImportIssue(s, i) ==
    LET y == [sync[s] EXCEPT !.left = @ \ {i}] IN
    /\ At(s, "importIssues")
    /\ i \in sync[s].left
    /\ Becomes(s, IF MappedGitHub(postMap, i) THEN y
                  ELSE [y EXCEPT !.pc = "createPost", !.issue = i])
    /\ UNCHANGED <<boardVars, githubVars, postMap, commentMap, faults>>

\* Board returns the post the key created before, or creates one.
CreatePost(s, p) ==
    LET i == sync[s].issue
        again == \E q \in Posts : postKey[q] = i
    IN
    /\ At(s, "createPost")
    /\ IF again THEN postKey[p] = i ELSE posts[p] = "absent"
    /\ posts' = IF again THEN posts ELSE [posts EXCEPT ![p] = "active"]
    /\ postKey' = [postKey EXCEPT ![p] = i]
    /\ Becomes(s, [sync[s] EXCEPT !.pc = "savePost", !.post = p])
    /\ UNCHANGED <<comments, purged, commentKey, githubVars, postMap, commentMap, faults>>

SavePost(s) ==
    LET y == sync[s] IN
    /\ At(s, "savePost")
    /\ IF SaveFails(postMap, y.post, y.issue)
       THEN Ends(s) /\ UNCHANGED postMap
       ELSE /\ postMap' = Saved(postMap, y.post, y.issue)
            /\ Becomes(s, [y EXCEPT !.pc = "importIssues", !.post = NoItem, !.issue = NoItem])
    /\ UNCHANGED <<boardVars, githubVars, commentMap, faults>>

-----------------------------------------------------------------------------
(* exportPosts and exportComments                                            *)

\* ListPosts, page after page.
ListPosts(s) ==
    /\ At(s, "importIssues")
    /\ sync[s].left = {}
    /\ Becomes(s, [sync[s] EXCEPT !.pc = "exportPosts",
                                  !.posts = {p \in Posts : posts[p] = "active"}])
    /\ UNCHANGED <<boardVars, githubVars, postMap, commentMap, faults>>

\* Mutant: the markers of the listed issues are not consulted.
ExportPostUnmarked(s, p) ==
    LET y == [sync[s] EXCEPT !.posts = @ \ {p}] IN
    /\ At(s, "exportPosts")
    /\ p \in sync[s].posts
    /\ posts[p] = "active"
    /\ Becomes(s, IF MappedBoard(postMap, p)
                  THEN [y EXCEPT !.pc = "listComments", !.post = p, !.issue = IssueOf(p)]
                  ELSE [y EXCEPT !.pc = "createIssue", !.post = p])
    /\ UNCHANGED <<boardVars, githubVars, postMap, commentMap, faults>>

\* GetPost answers 404 if the post was purged since it was listed.  A post
\* that is active is mapped, or recovered from the marker of a listed issue,
\* or to be exported.
ExportPost(s, p) ==
    LET y == [sync[s] EXCEPT !.posts = @ \ {p}]
        marked == {i \in sync[s].listed : issues[i] = p}
    IN
    /\ At(s, "exportPosts")
    /\ p \in sync[s].posts
    /\ IF posts[p] # "active" THEN Ends(s)
       ELSE IF MappedBoard(postMap, p)
       THEN Becomes(s, [y EXCEPT !.pc = "listComments", !.post = p, !.issue = IssueOf(p)])
       ELSE IF marked # {}
       THEN \E i \in marked : Becomes(s, [y EXCEPT !.pc = "saveIssue", !.post = p, !.issue = i])
       ELSE Becomes(s, [y EXCEPT !.pc = "createIssue", !.post = p])
    /\ UNCHANGED <<boardVars, githubVars, postMap, commentMap, faults>>

\* The marker is appended to the body; an imported body starts with the
\* marker of the issue it came from, and parseMarker reads the first one.
CreateIssue(s, i) ==
    LET p == sync[s].post IN
    /\ At(s, "createIssue")
    /\ issues[i] = NoItem
    /\ issues' = [issues EXCEPT ![i] = IF postKey[p] = NoItem THEN p ELSE External]
    /\ Becomes(s, [sync[s] EXCEPT !.pc = "saveIssue", !.issue = i])
    /\ UNCHANGED <<boardVars, remotes, remoteMark, postMap, commentMap, faults>>

SaveIssue(s) ==
    LET y == sync[s] IN
    /\ At(s, "saveIssue")
    /\ IF SaveFails(postMap, y.post, y.issue)
       THEN Ends(s) /\ UNCHANGED postMap
       ELSE /\ postMap' = Saved(postMap, y.post, y.issue)
            /\ Becomes(s, [y EXCEPT !.pc = "listComments"])
    /\ UNCHANGED <<boardVars, githubVars, commentMap, faults>>

ListComments(s) ==
    /\ At(s, "listComments")
    /\ IF posts[sync[s].post] # "active" THEN Ends(s)
       ELSE Becomes(s, [sync[s] EXCEPT !.pc = "exportComments",
               !.comments = {c \in Comments \ purged : comments[c] = sync[s].post}])
    /\ UNCHANGED <<boardVars, githubVars, postMap, commentMap, faults>>

ExportComment(s, c) ==
    LET y == [sync[s] EXCEPT !.comments = @ \ {c}] IN
    /\ At(s, "exportComments")
    /\ c \in sync[s].comments
    /\ Becomes(s, IF MappedBoard(commentMap, c) THEN y
                  ELSE [y EXCEPT !.pc = "createRemote", !.comment = c])
    /\ UNCHANGED <<boardVars, githubVars, postMap, commentMap, faults>>

CreateIssueComment(s, r) ==
    /\ At(s, "createRemote")
    /\ remotes[r] = NoItem
    /\ remotes' = [remotes EXCEPT ![r] = sync[s].issue]
    /\ remoteMark' = [remoteMark EXCEPT ![r] = sync[s].comment]
    /\ Becomes(s, [sync[s] EXCEPT !.pc = "saveRemote", !.remote = r])
    /\ UNCHANGED <<boardVars, issues, postMap, commentMap, faults>>

SaveRemote(s) ==
    LET y == sync[s] IN
    /\ At(s, "saveRemote")
    /\ IF SaveFails(commentMap, y.comment, y.remote)
       THEN Ends(s) /\ UNCHANGED commentMap
       ELSE /\ commentMap' = Saved(commentMap, y.comment, y.remote)
            /\ Becomes(s, [y EXCEPT !.pc = "exportComments", !.comment = NoItem, !.remote = NoItem])
    /\ UNCHANGED <<boardVars, githubVars, postMap, faults>>

ExportedPost(s) ==
    /\ At(s, "exportComments")
    /\ sync[s].comments = {}
    /\ Becomes(s, [sync[s] EXCEPT !.pc = "exportPosts", !.post = NoItem, !.issue = NoItem])
    /\ UNCHANGED <<boardVars, githubVars, postMap, commentMap, faults>>

-----------------------------------------------------------------------------
(* importIssueComments                                                       *)

ExportedAll(s) ==
    /\ At(s, "exportPosts")
    /\ sync[s].posts = {}
    /\ Becomes(s, [sync[s] EXCEPT !.pc = "importComments", !.left = sync[s].listed])
    /\ UNCHANGED <<boardVars, githubVars, postMap, commentMap, faults>>

\* ListIssueComments of a listed issue that has a mapping.
ListIssueComments(s, i) ==
    LET y == [sync[s] EXCEPT !.left = @ \ {i}] IN
    /\ At(s, "importComments")
    /\ i \in sync[s].left
    /\ Becomes(s, IF ~MappedGitHub(postMap, i) THEN y
                  ELSE [y EXCEPT !.pc = "importRemotes", !.issue = i, !.post = PostOf(i),
                                 !.remotes = {r \in Remotes : remotes[r] = i}])
    /\ UNCHANGED <<boardVars, githubVars, postMap, commentMap, faults>>

ImportRemote(s, r) ==
    LET y == [sync[s] EXCEPT !.remotes = @ \ {r}] IN
    /\ At(s, "importRemotes")
    /\ r \in sync[s].remotes
    /\ Becomes(s, IF MappedGitHub(commentMap, r) THEN y
                  ELSE IF remoteMark[r] # NoItem
                  THEN [y EXCEPT !.pc = "recover", !.remote = r, !.comment = remoteMark[r]]
                  ELSE [y EXCEPT !.pc = "createComment", !.remote = r])
    /\ UNCHANGED <<boardVars, githubVars, postMap, commentMap, faults>>

\* recoverCommentMapping: the post and the comment must be active and belong
\* together.
RecoverCommentMapping(s) ==
    LET y == sync[s] IN
    /\ At(s, "recover")
    /\ IF posts[y.post] # "active" \/ y.comment \in purged \/ comments[y.comment] # y.post
       THEN Ends(s)
       ELSE Becomes(s, [y EXCEPT !.pc = "saveComment"])
    /\ UNCHANGED <<boardVars, githubVars, postMap, commentMap, faults>>

\* Board refuses a comment on a purged post, whatever its key.
CreateCommentRefused(s) ==
    /\ At(s, "createComment")
    /\ posts[sync[s].post] # "active"
    /\ Ends(s)
    /\ UNCHANGED <<boardVars, githubVars, postMap, commentMap, faults>>

\* Board returns the comment the key created before, or creates one.
CreateComment(s, c) ==
    LET r == sync[s].remote
        again == \E d \in Comments : commentKey[d] = r
    IN
    /\ At(s, "createComment")
    /\ posts[sync[s].post] = "active"
    /\ IF again THEN commentKey[c] = r ELSE comments[c] = NoItem
    /\ comments' = IF again THEN comments ELSE [comments EXCEPT ![c] = sync[s].post]
    /\ commentKey' = [commentKey EXCEPT ![c] = r]
    /\ Becomes(s, [sync[s] EXCEPT !.pc = "saveComment", !.comment = c])
    /\ UNCHANGED <<posts, postKey, purged, githubVars, postMap, commentMap, faults>>

SaveComment(s) ==
    LET y == sync[s] IN
    /\ At(s, "saveComment")
    /\ IF SaveFails(commentMap, y.comment, y.remote)
       THEN Ends(s) /\ UNCHANGED commentMap
       ELSE /\ commentMap' = Saved(commentMap, y.comment, y.remote)
            /\ Becomes(s, [y EXCEPT !.pc = "importRemotes", !.comment = NoItem, !.remote = NoItem])
    /\ UNCHANGED <<boardVars, githubVars, postMap, faults>>

ImportedIssue(s) ==
    /\ At(s, "importRemotes")
    /\ sync[s].remotes = {}
    /\ Becomes(s, [sync[s] EXCEPT !.pc = "importComments", !.post = NoItem, !.issue = NoItem])
    /\ UNCHANGED <<boardVars, githubVars, postMap, commentMap, faults>>

SyncDone(s) ==
    /\ At(s, "importComments")
    /\ sync[s].left = {}
    /\ Ends(s)
    /\ UNCHANGED <<boardVars, githubVars, postMap, commentMap, faults>>

\* A call fails, its answer is lost, or the process stops.
SyncFails(s) ==
    /\ ~At(s, "idle")
    /\ faults > 0
    /\ faults' = faults - 1
    /\ Ends(s)
    /\ UNCHANGED <<boardVars, githubVars, postMap, commentMap>>

-----------------------------------------------------------------------------
(* Board and GitHub on their own.                                            *)

\* Bounds: every post will need an issue and every issue a post, and the same
\* of comments, so outside items are made only while ids are left for both.
RoomForPost ==
    Cardinality({p \in Posts : posts[p] # "absent" /\ postKey[p] = NoItem})
        + Cardinality({i \in Issues : issues[i] = External}) < Cardinality(Posts)

RoomForComment ==
    Cardinality({c \in Comments : comments[c] # NoItem /\ commentKey[c] = NoItem})
        + Cardinality({r \in Remotes : remotes[r] # NoItem /\ remoteMark[r] = NoItem})
        < Cardinality(Comments)

NewPost(p) ==
    /\ RoomForPost
    /\ posts[p] = "absent"
    /\ posts' = [posts EXCEPT ![p] = "active"]
    /\ UNCHANGED <<postKey, comments, purged, commentKey, githubVars, postMap, commentMap, sync, faults>>

\* One transaction deletes the post and its comments.
PurgePost(p) ==
    /\ posts[p] = "active"
    /\ posts' = [posts EXCEPT ![p] = "deleted"]
    /\ purged' = purged \cup {c \in Comments : comments[c] = p}
    /\ UNCHANGED <<postKey, comments, commentKey, githubVars, postMap, commentMap, sync, faults>>

PurgeComment(c) ==
    /\ comments[c] # NoItem
    /\ c \notin purged
    /\ purged' = purged \cup {c}
    /\ UNCHANGED <<posts, postKey, comments, commentKey, githubVars, postMap, commentMap, sync, faults>>

NewComment(c, p) ==
    /\ RoomForComment
    /\ comments[c] = NoItem
    /\ posts[p] = "active"
    /\ comments' = [comments EXCEPT ![c] = p]
    /\ UNCHANGED <<posts, postKey, purged, commentKey, githubVars, postMap, commentMap, sync, faults>>

NewIssue(i) ==
    /\ RoomForPost
    /\ issues[i] = NoItem
    /\ issues' = [issues EXCEPT ![i] = External]
    /\ UNCHANGED <<boardVars, remotes, remoteMark, postMap, commentMap, sync, faults>>

NewIssueComment(r, i) ==
    /\ RoomForComment
    /\ remotes[r] = NoItem
    /\ issues[i] # NoItem
    /\ remotes' = [remotes EXCEPT ![r] = i]
    /\ UNCHANGED <<boardVars, issues, remoteMark, postMap, commentMap, sync, faults>>

-----------------------------------------------------------------------------

SyncSteps(s) ==
    \/ \E i \in Issues : ImportIssue(s, i) \/ CreateIssue(s, i) \/ ListIssueComments(s, i)
    \/ \E p \in Posts : CreatePost(s, p) \/ ExportPost(s, p)
    \/ \E c \in Comments : ExportComment(s, c) \/ CreateComment(s, c)
    \/ \E r \in Remotes : CreateIssueComment(s, r) \/ ImportRemote(s, r)
    \/ ListPosts(s) \/ ListComments(s) \/ ExportedPost(s) \/ ExportedAll(s)
    \/ ImportedIssue(s) \/ RecoverCommentMapping(s) \/ CreateCommentRefused(s)
    \/ SavePost(s) \/ SaveIssue(s) \/ SaveRemote(s) \/ SaveComment(s)
    \/ SyncDone(s)

Outside ==
    \/ \E p \in Posts : NewPost(p) \/ PurgePost(p) \/ \E c \in Comments : NewComment(c, p)
    \/ \E c \in Comments : PurgeComment(c)
    \/ \E i \in Issues : NewIssue(i) \/ \E r \in Remotes : NewIssueComment(r, i)

RelayNext ==
    \/ \E s \in Syncs : ListIssues(s) \/ SyncSteps(s) \/ SyncFails(s)
    \/ Outside

RelaySpec == RelayInit /\ [][RelayNext]_relayVars

\* A sync that was started goes on; the operator runs syncs again and again.
RelayFairness == \A s \in Syncs : WF_relayVars(ListIssues(s) \/ SyncSteps(s))

FairRelaySpec == RelaySpec /\ RelayFairness

-----------------------------------------------------------------------------
(* Properties.                                                               *)

\* The issues of a post: those exported from it and the one it came from.
IssuesOf(p) == {i \in Issues : issues[i] = p \/ postKey[p] = i \/ <<p, i>> \in postMap}

RemotesOf(c) == {r \in Remotes : remoteMark[r] = c \/ commentKey[c] = r \/ <<c, r>> \in commentMap}

\* A post and an issue are never doubled, although a sync may stop after any
\* call: one issue per post, one post per issue, exported or imported, and no
\* imported post is sent back as a second issue.  A mapping is backed by what
\* the two items say of themselves, and comments are mapped to comments on the
\* issue their post is mapped to.
OneIssuePerPost ==
    /\ RelayTypeOK
    /\ \A p, q \in Posts :
          /\ Cardinality(IssuesOf(p)) <= 1
          /\ p # q => IssuesOf(p) \cap IssuesOf(q) = {}
    /\ \A m \in postMap : issues[m[2]] = m[1] \/ postKey[m[1]] = m[2]
    /\ \A m \in commentMap :
          /\ remoteMark[m[2]] = m[1] \/ commentKey[m[1]] = m[2]
          /\ <<comments[m[1]], remotes[m[2]]>> \in postMap

\* Every issue an outside agent opens reaches the Board, and every post that
\* stays active is exported, although a sync may stop after any call (Sync,
\* board-relay/internal/service.go:35).
RelayConverges ==
    /\ \A i \in Issues : issues[i] = External ~> MappedGitHub(postMap, i)
    /\ \A p \in Posts : posts[p] = "active" ~> (MappedBoard(postMap, p) \/ posts[p] = "deleted")

\* docs/board-github-relay.md:25: "It maps a Board post to one Issue and a
\* Board comment to one Issue comment".
OneRemotePerComment ==
    \A c \in Comments : Cardinality(RemotesOf(c)) <= 1

=============================================================================
