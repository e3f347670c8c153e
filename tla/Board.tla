------------------------------- MODULE Board --------------------------------
(***************************************************************************)
(* The board service (board/internal): posts, comments that answer a post  *)
(* or a comment, keys that make a creation repeatable, and purges that     *)
(* keep only the structure.  BoardRelay uses these operations whole; here  *)
(* each call runs as the code does: the service checks, the transaction    *)
(* reserves the key, locks the post, locks the parent and inserts.         *)
(***************************************************************************)
EXTENDS Integers, FiniteSets

CONSTANTS
    BoardCalls,     \* calls, numbered as they arrive
    BoardKeys       \* idempotency keys; 0 is none

ASSUME BoardAssumption == BoardCalls \subseteq Nat \ {0} /\ 0 \notin BoardKeys

VARIABLES
    boardPosts,     \* den_board.posts: status by id
    boardComments,  \* den_board.comments by id
    boardKeys,      \* den_board.idempotency_keys
    boardCalls      \* the calls in progress

boardStoreVars == <<boardPosts, boardComments, boardKeys, boardCalls>>

-----------------------------------------------------------------------------

\* Posts and comments draw their ids from one sequence: here the number of
\* the call that inserts.
EntryIds == BoardCalls

NoComment == [post |-> 0, parent |-> 0, status |-> "none"]
NoKey == [op |-> "none", id |-> 0]

NoBoardCall ==
    [pc |-> "idle", op |-> "none", post |-> 0, parent |-> 0, key |-> 0, id |-> 0]

BoardTypeOK ==
    /\ boardPosts \in [EntryIds -> {"none", "active", "deleted"}]
    /\ \A i \in EntryIds : /\ boardComments[i].status \in {"none", "active", "deleted"}
                           /\ boardComments[i].parent < i
    /\ \A k \in BoardKeys : boardKeys[k].op \in {"none", "post", "comment"}
    /\ \A c \in BoardCalls :
          boardCalls[c].pc \in {"idle", "key", "post", "parent", "insert", "done", "failed"}

BoardInit ==
    /\ boardPosts = [i \in EntryIds |-> "none"]
    /\ boardComments = [i \in EntryIds |-> NoComment]
    /\ boardKeys = [k \in BoardKeys |-> NoKey]
    /\ boardCalls = [c \in BoardCalls |-> NoBoardCall]

-----------------------------------------------------------------------------

NextCall(c) ==
    boardCalls[c].pc = "idle" /\ \A d \in BoardCalls : d < c => boardCalls[d].pc # "idle"

CallTo(c, pc) == boardCalls' = [boardCalls EXCEPT ![c].pc = pc]

StoreUnchanged == UNCHANGED <<boardPosts, boardComments, boardKeys>>

\* Transactions hold their locks until they commit or roll back.
HoldsKey(c, k) == boardCalls[c].key = k /\ boardCalls[c].pc \in {"post", "parent", "insert"}
HoldsPost(c, p) == boardCalls[c].post = p /\ boardCalls[c].pc \in {"parent", "insert"}
HoldsParent(c, i) == boardCalls[c].parent = i /\ boardCalls[c].pc = "insert"

Free(Holds(_, _), c, x) == \A d \in BoardCalls \ {c} : ~Holds(d, x)

\* The row a read by id gives: what is committed.
GetComment(i) == IF i \in EntryIds THEN boardComments[i] ELSE NoComment

\* Service.CreatePost and CreateComment: the post, and the parent on it, are
\* there and not purged when the call looks; the project may refuse.
CreatePost(c, key) ==
    /\ NextCall(c)
    /\ boardCalls' = [boardCalls EXCEPT ![c] =
          [NoBoardCall EXCEPT !.pc = "key", !.op = "post", !.key = key]]
    /\ StoreUnchanged

CreateComment(c, post, parent, key) ==
    /\ NextCall(c)
    /\ boardPosts[post] = "active"
    /\ parent # 0 => GetComment(parent).status = "active" /\ GetComment(parent).post = post
    /\ boardCalls' = [boardCalls EXCEPT ![c] =
          [NoBoardCall EXCEPT !.pc = "key", !.op = "comment", !.post = post, !.parent = parent,
                              !.key = key]]
    /\ StoreUnchanged

\* reserveIdempotencyKey: a key another transaction has inserted makes it
\* wait; a committed one is answered with its entry, whatever became of it,
\* or with an error when it was used for the other operation.
reserveIdempotencyKey(c) ==
    LET k == boardCalls[c].key
        next == IF boardCalls[c].op = "post" THEN "insert" ELSE "post"
    IN
    /\ boardCalls[c].pc = "key"
    /\ k # 0 => Free(HoldsKey, c, k)
    /\ boardCalls' = [boardCalls EXCEPT ![c] =
          IF k = 0 \/ boardKeys[k] = NoKey THEN [@ EXCEPT !.pc = next]
          ELSE IF boardKeys[k].op = @.op THEN [@ EXCEPT !.pc = "done", !.id = boardKeys[k].id]
          ELSE [@ EXCEPT !.pc = "failed"]]
    /\ StoreUnchanged

\* Mutant: the post is locked, but its status is not read again.
PostUnread(c) ==
    /\ boardCalls[c].pc = "post"
    /\ Free(HoldsPost, c, boardCalls[c].post)
    /\ CallTo(c, IF boardCalls[c].parent = 0 THEN "insert" ELSE "parent")
    /\ StoreUnchanged

\* lockPostForCommentSQL; a failure rolls the reserved key back too.
lockPostForComment(c) ==
    /\ boardCalls[c].pc = "post"
    /\ Free(HoldsPost, c, boardCalls[c].post)
    /\ CallTo(c, IF boardPosts[boardCalls[c].post] # "active" THEN "failed"
                 ELSE IF boardCalls[c].parent = 0 THEN "insert" ELSE "parent")
    /\ StoreUnchanged

\* lockParentForCommentSQL.
lockParentForComment(c) ==
    LET parent == GetComment(boardCalls[c].parent) IN
    /\ boardCalls[c].pc = "parent"
    /\ Free(HoldsParent, c, boardCalls[c].parent)
    /\ CallTo(c, IF parent.status = "active" /\ parent.post = boardCalls[c].post
                 THEN "insert" ELSE "failed")
    /\ StoreUnchanged

\* createPostSQL or createCommentSQL, the key's entry, and the commit.
InsertEntry(c) ==
    LET call == boardCalls[c] IN
    /\ call.pc = "insert"
    /\ IF call.op = "post"
       THEN boardPosts' = [boardPosts EXCEPT ![c] = "active"] /\ UNCHANGED boardComments
       ELSE /\ boardComments' = [boardComments EXCEPT ![c] =
                  [post |-> call.post, parent |-> call.parent, status |-> "active"]]
            /\ UNCHANGED boardPosts
    /\ boardKeys' = IF call.key = 0 THEN boardKeys
                    ELSE [boardKeys EXCEPT ![call.key] = [op |-> call.op, id |-> c]]
    /\ boardCalls' = [boardCalls EXCEPT ![c].pc = "done", ![c].id = c]

\* PurgePost: the post, and its comments with it, lose all but their place.
PurgePost(c, post) ==
    /\ NextCall(c)
    /\ Free(HoldsPost, c, post)
    /\ boardPosts[post] = "active"
    /\ boardPosts' = [boardPosts EXCEPT ![post] = "deleted"]
    /\ boardComments' = [i \in EntryIds |->
          IF boardComments[i].post = post THEN [boardComments[i] EXCEPT !.status = "deleted"]
          ELSE boardComments[i]]
    /\ CallTo(c, "done")
    /\ UNCHANGED boardKeys

\* PurgeComment waits for a reply that has locked the row.
PurgeComment(c, i) ==
    /\ NextCall(c)
    /\ Free(HoldsParent, c, i)
    /\ boardComments[i].status = "active"
    /\ boardPosts[boardComments[i].post] = "active"
    /\ boardComments' = [boardComments EXCEPT ![i].status = "deleted"]
    /\ CallTo(c, "done")
    /\ UNCHANGED <<boardPosts, boardKeys>>

-----------------------------------------------------------------------------
(* Views                                                                     *)

ParentIn(S, i) == boardComments[i].parent \in S \cup {0}

\* What a recursive query gathers: the least set that has the parent of i and
\* of everything in it.
Above(i) ==
    {j \in EntryIds : \A S \in SUBSET EntryIds : (\A k \in S \cup {i} : ParentIn(S, k)) => j \in S}

hasActiveDescendant(i) ==
    \E j \in EntryIds : boardComments[j].status = "active" /\ i \in Above(j)

\* One level of a post: purged comments stay as long as something below is
\* left to read.
ListComments(post, parent) ==
    {i \in EntryIds : /\ boardComments[i].post = post /\ boardComments[i].parent = parent
                      /\ \/ boardComments[i].status = "active"
                         \/ boardComments[i].status = "deleted" /\ hasActiveDescendant(i)}

Topmost(path) == CHOOSE i \in path : \A j \in path : i <= j

\* The nearest comments above one, itself included, and whether more are.
GetCommentPath(i, limit) ==
    LET path == {j \in Above(i) \cup {i} : Cardinality({k \in Above(i) \cup {i} : k > j}) < limit}
    IN  [comments |-> path, truncated |-> boardComments[Topmost(path)].parent # 0]

-----------------------------------------------------------------------------

BoardNext ==
    \E c \in BoardCalls :
        \/ \E key \in BoardKeys \cup {0} :
              \/ CreatePost(c, key)
              \/ \E post \in EntryIds, parent \in EntryIds \cup {0} :
                    CreateComment(c, post, parent, key)
        \/ reserveIdempotencyKey(c)
        \/ lockPostForComment(c)
        \/ lockParentForComment(c)
        \/ InsertEntry(c)
        \/ \E i \in EntryIds : PurgePost(c, i) \/ PurgeComment(c, i)

BoardSpec == BoardInit /\ [][BoardNext]_boardStoreVars

-----------------------------------------------------------------------------
(* Properties *)

\* Nothing readable is left below a purged post, whatever was being written
\* when it was purged; every readable comment is reached from its post level
\* by level and by its path; and all calls with one key are given the one
\* entry it made (board/internal/store.go:120-235, 303-340).
BoardIsConsistent ==
    /\ BoardTypeOK
    /\ \A i \in EntryIds : boardComments[i].status = "active" =>
          /\ boardPosts[boardComments[i].post] = "active"
          /\ \A j \in Above(i) \cup {i} :
                j \in ListComments(boardComments[i].post, boardComments[j].parent)
          /\ \A limit \in 1..3 :
                LET path == GetCommentPath(i, limit) IN
                path.truncated = (path.comments # Above(i) \cup {i})
    /\ \A c, d \in BoardCalls :
          boardCalls[c].pc = "done" /\ boardCalls[d].pc = "done"
             /\ boardCalls[c].key # 0 /\ boardCalls[c].key = boardCalls[d].key
             => boardCalls[c].id = boardCalls[d].id

=============================================================================
