---------------------------- MODULE MailboxStore ----------------------------
(***************************************************************************)
(* The mailbox_messages table of one durable mailbox and the statements    *)
(* that change it (db/actordelivery/queries/mailbox.sql).  Each operator   *)
(* maps a table to the table the statement leaves behind; the predicate    *)
(* Matches says whether a release statement affects a row at all, which is *)
(* what the Go callers test with "rows == 0".                              *)
(*                                                                         *)
(* Wall-clock columns are abstracted to what the statements compare them   *)
(* with: ready stands for available_at <= now, expired for                 *)
(* lease_until < now.  Time passing is an action of the modules that use   *)
(* this one.                                                               *)
(***************************************************************************)
EXTENDS Integers

CONSTANTS Ids,          \* message ids; UUIDv7 order is the order of numbers
          Tokens,       \* lease tokens, one per worker (see ExecActor)
          NoToken,      \* NULL lease_token, and the token of a peeked delivery
          NoRow,        \* the id has no row in the table
          NoKey,        \* NULL correlation_key
          KeyOf,        \* correlation_key of each id, or NoKey
          PriorityOf,   \* priority column of each id
          MaxAttempts   \* max_attempts column

ASSUME StoreAssumption ==
    /\ Ids \subseteq Nat
    /\ MaxAttempts \in Nat \ {0}
    /\ NoToken \notin Tokens
    /\ PriorityOf \in [Ids -> Int]

Row == [attempts: Nat,
        token:    Tokens \cup {NoToken},
        expired:  BOOLEAN,
        ready:    BOOLEAN]

ASSUME NoRowAssumption == NoRow \notin Row

MailboxTable == [Ids -> Row \cup {NoRow}]

EmptyMailbox == [id \in Ids |-> NoRow]

Present(mailbox, id) == mailbox[id] # NoRow

-----------------------------------------------------------------------------
(***************************************************************************)
(* Claiming.                                                               *)
(***************************************************************************)
\* INSERT ... ON CONFLICT (id) DO NOTHING, with available_at = now.
EnqueueMailboxMessage(mailbox, id) ==
    IF Present(mailbox, id)
    THEN mailbox
    ELSE [mailbox EXCEPT ![id] = [attempts |-> 0, token |-> NoToken,
                                  expired |-> FALSE, ready |-> TRUE]]

\* Mutant: a predecessor in backoff does not block its key.
BlockedByKey_readyOnly(mailbox, id) ==
    /\ KeyOf[id] # NoKey
    /\ \E id2 \in Ids : /\ id2 < id
                        /\ KeyOf[id2] = KeyOf[id]
                        /\ Present(mailbox, id2)
                        /\ mailbox[id2].ready
                        /\ mailbox[id2].attempts < MaxAttempts

\* Mutant: a predecessor with no attempts left still blocks its key.
BlockedByKey_exhausted(mailbox, id) ==
    /\ KeyOf[id] # NoKey
    /\ \E id2 \in Ids : /\ id2 < id
                        /\ KeyOf[id2] = KeyOf[id]
                        /\ Present(mailbox, id2)

\* The anti-join of the claim queries: an earlier row of the same key that
\* still has attempts left.
BlockedByKey(mailbox, id) ==
    /\ KeyOf[id] # NoKey
    /\ \E id2 \in Ids : /\ id2 < id
                        /\ KeyOf[id2] = KeyOf[id]
                        /\ Present(mailbox, id2)
                        /\ mailbox[id2].attempts < MaxAttempts

\* The WHERE clause shared by LeaseNextMailboxMessage and
\* PeekNextMailboxMessage.
Eligible(mailbox, id) ==
    /\ Present(mailbox, id)
    /\ mailbox[id].ready
    /\ mailbox[id].token = NoToken \/ mailbox[id].expired
    /\ mailbox[id].attempts < MaxAttempts
    /\ ~BlockedByKey(mailbox, id)

\* ORDER BY priority DESC; ties (available_at, created_at) are broken freely.
IsNext(mailbox, id) ==
    /\ Eligible(mailbox, id)
    /\ \A id2 \in Ids : Eligible(mailbox, id2)
                           => PriorityOf[id2] <= PriorityOf[id]

\* The UPDATE of LeaseNextMailboxMessage on the selected row.
LeaseNextMailboxMessage(mailbox, id, token) ==
    [mailbox EXCEPT ![id] = [attempts |-> @.attempts + 1, token |-> token,
                             expired |-> FALSE, ready |-> @.ready]]

-----------------------------------------------------------------------------
(***************************************************************************)
(* Releasing.  A delivery that was peeked carries NoToken, and every       *)
(* release of it is by id alone; a leased one is fenced by its token.      *)
(***************************************************************************)
Matches(mailbox, id, token) ==
    /\ Present(mailbox, id)
    /\ token = NoToken \/ mailbox[id].token = token

DeleteMailboxMessage(mailbox, id) == [mailbox EXCEPT ![id] = NoRow]

\* AckMailboxMessage and AckMailboxMessageByID.
ackMessage(mailbox, id, token) ==
    IF Matches(mailbox, id, token)
    THEN DeleteMailboxMessage(mailbox, id)
    ELSE mailbox

\* A row handed back for redelivery: no lease, available_at in the future.
Released(attempts) == [attempts |-> attempts, token |-> NoToken,
                       expired |-> FALSE, ready |-> FALSE]

\* Mutant: the nack by id does not count the attempt.
nackMessage_uncounted(mailbox, id, token) ==
    IF Matches(mailbox, id, token)
    THEN [mailbox EXCEPT ![id] = Released(@.attempts)]
    ELSE mailbox

\* NackMailboxMessage and NackMailboxMessageByID: both clear the lease and
\* push available_at into the future, and only the second counts the attempt,
\* since a peek does not.
nackMessage(mailbox, id, token) ==
    IF Matches(mailbox, id, token)
    THEN [mailbox EXCEPT ![id] =
            Released(IF token = NoToken THEN @.attempts + 1 ELSE @.attempts)]
    ELSE mailbox

\* PostponeMailboxMessage gives back the attempt the lease counted, clamped at
\* zero; PostponeMailboxMessageByID has none to give back.
postponeMessage(mailbox, id, token) ==
    IF Matches(mailbox, id, token)
    THEN [mailbox EXCEPT ![id] =
            Released(IF token # NoToken /\ @.attempts > 0
                     THEN @.attempts - 1 ELSE @.attempts)]
    ELSE mailbox

\* ExtendMailboxLease: fenced by the token, and indifferent to whether the
\* lease it extends has already run out.
ExtendMailboxLease(mailbox, id, token) ==
    IF Present(mailbox, id) /\ mailbox[id].token = token
    THEN [mailbox EXCEPT ![id].expired = FALSE]
    ELSE mailbox

\* MoveToDeadLetter copies the row into dead_letters, whose primary key is the
\* message id, and deletes it, in one transaction: a second dead letter for the
\* same id fails and leaves both tables alone.  A missing row copies nothing.
DeadLetterConflict(mailbox, dead, id) == Present(mailbox, id) /\ id \in dead

DeadLettersAfterMove(mailbox, dead, id) ==
    IF Present(mailbox, id) THEN dead \cup {id} ELSE dead

-----------------------------------------------------------------------------
(***************************************************************************)
(* Time: the backoff of a row ends, or the lease on it runs out.           *)
(***************************************************************************)
BackoffEnds(mailbox, id) ==
    [mailbox EXCEPT ![id].ready = TRUE]

LeaseRunsOut(mailbox, id) ==
    [mailbox EXCEPT ![id].expired = TRUE]

=============================================================================
