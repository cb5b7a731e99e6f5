--------------------------- MODULE StoreContract ---------------------------
(***************************************************************************)
(* What the store promises to the code above it, with no key, prefix or    *)
(* metadata in sight: a FIFO of values and a multiset of partitioned keys, *)
(* changed by transactions.  Every call answers from and acts on the       *)
(* transaction's own draft; a failed call leaves nothing but a draft that  *)
(* can no longer be committed.  kept lists the contents a crash may fall   *)
(* back to, from the last durability barrier to what is visible now.       *)
(***************************************************************************)
EXTENDS Integers, Sequences, FiniteSets, SequencesExt

CONSTANTS MapKey, Payload, Difference, MaxWeight, Capacity, EntryBytes

VARIABLES
  kept,      \* the contents a crash may leave, the last one being visible
  open,      \* whether a transaction is open
  healthy,   \* whether it has met no hard failure
  draft,     \* what it would publish
  reply      \* what the last call answered

Empty == [fifo |-> <<>>, weights |-> {}]

Visible == Last(kept)

Closes == open' = FALSE /\ healthy' = TRUE /\ draft' = Last(kept')

Says(kind, data) == reply' = [kind |-> kind, data |-> data]

\* A map key is a pair of a partition and a local key.
WeightOf(contents, pk) ==
  LET held == {w \in contents.weights : w.at = pk}
  IN IF held = {} THEN 0 ELSE (CHOOSE w \in held : TRUE).weight

WithWeight(contents, pk, weight) ==
  [contents EXCEPT !.weights =
     {w \in @ : w.at # pk} \cup (IF weight = 0 THEN {} ELSE {[at |-> pk, weight |-> weight]})]

QueuedBytes(contents) ==
  LET sum[n \in 0 .. Len(contents.fifo)] ==
        IF n = 0 THEN 0 ELSE sum[n - 1] + contents.fifo[n].size + EntryBytes
  IN sum[Len(contents.fifo)]

------------------------------------------------------------------------------
Begin ==
  /\ ~ open /\ open'
  /\ draft' = Visible
  /\ Says("none", <<>>)
  /\ UNCHANGED <<kept, healthy>>

\* A healthy call: the caller hears the answer and the draft becomes next.
Answers(kind, data, next) ==
  /\ Says(kind, data)
  /\ open /\ healthy
  /\ draft' = next
  /\ UNCHANGED <<kept, open, healthy>>

\* A hard failure: only dropping, or committing in vain, is left.
Fails(kind) ==
  /\ Says(kind, <<>>)
  /\ open /\ healthy /\ ~ healthy'
  /\ draft' = Visible
  /\ UNCHANGED <<kept, open>>

Refused ==
  /\ Says("poisoned", <<>>)
  /\ open /\ ~ healthy
  /\ UNCHANGED <<kept, open, healthy, draft>>

TryPush ==
  \E v \in Payload :
    LET bytes == QueuedBytes(draft) + v.size + EntryBytes
    IN \/ Answers("full", <<>>, draft) /\ bytes > Capacity
       \/ Answers("pushed", <<>>, [draft EXCEPT !.fifo = Append(@, v)]) /\ bytes <= Capacity
       \/ Fails("exhausted") /\ bytes <= Capacity /\ draft.fifo # <<>>

\* The oldest value leaves, unless it is over the caller's bound.
PopFront ==
  \/ Answers("none", <<>>, draft) /\ draft.fifo = <<>>
  \/ Answers("too_large", <<>>, draft) /\ draft.fifo # <<>>
  \/ /\ reply'.kind = "some" /\ draft.fifo # <<>>
     /\ Answers("some", Head(draft.fifo).data, [draft EXCEPT !.fifo = Tail(@)])

DiscardFront ==
  /\ reply'.kind \in {"empty", "left"}
  /\ \E n \in 0 .. Len(draft.fifo) :
       LET left == SubSeq(draft.fifo, n + 1, Len(draft.fifo))
       IN Answers(IF left = <<>> THEN "empty" ELSE "left", <<>>, [draft EXCEPT !.fifo = left])

CountBytes == Answers("some", <<QueuedBytes(draft)>>, draft)

Adjust ==
  /\ reply'.kind \in {"change", "underflow", "overflow"}
  /\ \E pk \in MapKey, d \in Difference :
       LET before == WeightOf(draft, pk)
           after  == before + d
       IN \/ Fails("underflow") /\ after < 0
          \/ Fails("overflow") /\ after > MaxWeight
          \/ /\ after \in 0 .. MaxWeight
             /\ Answers("change", <<before, after>>, WithWeight(draft, pk, after))

SetWeight ==
  /\ reply'.kind = "set"
  /\ \E pk \in MapKey, w \in 0 .. MaxWeight : Answers("set", <<>>, WithWeight(draft, pk, w))

\* Questions about one partition see that partition's keys and no others.
AskPartition ==
  /\ reply'.kind \in {"some", "none", "held", "only", "other"}
  /\ \E pk \in MapKey :
       LET held == {w \in draft.weights : w.at[1] = pk[1]}
       IN \/ Answers("some", <<WeightOf(draft, pk)>>, draft)
          \/ Answers(IF held = {} THEN "none" ELSE "held", <<>>, draft)
          \/ Answers(IF {w \in held : w.at # pk} = {} THEN "only" ELSE "other", <<>>, draft)

\* One page of a scan; what the pages add up to is not the contract's matter.
Page == Answers("page", <<>>, draft) \/ Answers("too_large", <<>>, draft)

\* A snapshot reads what is visible, whatever the open transaction holds.
SnapshotFront ==
  /\ \/ Says("none", <<>>) /\ Visible.fifo = <<>>
     \/ Says("too_large", <<>>) /\ Visible.fifo # <<>>
     \/ reply'.kind = "some" /\ Visible.fifo # <<>> /\ Says("some", Head(Visible.fifo).data)
  /\ UNCHANGED <<kept, open, healthy, draft>>

------------------------------------------------------------------------------
\* A commit publishes the whole draft; outside a batch it is durable at once.
Commit ==
  /\ open
  /\ \/ Says("durable", <<>>) /\ healthy /\ kept' = <<draft>>
     \/ /\ Says("committed", <<>>) /\ healthy
        /\ kept' = Append(kept, draft) \/ (draft = Visible /\ kept' = kept)
     \/ Says("commit_error", <<>>) /\ healthy /\ kept' \in {kept, Append(kept, draft)}
     \/ Says("poisoned", <<>>) /\ ~ healthy /\ kept' = kept
  /\ Closes

Drop ==
  /\ open
  /\ Says("none", <<>>)
  /\ UNCHANGED kept
  /\ Closes

\* A barrier that succeeds leaves nothing for a crash to take back.
Barrier ==
  /\ ~ open
  /\ \/ Says("synced", <<>>) /\ kept' = <<Visible>>
     \/ Says("sync_error", <<>>) /\ kept' = kept
  /\ UNCHANGED <<open, healthy, draft>>

Crash ==
  /\ Says("none", <<>>)
  /\ \E i \in DOMAIN kept : kept' = <<kept[i]>>
  /\ Closes

Init ==
  /\ kept = <<Empty>>
  /\ open = FALSE /\ healthy = TRUE
  /\ draft = Empty
  /\ reply = [kind |-> "none", data |-> <<>>]

Next ==
  \/ Begin \/ Refused \/ Fails("storage") \/ Fails("wrong_store")
  \/ TryPush \/ PopFront \/ DiscardFront \/ CountBytes
  \/ Adjust \/ SetWeight \/ AskPartition \/ Page \/ SnapshotFront
  \/ Commit \/ Drop \/ Barrier \/ Crash

Spec == Init /\ [][Next]_<<kept, open, healthy, draft, reply>>
=============================================================================
