----------------------------- MODULE InboundPoll ----------------------------
(***************************************************************************)
(* Polling the mailbox for replies, bounces and unsubscribes               *)
(* (services/sequence_adapters.py, sequencing/serializers.py).  A poll     *)
(* searches for unseen messages, fetches them one by one, which marks them *)
(* seen on the server, and then has each processed in a transaction of its *)
(* own, under a key made of its message id.  What an event does to an      *)
(* enrollment is the subject of module Sequencing.                         *)
(***************************************************************************)
EXTENDS Naturals, Sequences, FiniteSets, Functions

CONSTANTS
  Mail,          \* 1..n, in the order of the mailbox
  Nameless,      \* the messages without a Message-ID
  Poller,        \* polls that may be under way at once
  PollLimit      \* how many messages a poll takes

VARIABLES
  mailbox,       \* each message: "away", "unseen" or "seen"
  polls,         \* each poll: messages to fetch, messages to process, the lookup of the first
  inbound,       \* how many events are stored for a message
  dropped        \* history: messages fetched by a poll that ended before it processed them

ivars == <<mailbox, polls, inbound, dropped>>

NoPoll == [fetch |-> <<>>, process |-> <<>>, found |-> "unread"]

InboundInit ==
  /\ mailbox = [m \in Mail |-> "away"]
  /\ polls = [p \in Poller |-> NoPoll]
  /\ inbound = [m \in Mail |-> 0]
  /\ dropped = {}

MailArrives(m) ==
  /\ mailbox[m] = "away"
  /\ mailbox' = [mailbox EXCEPT ![m] = "unseen"]
  /\ UNCHANGED <<polls, inbound, dropped>>

Unseen ==
  LET found == {m \in Mail : mailbox[m] = "unseen"}
  IN  CHOOSE s \in [1..Cardinality(found) -> found] :
        \A i, j \in DOMAIN s : i < j => s[i] < s[j]

PollSearches(p) ==
  /\ polls[p] = NoPoll
  /\ Unseen # <<>>
  /\ polls' = [polls EXCEPT ![p].fetch =
                SubSeq(Unseen, 1, IF Len(Unseen) < PollLimit THEN Len(Unseen) ELSE PollLimit)]
  /\ UNCHANGED <<mailbox, inbound, dropped>>

\* Mutant: keeps the last message only.
FetchedLast(poll) == [poll EXCEPT !.fetch = Tail(@), !.process = <<Head(poll.fetch)>>]

Fetched(poll) == [poll EXCEPT !.fetch = Tail(@), !.process = Append(@, Head(poll.fetch))]

PollFetches(p) ==
  /\ polls[p].fetch # <<>>
  /\ mailbox' = [mailbox EXCEPT ![Head(polls[p].fetch)] = "seen"]
  /\ polls' = [polls EXCEPT ![p] = Fetched(@)]
  /\ UNCHANGED <<inbound, dropped>>

\* The server does not answer OK: the message is passed over and stays as it is.
FetchRefused(p) ==
  /\ polls[p].fetch # <<>>
  /\ polls' = [polls EXCEPT ![p].fetch = Tail(@)]
  /\ UNCHANGED <<mailbox, inbound, dropped>>

\* process_inbound_email_event looks its key up; without a Message-ID the key is a new one.
KeyIsStored(m) == m \notin Nameless /\ inbound[m] > 0

EventLookup(p) ==
  /\ polls[p].fetch = <<>>
  /\ polls[p].process # <<>>
  /\ polls[p].found = "unread"
  /\ polls' = [polls EXCEPT ![p].found = IF KeyIsStored(Head(polls[p].process)) THEN "stored"
                                         ELSE "new"]
  /\ UNCHANGED <<mailbox, inbound, dropped>>

NextEvent(poll) == [poll EXCEPT !.process = Tail(@), !.found = "unread"]

EventIsStored(p) ==
  /\ polls[p].found = "stored"
  /\ polls' = [polls EXCEPT ![p] = NextEvent(@)]
  /\ UNCHANGED <<mailbox, inbound, dropped>>

EventCommits(p) ==
  /\ polls[p].found = "new"
  /\ ~KeyIsStored(Head(polls[p].process))
  /\ inbound' = [inbound EXCEPT ![Head(polls[p].process)] = @ + 1]
  /\ polls' = [polls EXCEPT ![p] = NextEvent(@)]
  /\ UNCHANGED <<mailbox, dropped>>

PollEnds(p) ==
  /\ polls' = [polls EXCEPT ![p] = NoPoll]
  /\ dropped' = dropped \cup Range(polls[p].process)
  /\ UNCHANGED <<mailbox, inbound>>

\* The key was stored in the meantime: the exception leaves the loop, and the poll with it.
EventConflicts(p) ==
  /\ polls[p].found = "new"
  /\ KeyIsStored(Head(polls[p].process))
  /\ PollEnds(p)

\* The connection, a transaction or the worker is lost.
PollLost(p) == polls[p] # NoPoll /\ PollEnds(p)

InboundNext ==
  \/ \E m \in Mail : MailArrives(m)
  \/ \E p \in Poller :
       \/ PollSearches(p) \/ PollFetches(p) \/ FetchRefused(p)
       \/ EventLookup(p) \/ EventIsStored(p) \/ EventCommits(p)
       \/ EventConflicts(p) \/ PollLost(p)

InboundSpec == InboundInit /\ [][InboundNext]_ivars
-----------------------------------------------------------------------------
\* A message is lost only with the poll that held it: one that the server shows as seen is
\* stored, or in the hands of a poll, or was dropped by one that ended early; there is no
\* other way past it, although no later search finds it (sequence_adapters.py:71-76).  And
\* two polls that fetched the same message store one event for it, when it has a Message-ID
\* (serializers.py:44).
SeenIsHandled ==
  \A m \in Mail :
    /\ mailbox[m] = "seen" =>
         \/ inbound[m] > 0
         \/ \E p \in Poller : m \in Range(polls[p].process)
         \/ m \in dropped
    /\ m \notin Nameless => inbound[m] <= 1
=============================================================================
