----------------------------- MODULE NewsFeeds -----------------------------
(***************************************************************************)
(* Two services of c++20 that show a user the newest of what the sources   *)
(* she follows have published, each written twice.  "stocks":              *)
(* StockFeedManager.cpp merges the events of her stocks when she asks, and *)
(* StockFeedManager2.cpp keeps a feed for each user.  "tweets": the first  *)
(* class of Twitter.cpp throws the oldest out of a heap, the second        *)
(* merges.  The two classes of a service keep the same members, except for *)
(* the feeds that are kept, so one action is the call on both.  Users and  *)
(* sources are names; the event or tweet of timestamp i has the id i.      *)
(***************************************************************************)
EXTENDS Integers, Sequences, FiniteSetsExt, SequencesExt

CONSTANTS
    Names,      \* users, stocks, and users followed
    Newest,     \* how many tweets are kept and shown: 10
    MaxPosts,   \* bound: events in a behaviour
    MaxFeed     \* bound: length of a feed that is kept

VARIABLES
    design,     \* "stocks" or "tweets"
    timestamp,
    events,     \* events[s], the ids s has published: user_tweets, newest first
                \* there, oldest first in events
    follows,    \* user_stocks, user_follows
    userFeed,   \* user_feed of StockFeedManager2.cpp, front first
    source,     \* history: who published each id
    late        \* history: users who subscribed to a stock that had events

vars == <<design, timestamp, events, follows, userFeed, source, late>>

Init ==
    /\ design \in {"stocks", "tweets"}
    /\ timestamp = 0
    /\ events = [s \in Names |-> <<>>]
    /\ follows = [u \in Names |-> {}]
    /\ userFeed = [u \in Names |-> <<>>]
    /\ source = <<>>
    /\ late = {}

\* timestamp++
Publish(s) ==
    /\ timestamp < MaxPosts
    /\ timestamp' = timestamp + 1
    /\ source' = Append(source, s)
    /\ UNCHANGED <<design, follows, late>>

-----------------------------------------------------------------------------
(* StockFeedManager.cpp and StockFeedManager2.cpp                          *)

addEvent(s) ==
    /\ design = "stocks"
    /\ Publish(s)
    /\ events' = [events EXCEPT ![s] = Append(@, timestamp + 1)]
    /\ userFeed' = [u \in Names |-> IF s \in follows[u] THEN <<timestamp + 1>> \o userFeed[u]
                                    ELSE userFeed[u]]

\* In the feed that is kept the events so far go to the front, in front of newer
\* ones of other stocks, and once more if the stock was subscribed to already.
subscribe(u, s) ==
    /\ design = "stocks"
    /\ Len(userFeed[u]) + Len(events[s]) <= MaxFeed
    /\ follows' = [follows EXCEPT ![u] = @ \cup {s}]
    /\ userFeed' = [userFeed EXCEPT ![u] = Reverse(events[s]) \o @]
    /\ late' = IF events[s] # <<>> THEN late \cup {u} ELSE late
    /\ UNCHANGED <<design, timestamp, events, source>>

\* For a stock that is not followed it changes nothing and is no step.
unsubscribe(u, s) ==
    /\ design = "stocks"
    /\ s \in follows[u]
    /\ follows' = [follows EXCEPT ![u] = @ \ {s}]
    /\ userFeed' = [userFeed EXCEPT ![u] = SelectSeq(@, LAMBDA e : e \notin ToSet(events[s]))]
    /\ UNCHANGED <<design, timestamp, events, source, late>>

\* The loop over the priority queue: it holds the newest id not yet taken of
\* each source; the newest of them is taken, and the next of its source put in.
Merge(lists, n) ==
    LET step[k \in 0..n] ==
            IF k = 0 THEN [shown |-> <<>>, rest |-> lists]
            ELSE LET s == step[k - 1]
                     open == {r \in DOMAIN lists : s.rest[r] # <<>>}
                     top == CHOOSE r \in open : \A q \in open : s.rest[q][1] <= s.rest[r][1]
                 IN  IF open = {} THEN s
                     ELSE [shown |-> Append(s.shown, s.rest[top][1]),
                           rest |-> [s.rest EXCEPT ![top] = Tail(@)]]
    IN  step[n].shown

\* What StockFeedManager.cpp returns.
getUserFeed(u, n) == Merge([s \in follows[u] |-> Reverse(events[s])], n)

\* What StockFeedManager2.cpp returns.
PushedFeed(u, n) == SubSeq(userFeed[u], 1, Min({n, Len(userFeed[u])}))

-----------------------------------------------------------------------------
(* Twitter.cpp                                                             *)

\* Mutant: the newest tweet is dropped from a full list.
postTweetDropsNewest(s) ==
    /\ design = "tweets"
    /\ Publish(s)
    /\ events' = [events EXCEPT ![s] = IF Len(@) < Newest THEN <<timestamp + 1>> \o @ ELSE @]
    /\ UNCHANGED userFeed

postTweet(s) ==
    /\ design = "tweets"
    /\ Publish(s)
    /\ LET tweets == <<timestamp + 1>> \o events[s]
       IN  events' = [events EXCEPT ![s] = IF Len(tweets) > Newest THEN Front(tweets)
                                           ELSE tweets]
    /\ UNCHANGED userFeed

follow(u, s) ==
    /\ design = "tweets"
    /\ follows' = [follows EXCEPT ![u] = @ \cup {s}]
    /\ UNCHANGED <<design, timestamp, events, userFeed, source, late>>

unfollow(u, s) ==
    /\ design = "tweets"
    /\ u # s
    /\ follows' = [follows EXCEPT ![u] = @ \ {s}]
    /\ UNCHANGED <<design, timestamp, events, userFeed, source, late>>

\* getNewsFeed makes its user a follower of herself.
getNewsFeed(u) ==
    /\ design = "tweets"
    /\ follows' = [follows EXCEPT ![u] = @ \cup {u}]
    /\ UNCHANGED <<design, timestamp, events, userFeed, source, late>>

\* What the first class returns: the oldest leaves the heap when it is too large.
SmallestFeed(u) ==
    LET Emplace(t, heap) == IF Cardinality(heap) = Newest
                            THEN (heap \cup {t}) \ {Min(heap \cup {t})}
                            ELSE heap \cup {t}
        tweets == UNION {ToSet(events[s]) : s \in follows[u] \cup {u}}
    IN  SetToSortSeq(FoldSet(Emplace, {}, tweets), >)

\* What the second class returns.
LargestFeed(u) == Merge([s \in follows[u] \cup {u} |-> events[s]], Newest)

-----------------------------------------------------------------------------
Next ==
    \/ \E s \in Names : addEvent(s) \/ postTweet(s)
    \/ \E u, s \in Names : \/ subscribe(u, s) \/ unsubscribe(u, s)
                           \/ follow(u, s) \/ unfollow(u, s)
    \/ \E u \in Names : getNewsFeed(u)

Spec == Init /\ [][Next]_vars

-----------------------------------------------------------------------------
\* All that those whom u follows have published, and the newest n of it.
Published(sources) == {i \in 1..timestamp : source[i] \in sources}
NewestOf(ids, n) ==
    LET sorted == SetToSortSeq(ids, >) IN SubSeq(sorted, 1, Min({n, Len(sorted)}))

\* Whatever was posted, followed and left in whichever order, the two classes of
\* a service show the same.  Both Twitters show the newest tweets of the users
\* followed now, newest first, although each user's tweets are thrown away
\* beyond the number shown.  The feed that StockFeedManager2 keeps holds what
\* StockFeedManager merges when asked: nothing of a stock that was left, however
\* often it was subscribed to, and all events of a stock that is followed, its
\* newest in front, before any that are there a second time.  Between stocks
\* the orders agree only for users who subscribed to none that had events.
FeedsAgree ==
    \A u \in Names :
        /\ design = "tweets" =>
              /\ SmallestFeed(u) = LargestFeed(u)
              /\ LargestFeed(u) = NewestOf(Published(follows[u] \cup {u}), Newest)
        /\ design = "stocks" =>
              /\ \A s \in Names :
                    LET Of(feed) == SelectSeq(feed, LAMBDA i : source[i] = s)
                        asked == Of(getUserFeed(u, MaxPosts))
                    IN  IF s \in follows[u] THEN IsPrefix(asked, Of(userFeed[u]))
                        ELSE Of(userFeed[u]) = asked
              /\ ToSet(userFeed[u]) = ToSet(getUserFeed(u, MaxPosts))
              /\ u \notin late => \A n \in 0..MaxPosts : PushedFeed(u, n) = getUserFeed(u, n)
=============================================================================
