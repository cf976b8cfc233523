----------------------- MODULE ContextKitPluginProofs -----------------------
(***************************************************************************)
(* Proofs about ContextKitPlugin, for any keys, any number of requests and *)
(* any number of starts of the service.                                    *)
(***************************************************************************)
EXTENDS ContextKitPlugin, ProviderProofs, FiniteSetTheorems

-----------------------------------------------------------------------------
(* The plugin keeps the contract of provider.cpp:55-90: whatever it does,  *)
(* its Provider takes a step of module Provider, or none                   *)

LEMMA PluginReadyIsStep ==
  ASSUME PluginReady(provider) PROVE Next
BY PluginAssumption DEF Next

LEMMA PluginFailedIsStep ==
  ASSUME OnPluginFailed(provider) PROVE Next
BY PluginAssumption DEF Next

LEMMA AnswerIsStep ==
  ASSUME NEW k \in Keys,
         OnPluginSubscribeFinished(provider, k) \/ OnPluginSubscribeFailed(provider, k)
  PROVE  Next
BY PluginAssumption DEF Next

LEMMA AppearedIsStep ==
  ASSUME NEW present, OnProviderAppeared(present) PROVE [Next]_providerVars
BY PluginReadyIsStep DEF OnProviderAppeared, ReadyUnlessGone

\* Messages on the wire.
Calls    == [call : {SubscribeCall, UnsubscribeCall}, key : Keys]
Replies  == [reply : Keys, ok : BOOLEAN]
Arrivals == Replies \cup {NameAppeared, NameGone}

WireTypes ==
  /\ calls \in Seq(Calls)
  /\ arrived \in Seq(Arrivals)
  /\ pendingKeys \subseteq Keys
  /\ pendingWatchers \subseteq Keys

WireInv == WireTypes /\ WatchersAwaitReplies

LEMMA NoticesAreNoReplies ==
  /\ NameAppeared # NameGone
  /\ \A r \in Replies : r # NameAppeared /\ r # NameGone
  /\ "reply" \notin DOMAIN NameAppeared /\ "reply" \notin DOMAIN NameGone
<1>1. DOMAIN NameAppeared = {"name"} /\ DOMAIN NameGone = {"name"}
  BY DEF NameAppeared, NameGone
<1>2. \A r \in Replies : DOMAIN r = {"reply", "ok"}
  BY DEF Replies
<1>3. NameAppeared.name = TRUE /\ NameGone.name = FALSE
  BY DEF NameAppeared, NameGone
<1> QED
  BY <1>1, <1>2, <1>3

LEMMA RepliesAreReplies ==
  ASSUME NEW r \in Arrivals, "reply" \in DOMAIN r
  PROVE  r \in Replies
BY NoticesAreNoReplies DEF Arrivals

LEMMA OnFinishedIsStep ==
  ASSUME NEW r \in Replies, OnFinished(r)
  PROVE  Next /\ pendingWatchers' = pendingWatchers \ {r.reply}
<1>1. r.reply \in Keys
  BY DEF Replies
<1>2. OnPluginSubscribeFinished(provider, r.reply) \/ OnPluginSubscribeFailed(provider, r.reply)
  BY DEF OnFinished, Finishes, Fails
<1>3. pendingWatchers' = pendingWatchers \ {r.reply}
  BY DEF OnFinished, WatcherRemoved
<1> QED
  BY <1>1, <1>2, <1>3, AnswerIsStep

LEMMA ProviderStep ==
  ASSUME WireTypes, [WholeNext]_wholeVars
  PROVE  [Next]_providerVars
<1>1. ASSUME NEW k \in Keys, AnySubscribes(k) \/ AnyUnsubscribes(k) \/ AnyBlocks(k)
      PROVE  [Next]_providerVars
  <2>1. CASE AnySubscribes(k)
    BY <2>1, PluginAssumption DEF AnySubscribes, Next
  <2>2. CASE AnyUnsubscribes(k)
    BY <2>2, PluginAssumption DEF AnyUnsubscribes, Next
  <2>3. CASE AnyBlocks(k)
    BY <2>3, PluginAssumption DEF AnyBlocks, Next
  <2> QED
    BY <1>1, <2>1, <2>2, <2>3
<1>2. ASSUME DispatchProviderCall PROVE [Next]_providerVars
  BY <1>2, PluginAssumption DEF DispatchProviderCall, Next
<1>3. ASSUME DispatchNewSubscribe PROVE [Next]_providerVars
  BY <1>3 DEF DispatchNewSubscribe
<1>4. ASSUME DispatchAppeared PROVE [Next]_providerVars
  BY <1>4, AppearedIsStep DEF DispatchAppeared
<1>5. ASSUME ConstructContextKitPlugin PROVE [Next]_providerVars
  BY <1>5, PluginAssumption DEF ConstructContextKitPlugin, Next
<1>6. ASSUME PluginHandlesSubscribes PROVE [Next]_providerVars
  BY <1>6, PluginAssumption DEF PluginHandlesSubscribes, Next
<1>7. ASSUME SetServicePresent PROVE [Next]_providerVars
  BY <1>7, AppearedIsStep DEF SetServicePresent
<1>8. ASSUME SetServiceGone PROVE [Next]_providerVars
  BY <1>8, PluginFailedIsStep DEF SetServiceGone, OnProviderDisappeared
<1>9. ASSUME DispatchReply PROVE [Next]_providerVars
  <2>1. PICK r : r = Head(arrived)
    OBVIOUS
  <2>2. r \in Arrivals /\ "reply" \in DOMAIN r /\ OnFinished(r)
    BY <1>9, <2>1 DEF DispatchReply, WireTypes
  <2> QED
    BY <2>2, RepliesAreReplies, OnFinishedIsStep
<1>10. ASSUME NEW k \in Keys, BlockUntilReady(k) PROVE [Next]_providerVars
  BY <1>10, AppearedIsStep DEF BlockUntilReady
<1>11. ASSUME NEW k \in Keys, BlockForCalls(k) PROVE [Next]_providerVars
  BY <1>11 DEF BlockForCalls
<1>12. ASSUME NEW k \in Keys, BlockForReply(k) PROVE [Next]_providerVars
  <2>1. PICK i \in DOMAIN arrived : /\ arrived[i] \in {Reply(k, TRUE), Reply(k, FALSE)}
                                    /\ OnFinished(arrived[i])
    BY <1>12 DEF BlockForReply
  <2>2. PICK r : r = arrived[i]
    OBVIOUS
  <2>3. r \in Replies
    <3>1. Reply(k, TRUE) \in Replies /\ Reply(k, FALSE) \in Replies
      BY DEF Reply, Replies
    <3> QED
      BY <2>1, <2>2, <3>1
  <2>4. OnFinished(r)
    BY <2>1, <2>2
  <2> QED
    BY <2>3, <2>4, OnFinishedIsStep
<1>13. ASSUME ServiceAnswers \/ BusAnswers \/ ServiceStarts \/ ServiceStops
       PROVE  [Next]_providerVars
  BY <1>13 DEF ServiceAnswers, BusAnswers, ServiceStarts, ServiceStops
<1>14. ASSUME UNCHANGED wholeVars PROVE [Next]_providerVars
  BY <1>14 DEF wholeVars
<1>15. ASSUME NEW k \in Keys, ProviderStoresValue(k) PROVE [Next]_providerVars
  BY <1>15, PluginAssumption DEF ProviderStoresValue, Next
<1> QED
  BY <1>1, <1>2, <1>3, <1>4, <1>5, <1>6, <1>7, <1>8, <1>9, <1>10, <1>11, <1>12, <1>13, <1>14,
     <1>15 DEF WholeNext

-----------------------------------------------------------------------------
(* Sequences of messages                                                   *)

LEMMA ContainsAppended ==
  ASSUME NEW S, NEW s \in Seq(S), NEW x \in S, NEW e, Contains(s, e) \/ e = x
  PROVE  Contains(Append(s, x), e)
<1>1. /\ Len(Append(s, x)) = Len(s) + 1 /\ Len(s) \in Nat
      /\ Append(s, x)[Len(s) + 1] = x
      /\ \A i \in 1 .. Len(s) : Append(s, x)[i] = s[i]
  OBVIOUS
<1>2. \A i \in 1 .. Len(s) + 1 : Append(s, x)[i] = e => Contains(Append(s, x), e)
  BY <1>1 DEF Contains
<1>3. CASE Contains(s, e)
  <2>1. PICK i \in 1 .. Len(s) : s[i] = e
    BY <1>3 DEF Contains
  <2> QED
    BY <1>1, <1>2, <2>1
<1>4. CASE e = x
  BY <1>1, <1>2, <1>4
<1> QED
  BY <1>3, <1>4

LEMMA ContainsLater ==
  ASSUME NEW S, NEW s \in Seq(S), s # <<>>, NEW e, Contains(s, e), e # Head(s)
  PROVE  Contains(Tail(s), e)
<1>1. /\ Len(Tail(s)) = Len(s) - 1 /\ Len(s) \in Nat /\ Head(s) = s[1]
      /\ \A i \in 1 .. Len(Tail(s)) : Tail(s)[i] = s[i + 1]
  BY HeadTailProperties
<1>2. PICK i \in 1 .. Len(s) : s[i] = e
  BY DEF Contains
<1>3. i - 1 \in 1 .. Len(Tail(s)) /\ Tail(s)[i - 1] = s[i]
  BY <1>1, <1>2
<1> QED
  BY <1>2, <1>3 DEF Contains

LEMMA ContainsOneOf ==
  ASSUME NEW S, NEW s \in Seq(S), NEW t \in Seq(S), NEW e, Contains(s, e) \/ Contains(t, e)
  PROVE  Contains(s \o t, e)
<1>1. /\ Len(s \o t) = Len(s) + Len(t) /\ Len(s) \in Nat /\ Len(t) \in Nat
      /\ \A i \in 1 .. Len(s) + Len(t) :
           (s \o t)[i] = IF i <= Len(s) THEN s[i] ELSE t[i - Len(s)]
  BY ConcatProperties
<1>2. \A i \in 1 .. Len(s) + Len(t) : (s \o t)[i] = e => Contains(s \o t, e)
  BY <1>1 DEF Contains
<1>3. CASE Contains(s, e)
  <2>1. PICK i \in 1 .. Len(s) : s[i] = e
    BY <1>3 DEF Contains
  <2> QED
    BY <1>1, <1>2, <2>1
<1>4. CASE Contains(t, e)
  <2>1. PICK i \in 1 .. Len(t) : t[i] = e
    BY <1>4 DEF Contains
  <2>2. i + Len(s) \in 1 .. Len(s) + Len(t) /\ (s \o t)[i + Len(s)] = t[i]
    BY <1>1
  <2> QED
    BY <1>2, <2>1, <2>2
<1> QED
  BY <1>3, <1>4

LEMMA RemoveAtElements ==
  ASSUME NEW S, NEW s \in Seq(S), NEW i \in 1 .. Len(s)
  PROVE  /\ RemoveAt(s, i) \in Seq(S) /\ Len(s) \in Nat
         /\ DOMAIN s = 1 .. Len(s) /\ DOMAIN RemoveAt(s, i) = 1 .. Len(s) - 1
         /\ \A j \in 1 .. Len(s) - 1 : RemoveAt(s, i)[j] = IF j < i THEN s[j] ELSE s[j + 1]
<1>0. Len(s) \in Nat /\ i \in Nat /\ i <= Len(s)
  OBVIOUS
<1>1. Len(s) \in Nat /\ i \in Nat /\ \A j \in 1 .. Len(s) : s[j] \in S
  OBVIOUS
<1> DEFINE a == SubSeq(s, 1, i - 1)
           b == SubSeq(s, i + 1, Len(s))
<1>2. a \in Seq(S) /\ Len(a) = i - 1 /\ \A j \in 1 .. i - 1 : a[j] = s[j]
  <2>1. i - 1 \in Int /\ \A j \in 1 .. i - 1 : s[j] \in S
    BY <1>1
  <2>2. /\ a \in Seq(S)
        /\ Len(a) = IF 1 <= i - 1 THEN (i - 1) - 1 + 1 ELSE 0
        /\ \A j \in 1 .. (i - 1) - 1 + 1 : a[j] = s[1 + j - 1]
    BY <2>1, SubSeqProperties
  <2> QED
    BY <1>1, <2>2
<1>3. /\ b \in Seq(S) /\ Len(b) = Len(s) - i
      /\ \A j \in 1 .. Len(s) - i : b[j] = s[j + i]
  <2>1. i + 1 \in Int /\ Len(s) \in Int /\ \A j \in i + 1 .. Len(s) : s[j] \in S
    BY <1>1
  <2>2. /\ b \in Seq(S)
        /\ Len(b) = IF i + 1 <= Len(s) THEN Len(s) - (i + 1) + 1 ELSE 0
        /\ \A j \in 1 .. Len(s) - (i + 1) + 1 : b[j] = s[(i + 1) + j - 1]
    BY <2>1, SubSeqProperties
  <2> QED
    BY <1>1, <2>2
<1> HIDE DEF a, b
<1>4. /\ a \o b \in Seq(S) /\ Len(a \o b) = Len(a) + Len(b)
      /\ \A j \in 1 .. Len(a) + Len(b) :
           (a \o b)[j] = IF j <= Len(a) THEN a[j] ELSE b[j - Len(a)]
  BY <1>2, <1>3, ConcatProperties
<1>5. \A j \in 1 .. Len(s) - 1 : (a \o b)[j] = IF j < i THEN s[j] ELSE s[j + 1]
  <2> TAKE j \in 1 .. Len(s) - 1
  <2>1. (a \o b)[j] = IF j <= i - 1 THEN a[j] ELSE b[j - (i - 1)]
    BY <1>1, <1>2, <1>3, <1>4
  <2>2. CASE j < i
    BY <1>1, <1>2, <2>1, <2>2
  <2>3. CASE j >= i
    <3>1. j - (i - 1) \in 1 .. Len(s) - i /\ (j - (i - 1)) + i = j + 1
      BY <1>1, <2>3
    <3>2. b[j - (i - 1)] = s[j + 1]
      BY <1>3, <3>1
    <3> QED
      BY <1>1, <2>1, <2>3, <3>2
  <2>4. j \in Int /\ (j < i \/ j >= i)
    BY <1>0
  <2> QED
    BY <2>2, <2>3, <2>4
<1>6. DOMAIN (a \o b) = 1 .. Len(s) - 1
  <2>1. Len(a \o b) = Len(s) - 1
    BY <1>1, <1>2, <1>3, <1>4
  <2> QED
    BY <1>4, <2>1, LenProperties
<1>7. RemoveAt(s, i) = a \o b
  BY DEF RemoveAt, a, b
<1> QED
  BY <1>0, <1>4, <1>5, <1>6, <1>7, LenProperties

LEMMA ContainsElsewhere ==
  ASSUME NEW S, NEW s \in Seq(S), NEW i \in 1 .. Len(s), NEW e, Contains(s, e), e # s[i]
  PROVE  RemoveAt(s, i) \in Seq(S) /\ Contains(RemoveAt(s, i), e)
<1>1. PICK j \in 1 .. Len(s) : s[j] = e
  BY DEF Contains
<1>2. CASE j < i
  <2>0. Len(s) \in Nat /\ j \in 1 .. Len(s) - 1
    BY <1>2, RemoveAtElements
  <2>1. RemoveAt(s, i)[j] = e
    BY <1>1, <1>2, <2>0, RemoveAtElements
  <2> QED
    BY <2>0, <2>1, RemoveAtElements DEF Contains
<1>3. CASE j > i
  <2>1. j - 1 \in 1 .. Len(s) - 1 /\ RemoveAt(s, i)[j - 1] = e
    BY <1>1, <1>3, RemoveAtElements
  <2> QED
    BY <2>1, RemoveAtElements DEF Contains
<1> QED
  BY <1>1, <1>2, <1>3

\* Calls for every key of a set, in some order.
LEMMA CallsForAll ==
  ASSUME NEW m \in {SubscribeCall, UnsubscribeCall}, NEW ks \in SUBSET Keys,
         NEW order \in SetToSeqs(ks)
  PROVE  LET out == [i \in DOMAIN order |-> Call(m, order[i])]
         IN  out \in Seq(Calls) /\ \A k \in ks : Contains(out, Call(m, k))
<1> DEFINE n == Cardinality(ks)
           out == [i \in DOMAIN order |-> Call(m, order[i])]
<1>1. IsFiniteSet(ks) /\ n \in Nat
  BY PluginAssumption, FS_Subset, FS_CardinalityType
<1>2. order \in [1 .. n -> ks] /\ \A i, j \in 1 .. n : i # j => order[i] # order[j]
  BY DEF SetToSeqs
<1>3. order \in Surjection(1 .. n, ks)
  <2>1. order \in Injection(1 .. n, ks)
    BY <1>2 DEF Injection, IsInjective
  <2>2. Cardinality(1 .. n) = n
    BY <1>1, FS_Interval
  <2> HIDE DEF n
  <2> QED
    BY <1>1, <2>1, <2>2, FS_Injection DEF n
<1>4. \A i \in 1 .. n : Call(m, order[i]) \in Calls
  BY <1>2 DEF Call, Calls
<1>5. out = [i \in 1 .. n |-> Call(m, order[i])]
  BY <1>2
<1>6. out \in Seq(Calls) /\ Len(out) = n
  BY <1>1, <1>4, <1>5
<1>7. ASSUME NEW k \in ks PROVE Contains(out, Call(m, k))
  <2>1. PICK i \in 1 .. n : order[i] = k
    BY <1>3 DEF Surjection
  <2> QED
    BY <1>5, <1>6, <2>1 DEF Contains
<1> QED
  BY <1>6, <1>7

-----------------------------------------------------------------------------
(* More about sequences of messages                                        *)

\* Every x in the sequence has a later y.
After(s, x, y) == \A i \in DOMAIN s : s[i] = x => \E j \in DOMAIN s : j > i /\ s[j] = y

LEMMA TailElements ==
  ASSUME NEW S, NEW s \in Seq(S), s # <<>>
  PROVE  /\ Tail(s) \in Seq(S) /\ Head(s) \in S /\ Head(s) = s[1]
         /\ Len(s) \in Nat /\ Len(s) > 0 /\ DOMAIN s = 1 .. Len(s)
         /\ Len(Tail(s)) = Len(s) - 1 /\ DOMAIN Tail(s) = 1 .. Len(s) - 1
         /\ \A i \in 1 .. Len(s) - 1 : Tail(s)[i] = s[i + 1]
BY HeadTailProperties

LEMMA AppendElements ==
  ASSUME NEW S, NEW s \in Seq(S), NEW e \in S
  PROVE  /\ Append(s, e) \in Seq(S) /\ Len(s) \in Nat
         /\ DOMAIN s = 1 .. Len(s) /\ DOMAIN Append(s, e) = 1 .. Len(s) + 1
         /\ Append(s, e)[Len(s) + 1] = e
         /\ \A i \in 1 .. Len(s) : Append(s, e)[i] = s[i]
BY AppendProperties

LEMMA AfterLater ==
  ASSUME NEW S, NEW s \in Seq(S), s # <<>>, NEW x, NEW y, After(s, x, y)
  PROVE  After(Tail(s), x, y) /\ (Head(s) = x => Contains(Tail(s), y))
<1>1. ASSUME NEW i \in 1 .. Len(s), s[i] = x PROVE \E j \in 1 .. Len(s) : j > i /\ s[j] = y
  BY <1>1, TailElements DEF After
<1>2. ASSUME NEW i \in 1 .. Len(s) - 1, Tail(s)[i] = x
      PROVE  \E j \in 1 .. Len(s) - 1 : j > i /\ Tail(s)[j] = y
  <2>1. i + 1 \in 1 .. Len(s) /\ s[i + 1] = x
    BY <1>2, TailElements
  <2>2. PICK j \in 1 .. Len(s) : j > i + 1 /\ s[j] = y
    BY <1>1, <2>1
  <2>3. j - 1 \in 1 .. Len(s) - 1 /\ j - 1 > i /\ Tail(s)[j - 1] = y
    BY <2>2, TailElements
  <2> QED
    BY <2>3
<1>3. ASSUME Head(s) = x PROVE Contains(Tail(s), y)
  <2>1. PICK j \in 1 .. Len(s) : j > 1 /\ s[j] = y
    BY <1>1, <1>3, TailElements
  <2>2. j - 1 \in 1 .. Len(s) - 1 /\ Tail(s)[j - 1] = y
    BY <2>1, TailElements
  <2> QED
    BY <2>2, TailElements DEF Contains
<1> QED
  BY <1>2, <1>3, TailElements DEF After

LEMMA AfterAppended ==
  ASSUME NEW S, NEW s \in Seq(S), NEW e \in S, NEW x, NEW y, x # e,
         After(s, x, y) \/ y = e
  PROVE  After(Append(s, e), x, y)
<1>1. ASSUME NEW i \in 1 .. Len(s) + 1, Append(s, e)[i] = x
      PROVE  \E j \in 1 .. Len(s) + 1 : j > i /\ Append(s, e)[j] = y
  <2>1. i \in 1 .. Len(s) /\ s[i] = x
    BY <1>1, AppendElements
  <2>2. CASE y = e
    BY <2>1, <2>2, AppendElements
  <2>3. CASE After(s, x, y)
    <3>1. PICK j \in 1 .. Len(s) : j > i /\ s[j] = y
      BY <2>1, <2>3, AppendElements DEF After
    <3> QED
      BY <3>1, AppendElements
  <2> QED
    BY <2>2, <2>3
<1> QED
  BY <1>1, AppendElements DEF After

LEMMA AfterElsewhere ==
  ASSUME NEW S, NEW s \in Seq(S), NEW i \in 1 .. Len(s), NEW x, NEW y, After(s, x, y), s[i] # y
  PROVE  After(RemoveAt(s, i), x, y)
<1> DEFINE r == RemoveAt(s, i)
<1>0. /\ Len(s) \in Nat /\ DOMAIN s = 1 .. Len(s) /\ DOMAIN r = 1 .. Len(s) - 1
      /\ \A j \in 1 .. Len(s) - 1 : r[j] = IF j < i THEN s[j] ELSE s[j + 1]
  BY RemoveAtElements
<1> HIDE DEF r
<1>1. ASSUME NEW j \in 1 .. Len(s) - 1, r[j] = x
      PROVE  \E l \in 1 .. Len(s) - 1 : l > j /\ r[l] = y
  <2>1. PICK j0 \in 1 .. Len(s) : s[j0] = x /\ j0 = IF j < i THEN j ELSE j + 1
    BY <1>0, <1>1
  <2>2. PICK l \in 1 .. Len(s) : l > j0 /\ s[l] = y
    BY <1>0, <2>1 DEF After
  <2>3. CASE l < i
    BY <1>0, <2>1, <2>2, <2>3
  <2>4. CASE l > i
    <3>1. l - 1 \in 1 .. Len(s) - 1 /\ l - 1 > j /\ r[l - 1] = y
      BY <1>0, <2>1, <2>2, <2>4
    <3> QED
      BY <3>1
  <2> QED
    BY <2>2, <2>3, <2>4
<1> QED
  BY <1>0, <1>1 DEF After, r

LEMMA AfterConcatenated ==
  ASSUME NEW S, NEW s \in Seq(S), NEW t \in Seq(S), NEW x, NEW y,
         After(s, x, y) \/ Contains(t, y), ~Contains(t, x)
  PROVE  After(s \o t, x, y)
<1>1. /\ Len(s) \in Nat /\ Len(t) \in Nat /\ DOMAIN s = 1 .. Len(s) /\ DOMAIN t = 1 .. Len(t)
      /\ DOMAIN (s \o t) = 1 .. Len(s) + Len(t)
      /\ \A i \in 1 .. Len(s) + Len(t) :
           (s \o t)[i] = IF i <= Len(s) THEN s[i] ELSE t[i - Len(s)]
  BY ConcatProperties
<1>2. ASSUME NEW i \in 1 .. Len(s) + Len(t), (s \o t)[i] = x
      PROVE  \E j \in 1 .. Len(s) + Len(t) : j > i /\ (s \o t)[j] = y
  <2>1. i \in 1 .. Len(s) /\ s[i] = x
    <3>1. CASE i > Len(s)
      <4>1. i - Len(s) \in 1 .. Len(t) /\ t[i - Len(s)] = x
        BY <1>1, <1>2, <3>1
      <4> QED
        BY <4>1 DEF Contains
    <3> QED
      BY <1>1, <1>2, <3>1
  <2>2. CASE After(s, x, y)
    <3>1. PICK j \in 1 .. Len(s) : j > i /\ s[j] = y
      BY <1>1, <2>1, <2>2 DEF After
    <3> QED
      BY <1>1, <3>1
  <2>3. CASE Contains(t, y)
    <3>1. PICK j \in 1 .. Len(t) : t[j] = y
      BY <2>3 DEF Contains
    <3>2. j + Len(s) \in 1 .. Len(s) + Len(t) /\ j + Len(s) > i /\ (s \o t)[j + Len(s)] = y
      BY <1>1, <2>1, <3>1
    <3> QED
      BY <3>2
  <2> QED
    BY <2>2, <2>3
<1> QED
  BY <1>1, <1>2 DEF After

\* Nothing appears in what is left of a sequence.
LEMMA ContainsBefore ==
  ASSUME NEW S, NEW s \in Seq(S), NEW e
  PROVE  /\ s # <<>> /\ Contains(Tail(s), e) => Contains(s, e)
         /\ \A i \in 1 .. Len(s) : Contains(RemoveAt(s, i), e) => Contains(s, e)
<1>1. ASSUME s # <<>>, Contains(Tail(s), e) PROVE Contains(s, e)
  <2>1. PICK i \in 1 .. Len(s) - 1 : Tail(s)[i] = e
    BY <1>1, TailElements DEF Contains
  <2>2. i + 1 \in 1 .. Len(s) /\ s[i + 1] = e
    BY <1>1, <2>1, TailElements
  <2> QED
    BY <2>2 DEF Contains
<1>2. ASSUME NEW i \in 1 .. Len(s), Contains(RemoveAt(s, i), e) PROVE Contains(s, e)
  <2>1. PICK j \in DOMAIN RemoveAt(s, i) : RemoveAt(s, i)[j] = e
    BY <1>2, RemoveAtElements DEF Contains
  <2>2. \E l \in 1 .. Len(s) : s[l] = e
    BY <2>1, RemoveAtElements
  <2> QED
    BY <2>2 DEF Contains
<1> QED
  BY <1>1, <1>2

-----------------------------------------------------------------------------
(* The wire                                                                *)

Answered(k) == Contains(arrived, Reply(k, TRUE)) \/ Contains(arrived, Reply(k, FALSE))

LEMMA RepliesDiffer ==
  ASSUME NEW k \in Keys
  PROVE  /\ Reply(k, TRUE) \in Replies /\ Reply(k, FALSE) \in Replies
         /\ Reply(k, TRUE).reply = k /\ Reply(k, FALSE).reply = k
         /\ Call(SubscribeCall, k) \in Calls /\ Call(UnsubscribeCall, k) \in Calls
         /\ Call(SubscribeCall, k).key = k /\ Call(SubscribeCall, k).call = SubscribeCall
BY DEF Reply, Replies, Call, Calls

\* A message that is no reply to a key with a watcher may go or come.
LEMMA WireUntouched ==
  ASSUME WireInv, UNCHANGED <<calls, arrived, pendingKeys, pendingWatchers>>
  PROVE  WireInv'
BY DEF WireInv, WireTypes, WatchersAwaitReplies

\* Calls that go out, for which a watcher is created if they are Subscribe.
LEMMA WireCalls ==
  ASSUME WireInv, NEW m \in {SubscribeCall, UnsubscribeCall}, NEW ks \in SUBSET Keys,
         NEW order \in SetToSeqs(ks), UNCHANGED arrived,
         calls' = calls \o [i \in DOMAIN order |-> Call(m, order[i])],
         pendingKeys' \subseteq Keys,
         \/ m = SubscribeCall /\ pendingWatchers' = pendingWatchers \cup ks
         \/ UNCHANGED pendingWatchers
  PROVE  WireInv'
<1>1. PICK out : out = [i \in DOMAIN order |-> Call(m, order[i])]
  OBVIOUS
<1>2. out \in Seq(Calls) /\ \A k \in ks : Contains(out, Call(m, k))
  BY <1>1, CallsForAll
<1>3. calls \in Seq(Calls) /\ calls' = calls \o out
  BY <1>1 DEF WireInv, WireTypes
<1>4. calls' \in Seq(Calls)
  BY <1>2, <1>3, ConcatProperties
<1>5. WireTypes'
  BY <1>4 DEF WireInv, WireTypes
<1>7. \A e : Contains(calls, e) \/ Contains(out, e) => Contains(calls', e)
  <2>1. \A e : Contains(calls, e) \/ Contains(out, e) => Contains(calls \o out, e)
    BY <1>2, <1>3, ContainsOneOf
  <2> QED
    BY <1>3, <2>1
<1>6. ASSUME NEW k \in pendingWatchers'
      PROVE  Contains(calls', Call(SubscribeCall, k)) \/ Answered(k)
  <2>1. CASE k \in pendingWatchers
    <3>1. Contains(calls, Call(SubscribeCall, k)) \/ Answered(k)
      BY <2>1 DEF WireInv, WatchersAwaitReplies, Answered
    <3> QED
      BY <1>2, <1>7, <3>1
  <2>2. CASE k \notin pendingWatchers
    <3>1. m = SubscribeCall /\ k \in ks
      BY <1>6, <2>2
    <3> QED
      BY <1>2, <1>7, <3>1
  <2> QED
    BY <2>1, <2>2
<1> QED
  BY <1>5, <1>6 DEF WireInv, WatchersAwaitReplies, Answered

LEMMA NewSubscribeKeeps ==
  ASSUME WireInv, NEW ks \in SUBSET Keys, NewSubscribe(ks), UNCHANGED arrived
  PROVE  WireInv'
<1>1. pendingKeys' \subseteq Keys /\ pendingWatchers' = pendingWatchers \cup ks
  BY DEF WireInv, WireTypes, NewSubscribe, NoLongerPending
<1>2. PICK order \in SetToSeqs(ks) :
        calls' = calls \o [i \in DOMAIN order |-> Call(SubscribeCall, order[i])]
  BY DEF NewSubscribe
<1> QED
  BY <1>1, <1>2, WireCalls

\* An answer that is not the one waited for, or whose watcher is removed, goes.
LEMMA AnswerGoes ==
  ASSUME WireInv, UNCHANGED <<calls, pendingKeys>>, pendingWatchers' \subseteq pendingWatchers,
         arrived' \in Seq(Arrivals),
         \A k \in pendingWatchers' : Answered(k) => Answered(k)'
  PROVE  WireInv'
<1>1. WireTypes'
  BY DEF WireInv, WireTypes
<1>2. WatchersAwaitReplies'
  BY DEF WireInv, WatchersAwaitReplies, Answered
<1> QED
  BY <1>1, <1>2 DEF WireInv

LEMMA NoticeTaken ==
  ASSUME WireInv, arrived # <<>>, Head(arrived) \in {NameAppeared, NameGone},
         arrived' = Tail(arrived), UNCHANGED <<calls, pendingKeys, pendingWatchers>>
  PROVE  WireInv'
<1>1. arrived \in Seq(Arrivals) /\ arrived' \in Seq(Arrivals)
  BY HeadTailProperties DEF WireInv, WireTypes
<1>2. ASSUME NEW k \in pendingWatchers', Answered(k) PROVE Answered(k)'
  <2>1. k \in Keys
    BY <1>2 DEF WireInv, WireTypes
  <2>2. Reply(k, TRUE) # Head(arrived) /\ Reply(k, FALSE) # Head(arrived)
    BY <2>1, RepliesDiffer, NoticesAreNoReplies
  <2> QED
    BY <1>1, <1>2, <2>2, ContainsLater DEF Answered
<1> QED
  BY <1>1, <1>2, AnswerGoes

LEMMA ReplyDispatched ==
  ASSUME WireInv, DispatchReply
  PROVE  WireInv'
<1>1. /\ arrived \in Seq(Arrivals) /\ arrived # <<>> /\ arrived' = Tail(arrived)
      /\ arrived' \in Seq(Arrivals) /\ Head(arrived) \in Arrivals
      /\ UNCHANGED <<calls, pendingKeys>>
  BY HeadTailProperties DEF WireInv, WireTypes, DispatchReply
<1>2. PICK r : r = Head(arrived)
  OBVIOUS
<1>3. r \in Replies /\ pendingWatchers' = pendingWatchers \ {r.reply}
  <2>1. "reply" \in DOMAIN r /\ OnFinished(r)
    BY <1>2 DEF DispatchReply
  <2> QED
    BY <1>1, <1>2, <2>1, RepliesAreReplies, OnFinishedIsStep
<1>4. ASSUME NEW k \in pendingWatchers', Answered(k) PROVE Answered(k)'
  <2>1. k \in Keys /\ k # r.reply
    BY <1>3, <1>4 DEF WireInv, WireTypes
  <2>2. Reply(k, TRUE) # Head(arrived) /\ Reply(k, FALSE) # Head(arrived)
    BY <1>2, <2>1, RepliesDiffer
  <2> QED
    BY <1>1, <1>4, <2>2, ContainsLater DEF Answered
<1> QED
  BY <1>1, <1>3, <1>4, AnswerGoes

LEMMA BlockedReplyTaken ==
  ASSUME WireInv, NEW k \in Keys, BlockForReply(k)
  PROVE  WireInv'
<1>1. PICK i \in DOMAIN arrived : /\ arrived[i] \in {Reply(k, TRUE), Reply(k, FALSE)}
                                  /\ OnFinished(arrived[i])
                                  /\ arrived' = RemoveAt(arrived, i)
  BY DEF BlockForReply
<1>2. arrived \in Seq(Arrivals) /\ i \in 1 .. Len(arrived) /\ UNCHANGED <<calls, pendingKeys>>
  BY DEF WireInv, WireTypes, BlockForReply
<1>3. PICK r : r = arrived[i]
  OBVIOUS
<1>4. r \in Replies /\ r.reply = k
  BY <1>1, <1>3, RepliesDiffer
<1>5. pendingWatchers' = pendingWatchers \ {k}
  <2>1. OnFinished(r)
    BY <1>1, <1>3
  <2> QED
    BY <1>4, <2>1, OnFinishedIsStep
<1>6. arrived' \in Seq(Arrivals)
  <2>1. Contains(arrived, arrived[i])
    BY <1>2 DEF Contains
  <2>2. \A j \in 1 .. Len(arrived) : arrived[j] \in Arrivals
    BY <1>2
  <2>3. /\ \A j \in 1 .. i - 1 : arrived[j] \in Arrivals
        /\ \A j \in i + 1 .. Len(arrived) : arrived[j] \in Arrivals
        /\ i - 1 \in Int /\ i + 1 \in Int /\ Len(arrived) \in Int
    BY <1>2, <2>2
  <2>4. SubSeq(arrived, 1, i - 1) \in Seq(Arrivals) /\ SubSeq(arrived, i + 1, Len(arrived)) \in Seq(Arrivals)
    BY <2>3, SubSeqProperties
  <2> QED
    BY <1>1, <2>4, ConcatProperties DEF RemoveAt
<1>7. ASSUME NEW j \in pendingWatchers', Answered(j) PROVE Answered(j)'
  <2>1. j \in Keys /\ j # k
    BY <1>5, <1>7 DEF WireInv, WireTypes
  <2>2. Reply(j, TRUE) # arrived[i] /\ Reply(j, FALSE) # arrived[i]
    BY <1>3, <1>4, <2>1, RepliesDiffer
  <2>3. \A e : Contains(arrived, e) /\ e # arrived[i] => Contains(RemoveAt(arrived, i), e)
    BY <1>2, ContainsElsewhere
  <2> QED
    BY <1>1, <1>7, <2>2, <2>3 DEF Answered
<1> QED
  BY <1>2, <1>5, <1>6, <1>7, AnswerGoes

\* The service or the bus takes a call; Subscribe gets an answer.
LEMMA CallAnswered ==
  ASSUME WireInv, ServiceAnswers \/ BusAnswers
  PROVE  WireInv'
<1>1. /\ calls \in Seq(Calls) /\ calls # <<>> /\ calls' = Tail(calls) /\ calls' \in Seq(Calls)
      /\ Head(calls) \in Calls
      /\ arrived \in Seq(Arrivals) /\ UNCHANGED <<pendingKeys, pendingWatchers>>
  BY HeadTailProperties DEF WireInv, WireTypes, ServiceAnswers, BusAnswers, listenerVars
<1>2. PICK h \in Calls : h = Head(calls)
  BY <1>1
<1>3. h.key \in Keys
  BY DEF Calls
<1>4. \/ \E ok \in BOOLEAN : arrived' = Append(arrived, Reply(h.key, ok))
      \/ h.call # SubscribeCall /\ arrived' = arrived
  BY <1>2 DEF ServiceAnswers, BusAnswers
<1>5. arrived' \in Seq(Arrivals)
  <2>1. \A ok \in BOOLEAN : Reply(h.key, ok) \in Arrivals
    BY <1>3 DEF Reply, Replies, Arrivals
  <2> QED
    BY <1>1, <1>4, <2>1, AppendProperties
<1>6. \A e : Contains(arrived, e) => Contains(arrived', e)
  <2>1. \A ok \in BOOLEAN : Reply(h.key, ok) \in Arrivals
    BY <1>3 DEF Reply, Replies, Arrivals
  <2> QED
    BY <1>1, <1>4, <2>1, ContainsAppended
<1>7. ASSUME NEW k \in pendingWatchers
      PROVE  Contains(calls', Call(SubscribeCall, k)) \/ Answered(k)'
  <2>0. k \in Keys
    BY DEF WireInv, WireTypes
  <2>1. CASE Answered(k)
    BY <1>6, <2>1 DEF Answered
  <2>2. CASE ~Answered(k)
    <3>1. Contains(calls, Call(SubscribeCall, k))
      BY <2>2 DEF WireInv, WatchersAwaitReplies, Answered
    <3>2. CASE Call(SubscribeCall, k) # h
      BY <1>1, <1>2, <3>1, <3>2, ContainsLater
    <3>3. CASE Call(SubscribeCall, k) = h
      <4>1. h.key = k /\ h.call = SubscribeCall
        BY <2>0, <3>3, RepliesDiffer
      <4>2. PICK ok \in BOOLEAN : arrived' = Append(arrived, Reply(k, ok))
        BY <1>4, <4>1
      <4>3. PICK x \in Arrivals : x = Reply(k, ok)
        BY <2>0 DEF Reply, Replies, Arrivals
      <4>4. Contains(Append(arrived, x), x)
        BY <1>1, ContainsAppended
      <4> QED
        BY <4>2, <4>3, <4>4 DEF Answered
    <3> QED
      BY <3>2, <3>3
  <2> QED
    BY <2>1, <2>2
<1>8. WireTypes'
  BY <1>1, <1>5 DEF WireInv, WireTypes
<1> QED
  BY <1>1, <1>7, <1>8 DEF WireInv, WatchersAwaitReplies, Answered

LEMMA NoticeSent ==
  ASSUME WireInv, ServiceStarts \/ ServiceStops
  PROVE  WireInv'
<1>1. arrived \in Seq(Arrivals) /\ UNCHANGED <<calls, pendingKeys, pendingWatchers>>
  BY DEF WireInv, WireTypes, ServiceStarts, ServiceStops, listenerVars
<1>2. PICK notice \in Arrivals : arrived' = arrived \/ arrived' = Append(arrived, notice)
  <2>1. NameAppeared \in Arrivals /\ NameGone \in Arrivals
    BY DEF Arrivals
  <2>2. \/ arrived' = arrived
        \/ arrived' = Append(arrived, NameAppeared)
        \/ arrived' = Append(arrived, NameGone)
    BY DEF ServiceStarts, ServiceStops, Announces
  <2> QED
    BY <2>1, <2>2
<1>3. arrived' \in Seq(Arrivals)
  BY <1>1, <1>2, AppendProperties
<1>4. \A e : Contains(arrived, e) => Contains(arrived', e)
  BY <1>1, <1>2, ContainsAppended
<1>5. \A k \in pendingWatchers' : Answered(k) => Answered(k)'
  BY <1>4 DEF Answered
<1> QED
  BY <1>1, <1>3, <1>5, AnswerGoes

-----------------------------------------------------------------------------
(* The whole                                                               *)

WholeInv == Inv /\ WireInv

LEMMA WholeInitInv == WholeInit => WholeInv
<1> SUFFICES ASSUME WholeInit PROVE WholeInv
  OBVIOUS
<1>1. Inv
  BY InitInv DEF WholeInit
<1>2. WireTypes
  BY EmptySeq DEF WholeInit, WireTypes
<1>3. WatchersAwaitReplies
  BY DEF WholeInit, WatchersAwaitReplies
<1> QED
  BY <1>1, <1>2, <1>3 DEF WholeInv, WireInv

LEMMA SchedulesPassed ==
  ASSUME WholeInv, PluginHandlesSubscribes
  PROVE  WireInv'
<1>1. /\ WireInv /\ UNCHANGED <<pendingWatchers, arrived>> /\ pendingKeys \subseteq Keys
      /\ toSubscribe[provider] \subseteq Keys /\ toUnsubscribe[provider] \in SUBSET Keys
  BY PluginAssumption DEF WholeInv, Inv, TypeOK, WireInv, WireTypes, PluginHandlesSubscribes
<1>2. CASE pluginState[provider] = READY
  <2>1. PICK order \in SetToSeqs(toUnsubscribe[provider]) :
          calls' = calls \o [i \in DOMAIN order |-> Call(UnsubscribeCall, order[i])]
    BY <1>2 DEF PluginHandlesSubscribes, PluginUnsubscribes
  <2>2. pendingKeys' \subseteq Keys
    BY <1>1, <1>2 DEF PluginHandlesSubscribes, PluginSubscribes
  <2>3. PICK ks \in SUBSET Keys : ks = toUnsubscribe[provider]
    BY <1>1
  <2> QED
    BY <1>1, <2>1, <2>2, <2>3, WireCalls
<1>3. CASE pluginState[provider] # READY
  BY <1>1, <1>3, WireUntouched DEF PluginHandlesSubscribes
<1> QED
  BY <1>2, <1>3

LEMMA WholeNextInv == WholeInv /\ [WholeNext]_wholeVars => WholeInv' /\ [Next]_providerVars
<1> SUFFICES ASSUME WholeInv, [WholeNext]_wholeVars PROVE WholeInv' /\ [Next]_providerVars
  OBVIOUS
<1>0. WireInv /\ WireTypes /\ pendingKeys \subseteq Keys
  BY DEF WholeInv, WireInv, WireTypes
<1>1. [Next]_providerVars
  BY <1>0, ProviderStep
<1>2. Inv'
  BY <1>1, NextInv DEF WholeInv
<1>3. ASSUME NEW k \in Keys, AnySubscribes(k) \/ AnyUnsubscribes(k) \/ AnyBlocks(k)
      PROVE  WireInv'
  BY <1>0, <1>3, WireUntouched DEF AnySubscribes, AnyUnsubscribes, AnyBlocks, listenerVars, wireVars
<1>4. ASSUME \/ DispatchProviderCall \/ DispatchAppeared \/ ConstructContextKitPlugin
             \/ UNCHANGED wholeVars
      PROVE  WireInv'
  BY <1>0, <1>4, WireUntouched
     DEF DispatchProviderCall, DispatchAppeared, ConstructContextKitPlugin, listenerVars, wireVars,
         wholeVars
<1>5. ASSUME DispatchNewSubscribe PROVE WireInv'
  <2>1. PICK ks \in SUBSET Keys : NewSubscribe(ks) /\ UNCHANGED arrived
    BY <1>0, <1>5 DEF DispatchNewSubscribe
  <2> QED
    BY <1>0, <2>1, NewSubscribeKeeps
<1>6. ASSUME PluginHandlesSubscribes PROVE WireInv'
  BY <1>6, SchedulesPassed
<1>7. ASSUME SetServicePresent \/ SetServiceGone PROVE WireInv'
  BY <1>0, <1>7, NoticeTaken DEF SetServicePresent, SetServiceGone
<1>8. ASSUME DispatchReply PROVE WireInv'
  BY <1>0, <1>8, ReplyDispatched
<1>9. ASSUME NEW k \in Keys, BlockUntilReady(k) PROVE WireInv'
  BY <1>0, <1>9, WireUntouched DEF BlockUntilReady, listenerVars, wireVars
<1>10. ASSUME NEW k \in Keys, BlockForCalls(k) PROVE WireInv'
  <2>1. CASE pluginState[provider] = READY
    <3>1. NewSubscribe(pendingKeys) /\ UNCHANGED arrived
      BY <1>10, <2>1 DEF BlockForCalls
    <3>2. PICK ks \in SUBSET Keys : ks = pendingKeys
      BY <1>0
    <3>3. NewSubscribe(ks)
      BY <3>1, <3>2
    <3> QED
      BY <1>0, <3>1, <3>3, NewSubscribeKeeps
  <2>2. CASE pluginState[provider] # READY
    BY <1>0, <1>10, <2>2, WireUntouched DEF BlockForCalls
  <2> QED
    BY <2>1, <2>2
<1>11. ASSUME NEW k \in Keys, BlockForReply(k) PROVE WireInv'
  BY <1>0, <1>11, BlockedReplyTaken
<1>12. ASSUME ServiceAnswers \/ BusAnswers PROVE WireInv'
  BY <1>0, <1>12, CallAnswered
<1>13. ASSUME ServiceStarts \/ ServiceStops PROVE WireInv'
  BY <1>0, <1>13, NoticeSent
<1>14. ASSUME NEW k \in Keys, ProviderStoresValue(k) PROVE WireInv'
  BY <1>0, <1>14, WireUntouched DEF ProviderStoresValue, listenerVars, wireVars
<1>15. WireInv'
  BY <1>3, <1>4, <1>5, <1>6, <1>7, <1>8, <1>9, <1>10, <1>11, <1>12, <1>13, <1>14 DEF WholeNext
<1> QED
  BY <1>1, <1>2, <1>15 DEF WholeInv

-----------------------------------------------------------------------------
(* The queue of the main thread                                            *)

PostedCalls == {ProviderCall(m) : m \in Methods} \cup {Appeared}
               \cup {NewSubscribeCall(ks) : ks \in SUBSET Keys}

\* The Provider's calls in a queue are those of ms, each once, the construction first.
InOrder(s, ms) ==
  /\ \A i \in DOMAIN s : s[i][1] \in Methods => s[i][1] \in ms
  /\ \A m \in ms : \E i \in DOMAIN s : s[i][1] = m
  /\ \A i, j \in DOMAIN s :
       i < j /\ s[i][1] \in Methods /\ s[j][1] \in Methods
         => s[i][1] = ConstructPluginCall /\ s[j][1] = HandleSubscribesCall

\* A call of newSubscribe for the key is posted.
HasKey(s, k) == \E i \in DOMAIN s : k \in s[i][2]

LEMMA PostedCallTypes ==
  /\ \A m \in Methods : /\ ProviderCall(m) \in PostedCalls
                        /\ ProviderCall(m)[1] = m /\ ProviderCall(m)[2] = {}
  /\ Appeared \in PostedCalls /\ Appeared[1] \notin Methods /\ Appeared[2] = {}
  /\ \A ks \in SUBSET Keys : /\ NewSubscribeCall(ks) \in PostedCalls
                             /\ NewSubscribeCall(ks)[1] = "newSubscribe"
                             /\ NewSubscribeCall(ks)[2] = ks
  /\ "newSubscribe" \notin Methods
  /\ \A x \in PostedCalls : /\ x[1] \in Methods => x = ProviderCall(x[1])
                            /\ x[1] = "newSubscribe" => x[2] \in SUBSET Keys
                            /\ x[2] \subseteq Keys
BY DEF PostedCalls, ProviderCall, Appeared, NewSubscribeCall, Methods, ConstructPluginCall,
       HandleSubscribesCall

LEMMA ReplacedElements ==
  ASSUME NEW S, NEW s \in Seq(S), s # <<>>, NEW y \in S
  PROVE  /\ <<y>> \o Tail(s) \in Seq(S)
         /\ DOMAIN (<<y>> \o Tail(s)) = 1 .. Len(s)
         /\ (<<y>> \o Tail(s))[1] = y
         /\ \A i \in 2 .. Len(s) : (<<y>> \o Tail(s))[i] = s[i]
<1>1. /\ <<y>> \in Seq(S) /\ Len(<<y>>) = 1 /\ <<y>>[1] = y
  OBVIOUS
<1>2. /\ <<y>> \o Tail(s) \in Seq(S) /\ Len(<<y>> \o Tail(s)) = 1 + (Len(s) - 1)
      /\ \A i \in 1 .. 1 + (Len(s) - 1) :
           (<<y>> \o Tail(s))[i] = IF i <= 1 THEN <<y>>[i] ELSE Tail(s)[i - 1]
  BY <1>1, TailElements, ConcatProperties
<1>3. Len(s) \in Nat /\ Len(s) > 0 /\ \A i \in 1 .. Len(s) - 1 : Tail(s)[i] = s[i + 1]
  BY TailElements
<1>4. ASSUME NEW i \in 2 .. Len(s) PROVE (<<y>> \o Tail(s))[i] = s[i]
  <2>1. i - 1 \in 1 .. Len(s) - 1 /\ (i - 1) + 1 = i /\ ~(i <= 1)
    BY <1>3
  <2>2. Tail(s)[i - 1] = s[i]
    BY <1>3, <2>1
  <2> QED
    BY <1>2, <1>3, <2>1, <2>2
<1> QED
  BY <1>1, <1>2, <1>3, <1>4, LenProperties

LEMMA InOrderAppended ==
  ASSUME NEW s \in Seq(PostedCalls), NEW x \in PostedCalls, NEW ms \in SUBSET Methods,
         InOrder(s, ms)
  PROVE  /\ x[1] \notin Methods => InOrder(Append(s, x), ms)
         /\ x[1] = HandleSubscribesCall /\ HandleSubscribesCall \notin ms
              => InOrder(Append(s, x), ms \cup {HandleSubscribesCall})
<1>1. /\ Len(s) \in Nat /\ DOMAIN s = 1 .. Len(s) /\ DOMAIN Append(s, x) = 1 .. Len(s) + 1
      /\ Append(s, x)[Len(s) + 1] = x /\ \A i \in 1 .. Len(s) : Append(s, x)[i] = s[i]
  BY AppendElements
<1> DEFINE t == Append(s, x)
<1> HIDE DEF t
<1>2. ASSUME x[1] \notin Methods PROVE InOrder(t, ms)
  BY <1>1, <1>2 DEF InOrder, t
<1>3. ASSUME x[1] = HandleSubscribesCall, HandleSubscribesCall \notin ms
      PROVE  InOrder(t, ms \cup {HandleSubscribesCall})
  <2>1. \A i \in 1 .. Len(s) : s[i][1] \in Methods => s[i][1] = ConstructPluginCall
    BY <1>1, <1>3 DEF InOrder, Methods
  <2>2. \A i \in DOMAIN t : t[i][1] \in Methods => t[i][1] \in ms \cup {HandleSubscribesCall}
    BY <1>1, <1>3 DEF InOrder, t
  <2>3. \A m \in ms \cup {HandleSubscribesCall} : \E i \in DOMAIN t : t[i][1] = m
    BY <1>1, <1>3 DEF InOrder, t
  <2>4. ASSUME NEW i \in DOMAIN t, NEW j \in DOMAIN t, i < j, t[i][1] \in Methods, t[j][1] \in Methods
        PROVE  t[i][1] = ConstructPluginCall /\ t[j][1] = HandleSubscribesCall
    <3>1. i \in 1 .. Len(s) /\ t[i][1] = ConstructPluginCall
      BY <1>1, <2>1, <2>4 DEF t
    <3>2. CASE j = Len(s) + 1
      BY <1>1, <1>3, <3>1, <3>2 DEF t
    <3>3. CASE j # Len(s) + 1
      <4>1. j \in 1 .. Len(s)
        BY <1>1, <3>3 DEF t
      <4> QED
        BY <1>1, <2>4, <3>1, <4>1 DEF InOrder, t
    <3> QED
      BY <3>2, <3>3
  <2> QED
    BY <2>2, <2>3, <2>4 DEF InOrder
<1> QED
  BY <1>2, <1>3 DEF t

LEMMA InOrderTail ==
  ASSUME NEW s \in Seq(PostedCalls), s # <<>>, NEW ms \in SUBSET Methods, InOrder(s, ms)
  PROVE  /\ Head(s)[1] \notin Methods => InOrder(Tail(s), ms)
         /\ Head(s)[1] \in Methods =>
              /\ InOrder(Tail(s), ms \ {Head(s)[1]}) /\ Head(s)[1] \in ms
              /\ Head(s)[1] = HandleSubscribesCall => ConstructPluginCall \notin ms
<1>1. /\ Len(s) \in Nat /\ Len(s) > 0 /\ DOMAIN s = 1 .. Len(s) /\ Head(s) = s[1]
      /\ DOMAIN Tail(s) = 1 .. Len(s) - 1 /\ \A i \in 1 .. Len(s) - 1 : Tail(s)[i] = s[i + 1]
  BY TailElements
<1> DEFINE t == Tail(s)
           h == Head(s)[1]
<1> HIDE DEF t, h
<1>2. \A i, j \in DOMAIN t : i < j /\ t[i][1] \in Methods /\ t[j][1] \in Methods
        => t[i][1] = ConstructPluginCall /\ t[j][1] = HandleSubscribesCall
  <2> SUFFICES ASSUME NEW i \in DOMAIN t, NEW j \in DOMAIN t, i < j, t[i][1] \in Methods,
                      t[j][1] \in Methods
               PROVE  t[i][1] = ConstructPluginCall /\ t[j][1] = HandleSubscribesCall
    OBVIOUS
  <2>1. /\ i + 1 \in DOMAIN s /\ j + 1 \in DOMAIN s /\ i + 1 < j + 1
        /\ t[i] = s[i + 1] /\ t[j] = s[j + 1]
    BY <1>1 DEF t
  <2> QED
    BY <2>1 DEF InOrder
<1>3. \A i \in DOMAIN s : i = 1 \/ (i - 1 \in DOMAIN t /\ t[i - 1] = s[i])
  BY <1>1 DEF t
<1>4. \A i \in DOMAIN t : i + 1 \in DOMAIN s /\ 1 < i + 1 /\ 1 \in DOMAIN s /\ t[i] = s[i + 1]
  BY <1>1 DEF t
<1>5. ASSUME h \notin Methods PROVE InOrder(t, ms)
  <2>1. \A m \in ms : \E i \in DOMAIN t : t[i][1] = m
    BY <1>1, <1>3, <1>5 DEF InOrder, h
  <2>2. \A i \in DOMAIN t : t[i][1] \in Methods => t[i][1] \in ms
    BY <1>4 DEF InOrder
  <2> QED
    BY <1>2, <2>1, <2>2 DEF InOrder
<1>6. ASSUME h \in Methods
      PROVE  InOrder(t, ms \ {h}) /\ h \in ms /\ (h = HandleSubscribesCall => ConstructPluginCall \notin ms)
  <2>1. s[1][1] = h /\ h \in ms
    BY <1>1, <1>6 DEF InOrder, h
  <2>2. \A i \in DOMAIN t : t[i][1] \in Methods =>
          h = ConstructPluginCall /\ t[i][1] = HandleSubscribesCall
    BY <1>4, <1>6, <2>1 DEF InOrder
  <2>3. ConstructPluginCall # HandleSubscribesCall
    BY DEF ConstructPluginCall, HandleSubscribesCall
  <2>4. \A i \in DOMAIN t : t[i][1] \in Methods => t[i][1] \in ms \ {h}
    <3>1. \A i \in DOMAIN t : t[i][1] \in Methods => t[i][1] \in ms
      BY <1>4 DEF InOrder
    <3> QED
      BY <2>2, <2>3, <3>1
  <2>5. \A m \in ms \ {h} : \E i \in DOMAIN t : t[i][1] = m
    <3> TAKE m \in ms \ {h}
    <3>1. PICK i \in DOMAIN s : s[i][1] = m
      BY DEF InOrder
    <3> QED
      BY <1>3, <2>1, <3>1
  <2>6. h = HandleSubscribesCall => ConstructPluginCall \notin ms
    BY <2>2, <2>3, <2>5 DEF Methods
  <2> QED
    BY <1>2, <2>1, <2>4, <2>5, <2>6 DEF InOrder
<1> QED
  BY <1>5, <1>6 DEF t, h

LEMMA InOrderReplaced ==
  ASSUME NEW s \in Seq(PostedCalls), s # <<>>, NEW ms \in SUBSET Methods, InOrder(s, ms),
         Head(s)[1] \notin Methods, NEW y \in PostedCalls, y[1] \notin Methods
  PROVE  InOrder(<<y>> \o Tail(s), ms)
<1> DEFINE t == <<y>> \o Tail(s)
<1>1. /\ DOMAIN s = 1 .. Len(s) /\ DOMAIN t = 1 .. Len(s) /\ s[1][1] \notin Methods
      /\ t[1][1] \notin Methods /\ \A i \in 2 .. Len(s) : t[i] = s[i]
  BY TailElements, ReplacedElements
<1> HIDE DEF t
<1>2. \A i \in DOMAIN s : t[i][1] \in Methods \/ s[i][1] \in Methods => t[i] = s[i]
  <2> TAKE i \in DOMAIN s
  <2>1. i = 1 \/ i \in 2 .. Len(s)
    BY <1>1
  <2> QED
    BY <1>1, <2>1
<1>3. DOMAIN t = DOMAIN s
  BY <1>1
<1>4. InOrder(t, ms)
  <2>1. \A i \in DOMAIN t : t[i][1] \in Methods => t[i][1] \in ms
    BY <1>2, <1>3 DEF InOrder
  <2>2. \A m \in ms : \E i \in DOMAIN t : t[i][1] = m
    BY <1>2, <1>3 DEF InOrder
  <2>3. \A i, j \in DOMAIN t : i < j /\ t[i][1] \in Methods /\ t[j][1] \in Methods
          => t[i][1] = ConstructPluginCall /\ t[j][1] = HandleSubscribesCall
    BY <1>2, <1>3 DEF InOrder
  <2> QED
    BY <2>1, <2>2, <2>3 DEF InOrder
<1> QED
  BY <1>4 DEF t

LEMMA KeysPosted ==
  ASSUME NEW s \in Seq(PostedCalls), NEW x \in PostedCalls, NEW k
  PROVE  /\ HasKey(s, k) \/ k \in x[2] => HasKey(Append(s, x), k)
         /\ s # <<>> /\ HasKey(s, k) /\ k \notin Head(s)[2] => HasKey(Tail(s), k)
         /\ s # <<>> /\ HasKey(s, k) /\ (k \in Head(s)[2] => k \in x[2]) => HasKey(<<x>> \o Tail(s), k)
<1>1. ASSUME HasKey(s, k) \/ k \in x[2] PROVE HasKey(Append(s, x), k)
  BY <1>1, AppendElements DEF HasKey
<1>2. ASSUME s # <<>>, HasKey(s, k), k \notin Head(s)[2] PROVE HasKey(Tail(s), k)
  <2>1. PICK i \in 1 .. Len(s) : k \in s[i][2]
    BY <1>2, TailElements DEF HasKey
  <2>2. i - 1 \in 1 .. Len(s) - 1 /\ Tail(s)[i - 1] = s[i]
    BY <1>2, <2>1, TailElements
  <2> QED
    BY <1>2, <2>1, <2>2, TailElements DEF HasKey
<1>3. ASSUME s # <<>>, HasKey(s, k), k \in Head(s)[2] => k \in x[2]
      PROVE  HasKey(<<x>> \o Tail(s), k)
  <2>1. PICK i \in 1 .. Len(s) : k \in s[i][2]
    BY <1>3, TailElements DEF HasKey
  <2>2. CASE i = 1
    <3>1. k \in (<<x>> \o Tail(s))[1][2] /\ 1 \in DOMAIN (<<x>> \o Tail(s))
      BY <1>3, <2>1, <2>2, TailElements, ReplacedElements
    <3> QED
      BY <3>1 DEF HasKey
  <2>3. CASE i # 1
    <3>1. (<<x>> \o Tail(s))[i] = s[i] /\ i \in DOMAIN (<<x>> \o Tail(s))
      BY <1>3, <2>1, <2>3, TailElements, ReplacedElements
    <3> QED
      BY <2>1, <3>1 DEF HasKey
  <2> QED
    BY <2>2, <2>3
<1> QED
  BY <1>1, <1>2, <1>3

\* What is posted: the calls of the Provider, and one of newSubscribe for every pending key.
PostInv ==
  /\ posted \in Seq(PostedCalls)
  /\ InOrder(posted, callQueue[provider])
  /\ \A k \in pendingKeys : HasKey(posted, k)

\* How far the plugin has come: constructed when the Provider says so, ready when it
\* has looked for its service and not found it gone.
StateInv ==
  /\ plugin[provider] = pluginConstructed[provider]
  /\ ~pluginConstructed[provider] =>
       \/ ConstructPluginCall \in callQueue[provider]
       \/ running = <<provider, ConstructPluginCall>>
  /\ plugin[provider] /\ pluginState[provider] = INITIALIZING => Contains(posted, Appeared)
  /\ servicePresent \in {Unknown, Present, NotPresent}
  /\ servicePresent = NotPresent <=> pluginState[provider] = FAILED
  /\ ~plugin[provider] =>
       /\ servicePresent = Unknown /\ (ServiceFirst => owned)
       /\ ~Contains(arrived, NameAppeared) /\ ~Contains(arrived, NameGone)

LEMMA OneProvider == provider \in Providers /\ Providers = {provider}
BY PluginAssumption

\* What a step leaves alone when it touches neither the queue nor the plugin's state.
LEMMA StateUntouched ==
  ASSUME Inv, StateInv,
         UNCHANGED <<plugin, pluginConstructed, pluginState, servicePresent, owned>>,
         ConstructPluginCall \in callQueue[provider] => ConstructPluginCall \in callQueue'[provider],
         \/ running' = running
         \/ MainIdle \/ running = <<provider, HandleSubscribesCall>> \/ pluginConstructed[provider]
         \/ running # <<provider, ConstructPluginCall>>,
         Contains(posted, Appeared) => Contains(posted', Appeared),
         Contains(arrived', NameAppeared) => Contains(arrived, NameAppeared),
         Contains(arrived', NameGone) => Contains(arrived, NameGone)
  PROVE  StateInv'
<1>1. ConstructPluginCall # HandleSubscribesCall /\ Idle # <<provider, ConstructPluginCall>>
  BY DEF ConstructPluginCall, HandleSubscribesCall, Idle
<1> QED
  BY <1>1 DEF StateInv, MainIdle

LEMMA QueuedMethods ==
  HandleSubscribesCall \in Methods /\ \A q \in Queues : q \in Seq(Methods)
<1>1. ConstructPluginCall \in Methods /\ HandleSubscribesCall \in Methods
  BY DEF Methods
<1>2. /\ <<>> \in Seq(Methods) /\ <<ConstructPluginCall>> \in Seq(Methods)
      /\ <<HandleSubscribesCall>> \in Seq(Methods)
      /\ <<ConstructPluginCall, HandleSubscribesCall>> \in Seq(Methods)
  BY <1>1
<1> QED
  BY <1>1, <1>2 DEF Queues

\* The Provider posts handleSubscribes.
LEMMA ProviderPosts ==
  ASSUME Inv, PostInv, PostsFollow, UNCHANGED pendingKeys,
         UNCHANGED queueVars \/ QueueOnce(provider, HandleSubscribesCall)
  PROVE  /\ PostInv'
         /\ callQueue[provider] \subseteq callQueue'[provider]
         /\ Contains(posted, Appeared) => Contains(posted', Appeared)
<1>1. /\ callQueue \in [Providers -> SUBSET Methods] /\ eventQueue \in [Providers -> Queues]
      /\ posted \in Seq(PostedCalls) /\ InOrder(posted, callQueue[provider])
      /\ callQueue[provider] \in SUBSET Methods
  BY OneProvider DEF Inv, TypeOK, PostInv
<1>2. CASE UNCHANGED queueVars
  BY <1>2 DEF PostsFollow, PostInv, queueVars
<1>3. CASE ~UNCHANGED queueVars
  <2>1. /\ HandleSubscribesCall \notin callQueue[provider]
        /\ callQueue' = [callQueue EXCEPT ![provider] = @ \cup {HandleSubscribesCall}]
        /\ eventQueue' = [eventQueue EXCEPT ![provider] = Append(@, HandleSubscribesCall)]
    BY <1>3 DEF QueueOnce
  <2>2. callQueue'[provider] = callQueue[provider] \cup {HandleSubscribesCall}
    BY <1>1, <2>1, OneProvider
  <2>3. eventQueue'[provider] = Append(eventQueue[provider], HandleSubscribesCall)
    BY <1>1, <2>1, OneProvider
  <2>4. eventQueue[provider] \in Seq(Methods) /\ HandleSubscribesCall \in Methods
    BY <1>1, OneProvider, QueuedMethods
  <2>5. eventQueue' # eventQueue /\ Last(eventQueue'[provider]) = HandleSubscribesCall
    BY <2>3, <2>4, AppendProperties DEF Last
  <2>6. PICK x \in PostedCalls : x = ProviderCall(HandleSubscribesCall)
    BY PostedCallTypes, <2>4
  <2>7. posted' = Append(posted, x) /\ x[1] = HandleSubscribesCall
    BY <2>4, <2>5, <2>6, PostedCallTypes DEF PostsFollow
  <2>8. posted' \in Seq(PostedCalls)
    BY <1>1, <2>7, AppendProperties
  <2>9. InOrder(posted', callQueue'[provider])
    BY <1>1, <2>1, <2>2, <2>7, InOrderAppended
  <2>10. \A k \in pendingKeys : HasKey(posted', k)
    BY <1>1, <2>7, KeysPosted DEF PostInv
  <2>11. Contains(posted, Appeared) => Contains(posted', Appeared)
    BY <1>1, <2>7, ContainsAppended
  <2> QED
    BY <2>2, <2>8, <2>9, <2>10, <2>11 DEF PostInv
<1> QED
  BY <1>2, <1>3

\* A call that is not of the Provider is posted.
LEMMA PluginPosts ==
  ASSUME Inv, PostInv, UNCHANGED callQueue, NEW x \in PostedCalls, x[1] \notin Methods,
         posted' = Append(posted, x), pendingKeys' \subseteq pendingKeys \cup x[2]
  PROVE  /\ PostInv' /\ Contains(posted', x)
         /\ Contains(posted, Appeared) => Contains(posted', Appeared)
<1>1. /\ posted \in Seq(PostedCalls) /\ InOrder(posted, callQueue[provider])
      /\ callQueue[provider] \in SUBSET Methods
  BY OneProvider DEF Inv, TypeOK, PostInv
<1>2. posted' \in Seq(PostedCalls) /\ InOrder(posted', callQueue[provider])
  BY <1>1, InOrderAppended, AppendProperties
<1>3. \A k \in pendingKeys' : HasKey(posted', k)
  BY <1>1, KeysPosted DEF PostInv
<1>4. Contains(posted', x) /\ (Contains(posted, Appeared) => Contains(posted', Appeared))
  BY <1>1, ContainsAppended
<1> QED
  BY <1>2, <1>3, <1>4 DEF PostInv

LEMMA ProviderCallDispatched ==
  ASSUME Inv, PostInv, StateInv, DispatchProviderCall
  PROVE  PostInv' /\ StateInv'
<1>1. /\ posted \in Seq(PostedCalls) /\ posted # <<>> /\ Head(posted)[1] \in Methods
      /\ posted' = Tail(posted) /\ OnQueuedCall(provider) /\ MainIdle
      /\ callQueue \in [Providers -> SUBSET Methods]
      /\ UNCHANGED <<servicePresent, pendingKeys, arrived, owned>>
      /\ UNCHANGED <<plugin, pluginConstructed, pluginState>>
  BY DEF Inv, TypeOK, PostInv, DispatchProviderCall, InLoop, listenerVars, wireVars, serviceVars,
         OnQueuedCall, pluginVars
<1> DEFINE m == Head(posted)[1]
<1>2. callQueue[provider] \in SUBSET Methods /\ Head(posted) = ProviderCall(m)
  BY <1>1, OneProvider, TailElements, PostedCallTypes
<1>3. /\ InOrder(posted', callQueue[provider] \ {m}) /\ m \in callQueue[provider]
      /\ m = HandleSubscribesCall => ConstructPluginCall \notin callQueue[provider]
  BY <1>1, <1>2, InOrderTail DEF PostInv
<1> HIDE DEF m
<1>4. Head(eventQueue[provider]) = m
  <2>1. /\ ConstructPluginCall # HandleSubscribesCall
        /\ m = ConstructPluginCall \/ m = HandleSubscribesCall
    BY <1>1 DEF Methods, ConstructPluginCall, HandleSubscribesCall, m
  <2> QED
    BY <1>3, <2>1, OneProvider DEF Inv, QueueInv
<1>5. /\ callQueue'[provider] = callQueue[provider] \ {m}
      /\ running' = <<provider, m>>
  BY <1>1, <1>4, OneProvider DEF OnQueuedCall
<1>6. posted' \in Seq(PostedCalls) /\ Contains(posted, Appeared) => Contains(posted', Appeared)
  <2>1. Head(posted) # Appeared
    BY <1>1, PostedCallTypes
  <2> QED
    BY <1>1, <2>1, ContainsLater, HeadTailProperties
<1>7. PostInv'
  <2>1. \A k \in pendingKeys : HasKey(posted', k)
    <3>1. Head(posted)[2] = {}
      BY <1>1, <1>2, PostedCallTypes DEF m
    <3>2. PICK x \in PostedCalls : x = Head(posted)
      BY <1>1, TailElements
    <3> QED
      BY <1>1, <3>1, <3>2, KeysPosted DEF PostInv
  <2>2. posted' \in Seq(PostedCalls)
    BY <1>1, HeadTailProperties
  <2> QED
    BY <1>1, <1>3, <1>5, <2>1, <2>2 DEF PostInv
<1>8. StateInv'
  <2>1. ~pluginConstructed[provider] =>
          \/ ConstructPluginCall \in callQueue'[provider]
          \/ running' = <<provider, ConstructPluginCall>>
    <3>1. running # <<provider, ConstructPluginCall>>
      BY <1>1 DEF MainIdle, Idle
    <3> QED
      BY <1>5, <3>1 DEF StateInv
  <2> QED
    BY <1>1, <1>6, <2>1 DEF StateInv
<1> QED
  BY <1>7, <1>8

-----------------------------------------------------------------------------
(* What the plugin's signals and the answers do to the Provider            *)

\* A ready that counts renews everything; one of a ready plugin changes nothing here.
LEMMA AppearedEffect ==
  ASSUME Inv, NEW present, OnProviderAppeared(present)
  PROVE  /\ UNCHANGED <<subscribedKeys, queueVars, plugin, pluginConstructed>>
         /\ \/ UNCHANGED <<toSubscribe, toUnsubscribe, pluginState, running>>
            \/ /\ present # NotPresent /\ MainIdle /\ pluginState'[provider] = READY
               /\ running' = <<provider, HandleSubscribesCall>>
               /\ toSubscribe'[provider] = subscribedKeys[provider]
               /\ toUnsubscribe'[provider] = {}
         /\ present # NotPresent => pluginState'[provider] = READY
<1>1. /\ pluginState \in [Providers -> PluginStates]
      /\ toSubscribe \in [Providers -> SUBSET Keys] /\ toUnsubscribe \in [Providers -> SUBSET Keys]
  BY DEF Inv, TypeOK
<1>2. CASE present = NotPresent
  BY <1>2 DEF OnProviderAppeared, ReadyUnlessGone, providerVars, scheduleVars, queueVars, pluginVars
<1>3. CASE present # NotPresent /\ pluginState[provider] = READY
  BY <1>3 DEF OnProviderAppeared, ReadyUnlessGone, PluginReady, OnPluginReadyIgnored, scheduleVars,
              queueVars, pluginVars
<1>4. CASE present # NotPresent /\ pluginState[provider] # READY
  BY <1>1, <1>4, OneProvider
     DEF OnProviderAppeared, ReadyUnlessGone, PluginReady, OnPluginReady, Renewed
<1> QED
  BY <1>2, <1>3, <1>4

LEMMA FailedEffect ==
  ASSUME Inv, OnPluginFailed(provider)
  PROVE  /\ UNCHANGED <<scheduleVars, queueVars, plugin, pluginConstructed>>
         /\ MainIdle /\ plugin[provider] /\ pluginState'[provider] = FAILED
         /\ running' = <<provider, HandleSubscribesCall>>
BY OneProvider DEF Inv, TypeOK, OnPluginFailed

LEMMA FinishedEffect ==
  ASSUME NEW r \in Replies, OnFinished(r)
  PROVE  UNCHANGED <<scheduleVars, queueVars, pluginVars>> /\ MainIdle
BY DEF OnFinished, Finishes, Fails, OnPluginSubscribeFinished, OnPluginSubscribeFailed, DoAnswer

\* The value of a finished subscription is stored.
LEMMA StoredEffect ==
  ASSUME NEW k \in Keys, ProviderStoresValue(k)
  PROVE  /\ UNCHANGED <<scheduleVars, queueVars, pluginVars, posted, listenerVars>>
         /\ UNCHANGED <<blocking, wireVars, serviceVars, requests>>
         /\ running # <<provider, ConstructPluginCall>>
<1>1. ConstructPluginCall # "onPluginValueChanged"
  BY DEF ConstructPluginCall
<1> QED
  BY <1>1 DEF ProviderStoresValue, StoreValue, Storing

\* constructPlugin with this plugin, which posts onProviderAppeared.
LEMMA ConstructedEffect ==
  ASSUME Inv, ConstructPluginBody(provider), plugin'[provider]
  PROVE  /\ UNCHANGED <<scheduleVars, queueVars>>
         /\ plugin'[provider] /\ pluginConstructed'[provider] /\ running' = Idle
         /\ UNCHANGED pluginState
         /\ pluginConstructed[provider] => plugin' = plugin
         /\ ~pluginConstructed[provider] =>
              pluginState[provider] = INITIALIZING /\ ~plugin[provider]
<1>1. /\ pluginConstructed \in [Providers -> BOOLEAN] /\ plugin \in [Providers -> BOOLEAN]
      /\ ~pluginConstructed[provider] => pluginState[provider] = INITIALIZING /\ ~plugin[provider]
  BY OneProvider DEF Inv, TypeOK, ConstructInv
<1> QED
  BY <1>1, OneProvider DEF ConstructPluginBody

-----------------------------------------------------------------------------
(* The queue of the main thread and the plugin's state, action by action   *)

\* The queue as it is, or with one more call in front of which nothing changes.
LEMMA PostUntouched ==
  ASSUME PostInv, UNCHANGED <<posted, callQueue>>, pendingKeys' \subseteq pendingKeys
  PROVE  PostInv'
BY DEF PostInv

LEMMA IntentPosted ==
  ASSUME Inv, PostInv, StateInv, NEW k \in Keys, AnySubscribes(k) \/ AnyUnsubscribes(k)
  PROVE  PostInv' /\ StateInv'
<1>1. /\ PostsFollow /\ UNCHANGED <<servicePresent, pendingKeys, arrived, owned>>
      /\ DoSubscribe(provider, k) \/ DoUnsubscribe(provider, k)
  BY DEF AnySubscribes, AnyUnsubscribes, Subscribe, Unsubscribe, listenerVars, wireVars, serviceVars
<1>2. /\ UNCHANGED <<plugin, pluginConstructed, pluginState, running>>
      /\ UNCHANGED queueVars \/ QueueOnce(provider, HandleSubscribesCall)
  BY <1>1 DEF DoSubscribe, DoUnsubscribe, Wake, pluginVars, queueVars
<1>3. PostInv' /\ callQueue[provider] \subseteq callQueue'[provider]
      /\ (Contains(posted, Appeared) => Contains(posted', Appeared))
  BY <1>1, <1>2, ProviderPosts
<1> QED
  BY <1>1, <1>2, <1>3, StateUntouched

LEMMA NewSubscribeDispatched ==
  ASSUME Inv, PostInv, StateInv, DispatchNewSubscribe
  PROVE  PostInv' /\ StateInv'
<1>1. PICK ks, k :
        /\ k \in ks /\ ks = Head(posted)[2] /\ NewSubscribe({k} \cap pendingKeys)
        /\ posted' = IF ks = {k} THEN Tail(posted) ELSE <<NewSubscribeCall(ks \ {k})>> \o Tail(posted)
  BY DEF DispatchNewSubscribe
<1>2. /\ posted \in Seq(PostedCalls) /\ posted # <<>> /\ Head(posted)[1] = "newSubscribe"
      /\ InOrder(posted, callQueue[provider]) /\ callQueue[provider] \in SUBSET Methods
      /\ UNCHANGED <<plugin, pluginConstructed, pluginState, running, callQueue>>
      /\ UNCHANGED <<servicePresent, arrived, owned>>
  BY OneProvider DEF Inv, TypeOK, PostInv, DispatchNewSubscribe, providerVars, pluginVars,
                     queueVars,
                     serviceVars
<1>3. /\ Head(posted) \in PostedCalls /\ Head(posted) # Appeared /\ Head(posted)[1] \notin Methods
      /\ ks \in SUBSET Keys
  <2>1. Head(posted) \in PostedCalls
    BY <1>2, TailElements
  <2>2. Head(posted) # Appeared
    BY <1>2 DEF Appeared
  <2> QED
    BY <1>1, <1>2, <2>1, <2>2, PostedCallTypes
<1>4. PICK x \in PostedCalls : x = NewSubscribeCall(ks \ {k}) /\ x[1] \notin Methods /\ x[2] = ks \ {k}
  <2>1. ks \ {k} \in SUBSET Keys
    BY <1>3
  <2> QED
    BY <2>1, PostedCallTypes
<1>5. posted' = Tail(posted) \/ posted' = <<x>> \o Tail(posted)
  BY <1>1, <1>4
<1>6. posted' \in Seq(PostedCalls)
  <2>1. Tail(posted) \in Seq(PostedCalls) /\ <<x>> \o Tail(posted) \in Seq(PostedCalls)
    BY <1>2, TailElements, ReplacedElements
  <2> QED
    BY <1>5, <2>1
<1>7. InOrder(posted', callQueue[provider])
  <2>1. InOrder(Tail(posted), callQueue[provider])
    BY <1>2, <1>3, InOrderTail
  <2>2. InOrder(<<x>> \o Tail(posted), callQueue[provider])
    BY <1>2, <1>3, <1>4, InOrderReplaced
  <2> QED
    BY <1>5, <2>1, <2>2
<1>8. ASSUME NEW j \in pendingKeys' PROVE HasKey(posted', j)
  <2>1. j \in pendingKeys /\ j # k /\ HasKey(posted, j)
    BY <1>1, <1>8 DEF NewSubscribe, NoLongerPending, PostInv
  <2>2. CASE posted' = Tail(posted) /\ ks = {k}
    <3>1. j \notin Head(posted)[2]
      BY <1>1, <2>1, <2>2
    <3> QED
      BY <1>2, <1>4, <2>1, <2>2, <3>1, KeysPosted
  <2>3. CASE posted' = <<x>> \o Tail(posted)
    <3>1. j \in Head(posted)[2] => j \in x[2]
      BY <1>1, <1>4, <2>1
    <3> QED
      BY <1>2, <2>1, <2>3, <3>1, KeysPosted
  <2> QED
    BY <1>1, <1>4, <2>2, <2>3
<1>9. Contains(posted, Appeared) => Contains(posted', Appeared)
  <2>1. ASSUME Contains(posted, Appeared) PROVE Contains(Tail(posted), Appeared)
    BY <1>2, <1>3, <2>1, ContainsLater
  <2>2. Tail(posted) \in Seq(PostedCalls) /\ <<x>> \in Seq(PostedCalls)
    BY <1>2, HeadTailProperties
  <2> QED
    BY <1>5, <2>1, <2>2, ContainsOneOf
<1>10. PostInv'
  BY <1>2, <1>6, <1>7, <1>8 DEF PostInv
<1> QED
  BY <1>2, <1>9, <1>10, StateUntouched

LEMMA AppearedDispatched ==
  ASSUME Inv, PostInv, StateInv, DispatchAppeared
  PROVE  PostInv' /\ StateInv'
<1>1. /\ posted \in Seq(PostedCalls) /\ posted # <<>> /\ Head(posted) = Appeared
      /\ posted' = Tail(posted) /\ callQueue[provider] \in SUBSET Methods
      /\ InOrder(posted, callQueue[provider]) /\ OnProviderAppeared(servicePresent)
      /\ UNCHANGED <<servicePresent, pendingKeys, arrived, owned>>
      /\ InLoop
  BY OneProvider DEF Inv, TypeOK, PostInv, DispatchAppeared, listenerVars, wireVars, serviceVars
<1>2. /\ UNCHANGED <<callQueue, plugin, pluginConstructed>>
      /\ servicePresent # NotPresent => pluginState'[provider] = READY
      /\ servicePresent = NotPresent => pluginState'[provider] = FAILED
      /\ UNCHANGED running \/ running' = <<provider, HandleSubscribesCall>>
  <2>1. servicePresent = NotPresent => pluginState'[provider] = pluginState[provider]
    BY <1>1, AppearedEffect
  <2> QED
    BY <1>1, <2>1, AppearedEffect DEF queueVars, StateInv
<1>3. PostInv'
  <2>1. posted' \in Seq(PostedCalls)
    BY <1>1, HeadTailProperties
  <2>2. InOrder(posted', callQueue[provider])
    BY <1>1, InOrderTail, PostedCallTypes
  <2>3. \A k \in pendingKeys : HasKey(posted', k)
    <3>1. Head(posted)[2] = {} /\ Appeared \in PostedCalls
      BY <1>1, PostedCallTypes
    <3> QED
      BY <1>1, <3>1, KeysPosted DEF PostInv
  <2> QED
    BY <1>1, <1>2, <2>1, <2>2, <2>3 DEF PostInv
<1>4. StateInv'
  <2>1. pluginState'[provider] # INITIALIZING
    BY <1>2 DEF READY, FAILED, INITIALIZING
  <2>2. servicePresent' = NotPresent <=> pluginState'[provider] = FAILED
    BY <1>1, <1>2 DEF READY, FAILED
  <2>3. ~pluginConstructed[provider] => running = running' \/ MainIdle
    BY <1>1, <1>2 DEF InLoop
  <2>4. ~pluginConstructed'[provider] => ConstructPluginCall \in callQueue'[provider]
    BY <1>1, <1>2 DEF StateInv, InLoop, MainIdle, Idle
  <2> QED
    BY <1>1, <1>2, <2>1, <2>2, <2>4 DEF StateInv
<1> QED
  BY <1>3, <1>4

\* The plugin is constructed: posted, and at the latest now, is onProviderAppeared.
LEMMA PluginConstructed ==
  ASSUME Inv, PostInv, StateInv,
         ConstructContextKitPlugin \/ \E k \in Keys : AnyBlocks(k)
  PROVE  PostInv' /\ StateInv'
<1>1. /\ callQueue[provider] \in SUBSET Methods
      /\ UNCHANGED <<servicePresent, pendingKeys, arrived, owned>>
  BY OneProvider DEF Inv, TypeOK, ConstructContextKitPlugin, AnyBlocks, listenerVars, wireVars,
                     serviceVars
<1>2. CASE pluginConstructed[provider]
  <2>1. /\ UNCHANGED <<posted, callQueue, plugin, pluginState>>
        /\ pluginConstructed'[provider]
    <3>1. CASE ConstructContextKitPlugin
      BY <1>2, <3>1, ConstructedEffect DEF ConstructContextKitPlugin, ConstructPlugin, queueVars
    <3>2. CASE \E k \in Keys : AnyBlocks(k)
      BY <1>2, <3>2 DEF AnyBlocks, providerVars, queueVars, pluginVars
    <3> QED
      BY <3>1, <3>2
  <2>2. PostInv'
    BY <1>1, <2>1, PostUntouched
  <2> QED
    BY <1>1, <1>2, <2>1, <2>2 DEF StateInv
<1>3. CASE ~pluginConstructed[provider]
  <2>1. /\ posted' = Append(posted, Appeared) /\ UNCHANGED <<callQueue, pluginState>>
        /\ plugin'[provider] /\ pluginConstructed'[provider]
        /\ pluginState[provider] = INITIALIZING /\ ~plugin[provider]
    <3>1. CASE ConstructContextKitPlugin
      BY <1>3, <3>1, ConstructedEffect DEF ConstructContextKitPlugin, ConstructPlugin, queueVars
    <3>2. CASE \E k \in Keys : AnyBlocks(k)
      BY <1>3, <3>2, ConstructedEffect DEF AnyBlocks, BlockUntilSubscribed, queueVars
    <3> QED
      BY <3>1, <3>2
  <2>2. PICK x \in PostedCalls : x = Appeared /\ x[1] \notin Methods
    BY PostedCallTypes
  <2>3. PostInv' /\ Contains(posted', Appeared)
    BY <1>1, <2>1, <2>2, PluginPosts
  <2>4. pluginConstructed'[provider] = plugin'[provider]
    <3>1. Inv'
      <4>1. [Next]_providerVars
        <5>1. CASE ConstructContextKitPlugin
          BY <5>1, PluginAssumption DEF ConstructContextKitPlugin, Next
        <5>2. CASE \E k \in Keys : AnyBlocks(k)
          BY <5>2, <1>3, PluginAssumption DEF AnyBlocks, Next
        <5> QED
          BY <5>1, <5>2
      <4> QED
        BY <4>1, NextInv
    <3>2. plugin'[provider] \in BOOLEAN /\ pluginConstructed'[provider] \in BOOLEAN
      BY <3>1, OneProvider DEF Inv, TypeOK
    <3> QED
      BY <2>1, <3>2
  <2>5. servicePresent' # NotPresent /\ pluginState'[provider] # FAILED
    BY <1>1, <2>1 DEF StateInv, INITIALIZING, FAILED, Unknown, NotPresent
  <2> QED
    BY <1>1, <2>1, <2>3, <2>4, <2>5 DEF StateInv
<1> QED
  BY <1>2, <1>3

LEMMA SchedulesPosted ==
  ASSUME Inv, WireInv, PostInv, StateInv, PluginHandlesSubscribes
  PROVE  PostInv' /\ StateInv'
<1>1. /\ UNCHANGED <<callQueue, plugin, pluginConstructed, pluginState>>
      /\ UNCHANGED <<servicePresent, arrived, owned>>
      /\ running = <<provider, HandleSubscribesCall>>
      /\ posted \in Seq(PostedCalls) /\ toSubscribe[provider] \in SUBSET Keys
  BY OneProvider DEF Inv, TypeOK, PostInv, PluginHandlesSubscribes, HandleSubscribes, pluginVars,
                     queueVars, serviceVars
<1>2. CASE UNCHANGED posted
  <2>1. pendingKeys' \subseteq pendingKeys
    <3>1. pluginState[provider] = READY /\ toSubscribe[provider] # {}
            => posted' = Append(posted, NewSubscribeCall(toSubscribe[provider]))
      BY DEF PluginHandlesSubscribes, PluginSubscribes
    <3>2. PICK x \in PostedCalls : x = NewSubscribeCall(toSubscribe[provider])
      BY <1>1, PostedCallTypes
    <3>3. Append(posted, x) # posted
      BY <1>1, AppendProperties
    <3>4. pluginState[provider] # READY \/ toSubscribe[provider] = {}
      BY <1>2, <3>1, <3>2, <3>3
    <3> QED
      BY <3>4 DEF PluginHandlesSubscribes, PluginSubscribes
  <2> QED
    BY <1>1, <1>2, <2>1, PostUntouched, StateUntouched
<1>3. CASE ~UNCHANGED posted
  <2>1. /\ posted' = Append(posted, NewSubscribeCall(toSubscribe[provider]))
        /\ pendingKeys' = pendingKeys \cup toSubscribe[provider]
    BY <1>3 DEF PluginHandlesSubscribes, PluginSubscribes
  <2>2. PICK x \in PostedCalls : /\ x = NewSubscribeCall(toSubscribe[provider])
                                 /\ x[1] \notin Methods /\ x[2] = toSubscribe[provider]
    BY <1>1, PostedCallTypes
  <2>3. PostInv' /\ (Contains(posted, Appeared) => Contains(posted', Appeared))
    BY <1>1, <2>1, <2>2, PluginPosts
  <2> QED
    BY <1>1, <2>3, StateUntouched
<1> QED
  BY <1>2, <1>3

\* What happens on the wire.
LEMMA NoticeDispatched ==
  ASSUME Inv, WireInv, PostInv, StateInv, SetServicePresent \/ SetServiceGone
  PROVE  PostInv' /\ StateInv'
<1>1. /\ UNCHANGED <<posted, pendingKeys, owned>>
      /\ arrived \in Seq(Arrivals) /\ arrived # <<>> /\ arrived' = Tail(arrived)
      /\ Contains(arrived, Head(arrived)) /\ Head(arrived) \in {NameAppeared, NameGone}
      /\ MainIdle
  <2>1. arrived \in Seq(Arrivals) /\ arrived # <<>> /\ Head(arrived) \in {NameAppeared, NameGone}
    BY DEF SetServicePresent, SetServiceGone, WireInv, WireTypes
  <2>2. 1 \in DOMAIN arrived /\ Head(arrived) = arrived[1]
    BY <2>1, TailElements
  <2>3. Contains(arrived, Head(arrived))
    BY <2>1, <2>2, TailElements DEF Contains
  <2> QED
    BY <2>1, <2>3 DEF SetServicePresent, SetServiceGone, InLoop, serviceVars
<1>2. plugin[provider] /\ pluginConstructed[provider]
  BY <1>1 DEF StateInv
<1>3. /\ UNCHANGED <<callQueue, plugin, pluginConstructed>>
      /\ pluginState'[provider] = FAILED <=> servicePresent' = NotPresent
      /\ servicePresent' \in {Unknown, Present, NotPresent}
      /\ pluginState'[provider] = INITIALIZING => pluginState[provider] = INITIALIZING
  <2>1. CASE SetServicePresent /\ servicePresent = Present
    BY <2>1 DEF SetServicePresent, providerVars, queueVars, pluginVars, StateInv
  <2>2. CASE SetServicePresent /\ servicePresent # Present
    <3>1. OnProviderAppeared(Present) /\ servicePresent' = Present
      BY <2>2 DEF SetServicePresent
    <3>2. Present # NotPresent /\ READY # FAILED /\ READY # INITIALIZING
      BY DEF Present, NotPresent, READY, FAILED, INITIALIZING
    <3>3. UNCHANGED <<callQueue, plugin, pluginConstructed>> /\ pluginState'[provider] = READY
      BY <3>1, <3>2, AppearedEffect DEF queueVars
    <3> QED
      BY <3>1, <3>2, <3>3
  <2>3. CASE SetServiceGone /\ servicePresent # NotPresent
    <3>1. OnPluginFailed(provider) /\ servicePresent' = NotPresent
      BY <2>3 DEF SetServiceGone, GoneIsNews, OnProviderDisappeared
    <3>2. UNCHANGED <<callQueue, plugin, pluginConstructed>> /\ pluginState'[provider] = FAILED
      BY <3>1, FailedEffect DEF queueVars
    <3> QED
      BY <3>1, <3>2 DEF FAILED, INITIALIZING
  <2>4. CASE SetServiceGone /\ servicePresent = NotPresent
    BY <2>4 DEF SetServiceGone, GoneIsNews, providerVars, queueVars, pluginVars, StateInv
  <2> QED
    BY <2>1, <2>2, <2>3, <2>4
<1>4. PostInv'
  BY <1>1, <1>3, PostUntouched
<1> QED
  BY <1>1, <1>2, <1>3, <1>4 DEF StateInv

LEMMA FinishedState ==
  ASSUME Inv, WireInv, PostInv, StateInv, DispatchReply \/ \E k \in Keys : BlockForReply(k)
  PROVE  PostInv' /\ StateInv'
<1>1. /\ arrived \in Seq(Arrivals)
      /\ UNCHANGED <<posted, pendingKeys, servicePresent, owned>>
  BY DEF WireInv, WireTypes, DispatchReply, BlockForReply, serviceVars
<1>2. /\ \E r \in Replies : OnFinished(r)
      /\ \A e : Contains(arrived', e) => Contains(arrived, e)
  <2>1. CASE DispatchReply
    <3>1. arrived # <<>> /\ arrived' = Tail(arrived)
      BY <2>1 DEF DispatchReply
    <3>2. PICK r : r = Head(arrived)
      OBVIOUS
    <3>3. r \in Arrivals /\ "reply" \in DOMAIN r /\ OnFinished(r)
      BY <1>1, <2>1, <3>1, <3>2, TailElements DEF DispatchReply
    <3>4. r \in Replies
      BY <3>3, RepliesAreReplies
    <3> QED
      BY <1>1, <3>1, <3>3, <3>4, ContainsBefore
  <2>2. ASSUME NEW k \in Keys, BlockForReply(k)
        PROVE  /\ \E r \in Replies : OnFinished(r)
               /\ \A e : Contains(arrived', e) => Contains(arrived, e)
    <3>1. PICK i \in DOMAIN arrived : /\ arrived[i] \in {Reply(k, TRUE), Reply(k, FALSE)}
                                      /\ OnFinished(arrived[i])
                                      /\ arrived' = RemoveAt(arrived, i)
      BY <2>2 DEF BlockForReply
    <3>2. PICK r : r = arrived[i]
      OBVIOUS
    <3>3. r \in Replies /\ OnFinished(r)
      BY <3>1, <3>2, RepliesDiffer
    <3>4. i \in 1 .. Len(arrived)
      BY <1>1
    <3> QED
      BY <1>1, <3>1, <3>3, <3>4, ContainsBefore
  <2> QED
    BY <2>1, <2>2
<1>3. UNCHANGED <<callQueue, plugin, pluginConstructed, pluginState>> /\ MainIdle
  BY <1>2, FinishedEffect DEF queueVars, pluginVars
<1> QED
  BY <1>1, <1>2, <1>3, PostUntouched, StateUntouched

LEMMA StoredState ==
  ASSUME Inv, PostInv, StateInv, NEW k \in Keys, ProviderStoresValue(k)
  PROVE  PostInv' /\ StateInv'
BY StoredEffect, PostUntouched, StateUntouched
   DEF queueVars, pluginVars, listenerVars, wireVars, serviceVars

LEMMA BlockedState ==
  ASSUME Inv, WireInv, PostInv, StateInv,
         NEW k \in Keys, BlockUntilReady(k) \/ BlockForCalls(k)
  PROVE  PostInv' /\ StateInv'
<1>1. UNCHANGED <<posted, servicePresent, arrived, owned>>
  BY DEF BlockUntilReady, BlockForCalls, listenerVars, wireVars, serviceVars
<1>2. CASE BlockUntilReady(k)
  <2>1. OnProviderAppeared(servicePresent) /\ UNCHANGED pendingKeys /\ MainIdle
    BY <1>2 DEF BlockUntilReady, listenerVars
  <2>2. /\ UNCHANGED <<callQueue, plugin, pluginConstructed>>
        /\ \/ UNCHANGED pluginState
           \/ servicePresent # NotPresent /\ pluginState'[provider] = READY
    BY <2>1, AppearedEffect DEF queueVars
  <2>3. PostInv'
    BY <1>1, <2>1, <2>2, PostUntouched
  <2>4. ~pluginConstructed'[provider] => ConstructPluginCall \in callQueue'[provider]
    BY <2>1, <2>2 DEF StateInv, MainIdle, Idle
  <2>5. plugin'[provider] /\ pluginState'[provider] = INITIALIZING => Contains(posted', Appeared)
    BY <1>1, <2>2 DEF StateInv, READY, INITIALIZING
  <2>6. servicePresent' = NotPresent <=> pluginState'[provider] = FAILED
    BY <1>1, <2>2 DEF StateInv, READY, FAILED
  <2> QED
    BY <1>1, <2>2, <2>3, <2>4, <2>5, <2>6 DEF StateInv
<1>3. CASE BlockForCalls(k)
  <2>1. UNCHANGED <<callQueue, plugin, pluginConstructed, pluginState, running>>
    BY <1>3 DEF BlockForCalls, providerVars, queueVars, pluginVars
  <2>2. pendingKeys' \subseteq pendingKeys
    BY <1>3 DEF BlockForCalls, NewSubscribe, NoLongerPending
  <2> QED
    BY <1>1, <2>1, <2>2, PostUntouched, StateUntouched
<1> QED
  BY <1>2, <1>3

LEMMA ServiceState ==
  ASSUME Inv, WireInv, PostInv, StateInv,
         ServiceAnswers \/ BusAnswers \/ ServiceStarts \/ ServiceStops
  PROVE  PostInv' /\ StateInv'
<1>1. /\ arrived \in Seq(Arrivals)
      /\ UNCHANGED <<posted, pendingKeys, servicePresent, callQueue, plugin, pluginConstructed>>
      /\ UNCHANGED <<pluginState, running>>
  BY DEF WireInv, WireTypes, ServiceAnswers, BusAnswers, ServiceStarts, ServiceStops, listenerVars,
         providerVars, queueVars, pluginVars
<1>2. PostInv'
  BY <1>1, PostUntouched
<1>3. CASE ServiceAnswers \/ BusAnswers
  <2>1. /\ calls \in Seq(Calls) /\ calls # <<>> /\ UNCHANGED owned
    BY <1>3 DEF WireInv, WireTypes, ServiceAnswers, BusAnswers, serviceVars
  <2>2. Head(calls) \in Calls /\ Head(calls).key \in Keys
    <3>1. Head(calls) \in Calls /\ \A h \in Calls : h.key \in Keys
      BY <2>1, TailElements DEF Calls
    <3> QED
      BY <3>1
  <2>3. PICK r \in Replies : arrived' = arrived \/ arrived' = Append(arrived, r)
    BY <1>3, <2>2, RepliesDiffer DEF ServiceAnswers, BusAnswers
  <2>4. r \in Arrivals /\ r # NameAppeared /\ r # NameGone
    BY NoticesAreNoReplies DEF Arrivals
  <2>5. \A e : e # r /\ Contains(arrived', e) => Contains(arrived, e)
    BY <1>1, <2>3, <2>4, AppendElements DEF Contains
  <2> QED
    BY <1>1, <1>2, <2>1, <2>4, <2>5, StateUntouched
<1>4. CASE ServiceStarts \/ ServiceStops
  <2>1. ~plugin[provider] => UNCHANGED arrived /\ (ServiceFirst => owned')
    BY <1>4 DEF ServiceStarts, ServiceStops, Announces, StateInv
  <2> QED
    BY <1>1, <1>2, <2>1 DEF StateInv
<1> QED
  BY <1>3, <1>4

LEMMA StateNext ==
  ASSUME Inv, WireInv, PostInv, StateInv, [WholeNext]_wholeVars
  PROVE  PostInv' /\ StateInv'
<1>1. CASE UNCHANGED wholeVars
  BY <1>1, PostUntouched, StateUntouched
     DEF wholeVars, providerVars, queueVars, pluginVars, listenerVars, wireVars, serviceVars
<1> QED
  BY <1>1, IntentPosted, ProviderCallDispatched, NewSubscribeDispatched, AppearedDispatched,
     PluginConstructed, SchedulesPosted, NoticeDispatched, FinishedState, BlockedState,
     ServiceState,
     StoredState DEF WholeNext

-----------------------------------------------------------------------------
(* What the plugin knows of its service, and what the service knows of it  *)

\* The latest notice is the last to arrive, and it does if it is not known yet.
Told(s, old, latest, unknown) ==
  After(s, old, latest) /\ (unknown => Contains(s, latest))

\* The bus leaves the plugin in no doubt about a service that was there first.
NoticeInv ==
  ServiceFirst =>
    IF owned THEN Told(arrived, NameGone, NameAppeared, servicePresent = NotPresent)
    ELSE Told(arrived, NameAppeared, NameGone, servicePresent # NotPresent)

\* What a ready plugin was asked for, and has not been asked to give up.
Asked(k) == k \in (subscribedKeys[provider] \ toSubscribe[provider]) \cup toUnsubscribe[provider]

Sub(k)   == Call(SubscribeCall, k)
Unsub(k) == Call(UnsubscribeCall, k)

\* The service has the key, or will have it when it has answered the calls under way.
Kept(k) ==
  After(calls, Unsub(k), Sub(k)) /\ (k \in clientKeys \/ Contains(calls, Sub(k)))

\* Unless news of a failure is under way, every key the plugin was asked for is
\* still pending or kept.
AskedInv ==
  ServiceFirst /\ pluginState[provider] = READY /\ ~Contains(arrived, NameGone) =>
    \A k \in Keys : Asked(k) => k \in pendingKeys \/ Kept(k)

LEMMA ToldLater ==
  ASSUME NEW S, NEW s \in Seq(S), s # <<>>, NEW old, NEW latest, NEW unknown \in BOOLEAN
  PROVE  /\ Told(s, old, latest, unknown) /\ Head(s) # latest => Told(Tail(s), old, latest, unknown)
         /\ Told(s, old, latest, unknown) => Told(Tail(s), old, latest, FALSE)
         /\ Told(s, old, latest, unknown) /\ Head(s) = old => Told(Tail(s), old, latest, TRUE)
BY AfterLater, ContainsLater DEF Told

LEMMA ToldAppended ==
  ASSUME NEW S, NEW s \in Seq(S), NEW e \in S, NEW old, NEW latest, NEW unknown \in BOOLEAN,
         old # e, Told(s, old, latest, unknown) \/ latest = e
  PROVE  Told(Append(s, e), old, latest, unknown)
BY AfterAppended, ContainsAppended DEF Told

LEMMA ToldElsewhere ==
  ASSUME NEW S, NEW s \in Seq(S), NEW i \in 1 .. Len(s), NEW old, NEW latest,
         NEW unknown \in BOOLEAN, s[i] # latest, Told(s, old, latest, unknown)
  PROVE  Told(RemoveAt(s, i), old, latest, unknown)
BY AfterElsewhere, ContainsElsewhere DEF Told

\* What a reply that is taken, or comes, does to the notices around it.
LEMMA RepliesAmongNotices ==
  ASSUME WireInv,
         \/ DispatchReply
         \/ \E k \in Keys : BlockForReply(k)
         \/ ServiceAnswers \/ BusAnswers
  PROVE  /\ \A old, latest \in {NameAppeared, NameGone} : \A unknown \in BOOLEAN :
              Told(arrived, old, latest, unknown) => Told(arrived', old, latest, unknown)
         /\ Contains(arrived, NameGone) => Contains(arrived', NameGone)
<1>1. arrived \in Seq(Arrivals) /\ calls \in Seq(Calls) /\ Replies \subseteq Arrivals
  BY DEF WireInv, WireTypes, Arrivals
<1>2. \A r \in Replies : r # NameAppeared /\ r # NameGone
  BY NoticesAreNoReplies
<1>3. CASE DispatchReply
  <2>1. arrived # <<>> /\ arrived' = Tail(arrived)
    BY <1>3 DEF DispatchReply
  <2>2. PICK r : r = Head(arrived)
    OBVIOUS
  <2>3. r \in Arrivals /\ "reply" \in DOMAIN r
    BY <1>1, <1>3, <2>1, <2>2, TailElements DEF DispatchReply
  <2>4. Head(arrived) # NameAppeared /\ Head(arrived) # NameGone
    BY <1>2, <2>2, <2>3, RepliesAreReplies
  <2> QED
    BY <1>1, <2>1, <2>4, ToldLater, ContainsLater
<1>4. ASSUME NEW k \in Keys, BlockForReply(k)
      PROVE  /\ \A old, latest \in {NameAppeared, NameGone} : \A unknown \in BOOLEAN :
                  Told(arrived, old, latest, unknown) => Told(arrived', old, latest, unknown)
             /\ Contains(arrived, NameGone) => Contains(arrived', NameGone)
  <2>1. PICK i \in DOMAIN arrived : /\ arrived[i] \in {Reply(k, TRUE), Reply(k, FALSE)}
                                    /\ arrived' = RemoveAt(arrived, i)
    BY <1>4 DEF BlockForReply
  <2>2. i \in 1 .. Len(arrived) /\ arrived[i] # NameAppeared /\ arrived[i] # NameGone
    <3>1. i \in 1 .. Len(arrived)
      BY <1>1
    <3>2. Reply(k, TRUE) \in Replies /\ Reply(k, FALSE) \in Replies
      BY RepliesDiffer
    <3> QED
      BY <1>2, <2>1, <3>1, <3>2
  <2> QED
    BY <1>1, <2>1, <2>2, ToldElsewhere, ContainsElsewhere
<1>5. CASE ServiceAnswers \/ BusAnswers
  <2>1. calls # <<>>
    BY <1>5 DEF ServiceAnswers, BusAnswers
  <2>2. Head(calls) \in Calls /\ Head(calls).key \in Keys
    <3>1. Head(calls) \in Calls /\ \A h \in Calls : h.key \in Keys
      BY <1>1, <2>1, TailElements DEF Calls
    <3> QED
      BY <3>1
  <2>3. PICK r \in Replies : arrived' = arrived \/ arrived' = Append(arrived, r)
    BY <1>5, <2>2, RepliesDiffer DEF ServiceAnswers, BusAnswers
  <2>4. r \in Arrivals /\ r # NameAppeared /\ r # NameGone
    BY <1>1, <1>2
  <2> QED
    BY <1>1, <2>3, <2>4, ToldAppended, ContainsAppended
<1> QED
  BY <1>3, <1>4, <1>5

LEMMA NoticeNext ==
  ASSUME Inv, WireInv, StateInv, NoticeInv, [WholeNext]_wholeVars
  PROVE  NoticeInv'
<1> SUFFICES ASSUME ServiceFirst PROVE NoticeInv'
  BY DEF NoticeInv
<1>0. /\ arrived \in Seq(Arrivals) /\ NameAppeared \in Arrivals /\ NameGone \in Arrivals
      /\ NameAppeared # NameGone
  BY NoticesAreNoReplies DEF WireInv, WireTypes, Arrivals
<1>1. CASE UNCHANGED <<arrived, owned, servicePresent>>
  BY <1>1 DEF NoticeInv
<1>2. CASE \/ DispatchReply \/ ServiceAnswers \/ BusAnswers
           \/ \E k \in Keys : BlockForReply(k)
  <2>1. UNCHANGED <<owned, servicePresent>>
    BY <1>2 DEF DispatchReply, ServiceAnswers, BusAnswers, BlockForReply, serviceVars, listenerVars
  <2> QED
    BY <1>2, <2>1, RepliesAmongNotices DEF NoticeInv
<1>3. CASE SetServicePresent
  <2>1. /\ arrived # <<>> /\ Head(arrived) = NameAppeared /\ arrived' = Tail(arrived)
        /\ UNCHANGED owned /\ servicePresent' # NotPresent
    BY <1>3 DEF SetServicePresent, serviceVars, Present, NotPresent
  <2>2. CASE owned
    <3>1. Told(arrived', NameGone, NameAppeared, FALSE)
      BY <1>0, <2>1, <2>2, ToldLater DEF NoticeInv
    <3> QED
      BY <2>1, <2>2, <3>1 DEF NoticeInv
  <2>3. CASE ~owned
    <3>1. Told(arrived', NameAppeared, NameGone, TRUE)
      BY <1>0, <2>1, <2>3, ToldLater DEF NoticeInv
    <3> QED
      BY <2>1, <2>3, <3>1 DEF NoticeInv
  <2> QED
    BY <2>2, <2>3
<1>4. CASE SetServiceGone
  <2>1. /\ arrived # <<>> /\ Head(arrived) = NameGone /\ arrived' = Tail(arrived)
        /\ UNCHANGED owned /\ servicePresent' = NotPresent
    BY <1>4 DEF SetServiceGone, GoneIsNews, serviceVars
  <2>2. CASE owned
    <3>1. Told(arrived', NameGone, NameAppeared, TRUE)
      BY <1>0, <2>1, <2>2, ToldLater DEF NoticeInv
    <3> QED
      BY <2>1, <2>2, <3>1 DEF NoticeInv
  <2>3. CASE ~owned
    <3>1. Told(arrived', NameAppeared, NameGone, FALSE)
      BY <1>0, <2>1, <2>3, ToldLater DEF NoticeInv
    <3> QED
      BY <2>1, <2>3, <3>1 DEF NoticeInv
  <2> QED
    BY <2>2, <2>3
<1>5. CASE ServiceStarts
  <2>1. /\ ~owned /\ owned' /\ UNCHANGED servicePresent /\ plugin[provider]
        /\ arrived' = Append(arrived, NameAppeared)
    BY <1>5 DEF ServiceStarts, Announces, StateInv, listenerVars
  <2>2. Told(arrived', NameGone, NameAppeared, TRUE)
    BY <1>0, <2>1, ToldAppended
  <2> QED
    BY <2>1, <2>2 DEF NoticeInv, Told
<1>6. CASE ServiceStops
  <2>1. /\ owned /\ ~owned' /\ UNCHANGED servicePresent
        /\ arrived' = Append(arrived, NameGone)
    BY <1>6 DEF ServiceStops, Announces, listenerVars
  <2>2. Told(arrived', NameAppeared, NameGone, TRUE)
    BY <1>0, <2>1, ToldAppended
  <2> QED
    BY <2>1, <2>2 DEF NoticeInv, Told
<1>7. ASSUME NEW k \in Keys, \/ AnySubscribes(k) \/ AnyUnsubscribes(k) \/ AnyBlocks(k)
                             \/ BlockUntilReady(k) \/ BlockForCalls(k)
      PROVE  UNCHANGED <<arrived, owned, servicePresent>>
  BY <1>7 DEF AnySubscribes, AnyUnsubscribes, AnyBlocks, BlockUntilReady, BlockForCalls,
              listenerVars, wireVars, serviceVars
<1>8. ASSUME \/ DispatchProviderCall \/ DispatchNewSubscribe \/ DispatchAppeared
             \/ ConstructContextKitPlugin \/ PluginHandlesSubscribes \/ UNCHANGED wholeVars
      PROVE  UNCHANGED <<arrived, owned, servicePresent>>
  BY <1>8 DEF DispatchProviderCall, DispatchNewSubscribe, DispatchAppeared,
              ConstructContextKitPlugin, PluginHandlesSubscribes, wholeVars,
              listenerVars, wireVars, serviceVars
<1>9. ASSUME NEW k \in Keys, ProviderStoresValue(k)
      PROVE  UNCHANGED <<arrived, owned, servicePresent>>
  BY <1>9, StoredEffect DEF listenerVars, wireVars, serviceVars
<1> QED
  BY <1>1, <1>2, <1>3, <1>4, <1>5, <1>6, <1>7, <1>8, <1>9 DEF WholeNext

\* Calls of one method, for some keys.
LEMMA CallsOfOneMethod ==
  ASSUME NEW m \in {SubscribeCall, UnsubscribeCall}, NEW ks \in SUBSET Keys,
         NEW order \in SetToSeqs(ks), NEW k \in Keys, NEW n \in {SubscribeCall, UnsubscribeCall},
         Contains([i \in DOMAIN order |-> Call(m, order[i])], Call(n, k))
  PROVE  n = m /\ k \in ks
<1> DEFINE out == [i \in DOMAIN order |-> Call(m, order[i])]
<1>1. PICK i \in DOMAIN out : out[i] = Call(n, k)
  BY DEF Contains
<1>2. order[i] \in ks
  <2>1. order \in [1 .. Cardinality(ks) -> ks]
    BY DEF SetToSeqs
  <2> QED
    BY <1>1, <2>1
<1>3. Call(m, order[i]) = Call(n, k)
  BY <1>1
<1>4. order[i] = k /\ m = n
  BY <1>3 DEF Call
<1> QED
  BY <1>2, <1>4

\* Calls that go out: a key is kept unless it is in an Unsubscribe.
LEMMA KeptByCalls ==
  ASSUME WireInv, NEW m \in {SubscribeCall, UnsubscribeCall}, NEW ks \in SUBSET Keys,
         NEW order \in SetToSeqs(ks), UNCHANGED clientKeys, NEW k \in Keys,
         calls' = calls \o [i \in DOMAIN order |-> Call(m, order[i])],
         \/ Kept(k) /\ (m = UnsubscribeCall => k \notin ks)
         \/ m = SubscribeCall /\ k \in ks
  PROVE  Kept(k)'
<1>1. PICK out : out = [i \in DOMAIN order |-> Call(m, order[i])]
  OBVIOUS
<1>2. out \in Seq(Calls) /\ \A j \in ks : Contains(out, Call(m, j))
  BY <1>1, CallsForAll
<1>3. calls \in Seq(Calls) /\ calls' = calls \o out
  BY <1>1 DEF WireInv, WireTypes
<1>4. ~Contains(out, Unsub(k))
  <2>1. Contains(out, Unsub(k)) => UnsubscribeCall = m /\ k \in ks
    BY <1>1, CallsOfOneMethod DEF Unsub
  <2>2. SubscribeCall # UnsubscribeCall
    BY DEF SubscribeCall, UnsubscribeCall
  <2> QED
    BY <2>1, <2>2
<1>5. CASE Kept(k)
  <2>1. After(calls \o out, Unsub(k), Sub(k))
    BY <1>2, <1>3, <1>4, <1>5, AfterConcatenated DEF Kept
  <2>2. Contains(calls, Sub(k)) => Contains(calls \o out, Sub(k))
    BY <1>2, <1>3, ContainsOneOf
  <2> QED
    BY <1>3, <1>5, <2>1, <2>2 DEF Kept, Sub, Unsub
<1>6. CASE m = SubscribeCall /\ k \in ks
  <2>1. Contains(out, Sub(k))
    BY <1>2, <1>6 DEF Sub
  <2>2. After(calls \o out, Unsub(k), Sub(k)) /\ Contains(calls \o out, Sub(k))
    BY <1>2, <1>3, <1>4, <2>1, AfterConcatenated, ContainsOneOf
  <2> QED
    BY <1>3, <2>2 DEF Kept, Sub, Unsub
<1> QED
  BY <1>5, <1>6

\* The service answers a call: what is kept stays kept.
LEMMA KeptByService ==
  ASSUME WireInv, ServiceAnswers, NEW k \in Keys, Kept(k)
  PROVE  Kept(k)'
<1>1. calls \in Seq(Calls) /\ calls # <<>> /\ calls' = Tail(calls)
  BY DEF WireInv, WireTypes, ServiceAnswers
<1>2. PICK h \in Calls : h = Head(calls)
  BY <1>1, TailElements
<1>3. /\ clientKeys' = IF h.call = SubscribeCall THEN clientKeys \cup {h.key}
                       ELSE clientKeys \ {h.key}
      /\ h.key \in Keys
  BY <1>2 DEF ServiceAnswers, Calls
<1>4. /\ h = Sub(k) => h.call = SubscribeCall /\ h.key = k
      /\ h.call # SubscribeCall /\ h.key = k => h = Unsub(k)
  BY DEF Sub, Unsub, Call, Calls
<1>5. /\ After(Tail(calls), Unsub(k), Sub(k))
      /\ h = Unsub(k) => Contains(Tail(calls), Sub(k))
  BY <1>1, <1>2, AfterLater DEF Kept
<1>6. k \in clientKeys' \/ Contains(Tail(calls), Sub(k))
  <2>1. CASE k \in clientKeys
    BY <1>3, <1>4, <1>5, <2>1
  <2>2. CASE Contains(calls, Sub(k))
    <3>1. CASE h = Sub(k)
      BY <1>3, <1>4, <3>1
    <3>2. CASE h # Sub(k)
      BY <1>1, <1>2, <2>2, <3>2, ContainsLater
    <3> QED
      BY <3>1, <3>2
  <2> QED
    BY <2>1, <2>2 DEF Kept
<1> QED
  BY <1>1, <1>5, <1>6 DEF Kept, Sub, Unsub

\* The schedule does not lose a key that the plugin was asked for.
LEMMA AskedByIntent ==
  ASSUME Inv, NEW j \in Keys, AnySubscribes(j) \/ AnyUnsubscribes(j), NEW k \in Keys, Asked(k)'
  PROVE  Asked(k)
<1>1. /\ subscribedKeys \in [Providers -> SUBSET Keys] /\ toSubscribe \in [Providers -> SUBSET Keys]
      /\ toUnsubscribe \in [Providers -> SUBSET Keys]
      /\ toSubscribe[provider] \subseteq subscribedKeys[provider]
      /\ toUnsubscribe[provider] \cap subscribedKeys[provider] = {}
  BY OneProvider DEF Inv, TypeOK, ScheduleInv
<1>2. CASE AnySubscribes(j)
  <2>1. /\ subscribedKeys'[provider] = subscribedKeys[provider] \cup {j}
        /\ IF j \notin toUnsubscribe[provider]
           THEN /\ toSubscribe'[provider] = toSubscribe[provider] \cup {j}
                /\ toUnsubscribe'[provider] = toUnsubscribe[provider]
           ELSE /\ toSubscribe'[provider] = toSubscribe[provider]
                /\ toUnsubscribe'[provider] = toUnsubscribe[provider] \ {j}
    BY <1>1, <1>2, OneProvider DEF AnySubscribes, Subscribe, DoSubscribe, SubscribeReturns
  <2> QED
    BY <1>1, <2>1 DEF Asked
<1>3. CASE AnyUnsubscribes(j)
  <2>1. /\ j \in subscribedKeys[provider]
        /\ subscribedKeys'[provider] = subscribedKeys[provider] \ {j}
        /\ IF j \in toSubscribe[provider]
           THEN /\ toSubscribe'[provider] = toSubscribe[provider] \ {j}
                /\ toUnsubscribe'[provider] = toUnsubscribe[provider]
           ELSE /\ toSubscribe'[provider] = toSubscribe[provider]
                /\ toUnsubscribe'[provider] = toUnsubscribe[provider] \cup {j}
    BY <1>1, <1>3, OneProvider DEF AnyUnsubscribes, Unsubscribe, DoUnsubscribe
  <2> QED
    BY <1>1, <2>1 DEF Asked
<1> QED
  BY <1>2, <1>3

\* No step that leaves the calls and the service alone loses a key.
LEMMA AskedUntouched ==
  ASSUME AskedInv, UNCHANGED <<pendingKeys, calls, clientKeys>>,
         pluginState'[provider] = READY => \A k \in Keys : Asked(k)' => Asked(k),
         pluginState'[provider] = READY /\ (\E k \in Keys : Asked(k)') => pluginState[provider] = READY,
         Contains(arrived, NameGone) => Contains(arrived', NameGone)
  PROVE  AskedInv'
BY DEF AskedInv, Kept, Sub, Unsub

\* newSubscribe turns pending keys into calls.
LEMMA AskedByNewSubscribe ==
  ASSUME WireInv, AskedInv, NEW ks \in SUBSET Keys, NewSubscribe(ks),
         UNCHANGED <<subscribedKeys, toSubscribe, toUnsubscribe, pluginState, arrived, clientKeys>>
  PROVE  AskedInv'
<1>1. PICK order \in SetToSeqs(ks) :
        calls' = calls \o [i \in DOMAIN order |-> Call(SubscribeCall, order[i])]
  BY DEF NewSubscribe
<1>2. pendingKeys' = pendingKeys \ ks
  BY DEF NewSubscribe, NoLongerPending
<1>3. SubscribeCall # UnsubscribeCall
  BY DEF SubscribeCall, UnsubscribeCall
<1>4. ASSUME NEW k \in Keys, Kept(k) \/ k \in ks PROVE Kept(k)'
  BY <1>1, <1>3, <1>4, KeptByCalls
<1> QED
  BY <1>2, <1>4 DEF AskedInv, Asked

LEMMA AskedBySchedule ==
  ASSUME Inv, WireInv, AskedInv, PluginHandlesSubscribes
  PROVE  AskedInv'
<1>1. /\ toSubscribe \in [Providers -> SUBSET Keys] /\ toUnsubscribe \in [Providers -> SUBSET Keys]
      /\ toUnsubscribe[provider] \cap subscribedKeys[provider] = {}
      /\ toUnsubscribe[provider] \in SUBSET Keys
  BY OneProvider DEF Inv, TypeOK, ScheduleInv
<1>2. UNCHANGED <<pluginState, subscribedKeys, arrived, clientKeys>>
  BY DEF PluginHandlesSubscribes, HandleSubscribes, pluginVars, serviceVars
<1>3. CASE pluginState[provider] # READY
  BY <1>2, <1>3 DEF AskedInv
<1>4. CASE pluginState[provider] = READY
  <2>1. toSubscribe'[provider] = {} /\ toUnsubscribe'[provider] = {}
    <3>1. /\ toSubscribe' = [toSubscribe EXCEPT ![provider] = {}]
          /\ toUnsubscribe' = [toUnsubscribe EXCEPT ![provider] = {}]
      BY <1>4 DEF PluginHandlesSubscribes, HandleSubscribes, HandleSubscribesReady,
                  HandleSubscribesFailed, HandleSubscribesInitializing, READY, FAILED, INITIALIZING
    <3> QED
      BY <1>1, <3>1, OneProvider
  <2>2. pendingKeys' = pendingKeys \cup toSubscribe[provider]
    BY <1>4 DEF PluginHandlesSubscribes, PluginSubscribes
  <2>3. PICK order \in SetToSeqs(toUnsubscribe[provider]) :
          calls' = calls \o [i \in DOMAIN order |-> Call(UnsubscribeCall, order[i])]
    BY <1>4 DEF PluginHandlesSubscribes, PluginUnsubscribes
  <2>4. ASSUME ServiceFirst, ~Contains(arrived, NameGone), NEW k \in Keys, Asked(k)'
        PROVE  k \in pendingKeys' \/ Kept(k)'
    <3>1. k \in subscribedKeys[provider]
      BY <1>2, <2>1, <2>4 DEF Asked
    <3>2. CASE k \in toSubscribe[provider] \cup pendingKeys
      BY <2>2, <3>2
    <3>3. CASE k \notin toSubscribe[provider] \cup pendingKeys
      <4>1. Kept(k)
        BY <1>4, <2>4, <3>1, <3>3 DEF AskedInv, Asked
      <4>2. k \notin toUnsubscribe[provider]
        BY <1>1, <3>1
      <4> QED
        BY <1>1, <1>2, <2>3, <4>1, <4>2, KeptByCalls
    <3> QED
      BY <3>2, <3>3
  <2> QED
    BY <1>2, <2>4 DEF AskedInv
<1> QED
  BY <1>3, <1>4

\* A ready that counts asks for everything anew.
LEMMA AskedByReady ==
  ASSUME Inv, AskedInv, NEW present, OnProviderAppeared(present),
         UNCHANGED <<pendingKeys, calls, clientKeys>>,
         Contains(arrived, NameGone) => Contains(arrived', NameGone)
  PROVE  AskedInv'
<1>1. CASE UNCHANGED <<subscribedKeys, toSubscribe, toUnsubscribe, pluginState>>
  BY <1>1, AskedUntouched DEF Asked
<1>2. CASE ~UNCHANGED <<subscribedKeys, toSubscribe, toUnsubscribe, pluginState>>
  <2>1. /\ toSubscribe'[provider] = subscribedKeys[provider] /\ toUnsubscribe'[provider] = {}
        /\ subscribedKeys' = subscribedKeys
    BY <1>2, AppearedEffect
  <2>2. \A k \in Keys : ~Asked(k)'
    BY <2>1 DEF Asked
  <2> QED
    BY <2>2, AskedUntouched
<1> QED
  BY <1>1, <1>2

LEMMA AskedByService ==
  ASSUME WireInv, StateInv, NoticeInv, AskedInv,
         ServiceAnswers \/ BusAnswers \/ ServiceStarts \/ ServiceStops
  PROVE  AskedInv'
<1>0. UNCHANGED <<pendingKeys, subscribedKeys, toSubscribe, toUnsubscribe, pluginState,
servicePresent>>
  BY DEF ServiceAnswers, BusAnswers, ServiceStarts, ServiceStops, providerVars, scheduleVars,
         pluginVars, listenerVars
<1>1. arrived \in Seq(Arrivals) /\ NameAppeared \in Arrivals /\ NameGone \in Arrivals
  BY DEF WireInv, WireTypes, Arrivals
<1>2. CASE ServiceAnswers
  <2>1. Contains(arrived, NameGone) => Contains(arrived', NameGone)
    BY <1>2, RepliesAmongNotices
  <2>2. \A k \in Keys : Kept(k) => Kept(k)'
    BY <1>2, KeptByService
  <2> QED
    BY <1>0, <2>1, <2>2 DEF AskedInv, Asked
<1>3. CASE BusAnswers
  <2>1. /\ ~owned /\ READY # FAILED
        /\ Contains(arrived, NameGone) => Contains(arrived', NameGone)
    BY <1>3, RepliesAmongNotices DEF BusAnswers, READY, FAILED
  <2>2. ServiceFirst /\ ~Contains(arrived, NameGone) => pluginState[provider] = FAILED
    BY <2>1 DEF NoticeInv, Told, StateInv
  <2> QED
    BY <1>0, <2>1, <2>2 DEF AskedInv
<1>4. CASE ServiceStarts
  <2>1. Contains(arrived, NameGone) => Contains(arrived', NameGone)
    BY <1>1, <1>4, ContainsAppended DEF ServiceStarts, Announces
  <2>2. UNCHANGED <<calls, clientKeys>>
    BY <1>4 DEF ServiceStarts
  <2> QED
    BY <1>0, <2>1, <2>2, AskedUntouched DEF Asked
<1>5. CASE ServiceStops
  <2>1. ServiceFirst => Contains(arrived', NameGone)
    BY <1>1, <1>5, ContainsAppended DEF ServiceStops, Announces
  <2> QED
    BY <2>1 DEF AskedInv
<1> QED
  BY <1>2, <1>3, <1>4, <1>5

LEMMA AskedNext ==
  ASSUME Inv, WireInv, StateInv, NoticeInv, AskedInv, [WholeNext]_wholeVars
  PROVE  AskedInv'
<1>0. arrived \in Seq(Arrivals) /\ pendingKeys \in SUBSET Keys
  BY DEF WireInv, WireTypes
<1>1. ASSUME NEW j \in Keys, AnySubscribes(j) \/ AnyUnsubscribes(j) PROVE AskedInv'
  <2>1. UNCHANGED <<pendingKeys, calls, clientKeys, arrived, pluginState>>
    BY <1>1 DEF AnySubscribes, AnyUnsubscribes, Subscribe, Unsubscribe, DoSubscribe, DoUnsubscribe,
                listenerVars, wireVars, serviceVars, pluginVars
  <2> QED
    BY <1>1, <2>1, AskedByIntent, AskedUntouched
<1>2. ASSUME \/ DispatchProviderCall \/ ConstructContextKitPlugin \/ UNCHANGED wholeVars
             \/ \E k \in Keys : AnyBlocks(k)
      PROVE  AskedInv'
  <2>1. UNCHANGED <<pendingKeys, calls, clientKeys, arrived>>
    BY <1>2 DEF DispatchProviderCall, ConstructContextKitPlugin, AnyBlocks, wholeVars,
                listenerVars, wireVars, serviceVars
  <2>2. UNCHANGED <<subscribedKeys, toSubscribe, toUnsubscribe, pluginState>>
    <3>1. CASE DispatchProviderCall \/ UNCHANGED wholeVars
      BY <3>1 DEF DispatchProviderCall, OnQueuedCall, wholeVars, providerVars, scheduleVars,
                  pluginVars
    <3>2. CASE ConstructContextKitPlugin
      BY <3>2, ConstructedEffect DEF ConstructContextKitPlugin, ConstructPlugin, scheduleVars
    <3>3. CASE \E k \in Keys : AnyBlocks(k)
      BY <3>3, ConstructedEffect DEF AnyBlocks, BlockUntilSubscribed, providerVars, scheduleVars,
                                     pluginVars
    <3> QED
      BY <1>2, <3>1, <3>2, <3>3
  <2> QED
    BY <2>1, <2>2, AskedUntouched DEF Asked
<1>3. CASE DispatchNewSubscribe
  <2>1. PICK k : NewSubscribe({k} \cap pendingKeys)
    BY <1>3 DEF DispatchNewSubscribe
  <2>2. UNCHANGED <<subscribedKeys, toSubscribe, toUnsubscribe, pluginState, arrived, clientKeys>>
    BY <1>3 DEF DispatchNewSubscribe, providerVars, scheduleVars, pluginVars, serviceVars
  <2>3. {k} \cap pendingKeys \in SUBSET Keys
    BY <1>0
  <2> QED
    BY <2>1, <2>2, <2>3, AskedByNewSubscribe
<1>4. CASE DispatchAppeared
  BY <1>4, AskedByReady DEF DispatchAppeared, listenerVars, wireVars, serviceVars
<1>5. CASE SetServicePresent
  <2>1. /\ Contains(arrived, NameGone) => Contains(arrived', NameGone)
        /\ UNCHANGED <<pendingKeys, calls, clientKeys>>
    BY <1>0, <1>5, NoticesAreNoReplies, ContainsLater DEF SetServicePresent, serviceVars
  <2>2. CASE servicePresent = Present
    <3>1. UNCHANGED <<subscribedKeys, toSubscribe, toUnsubscribe, pluginState>>
      BY <1>5, <2>2 DEF SetServicePresent, providerVars, scheduleVars, pluginVars
    <3> QED
      BY <2>1, <3>1, AskedUntouched DEF Asked
  <2>3. CASE servicePresent # Present
    BY <1>5, <2>1, <2>3, AskedByReady DEF SetServicePresent
  <2> QED
    BY <2>2, <2>3
<1>6. CASE SetServiceGone
  <2>1. pluginState'[provider] = FAILED
    <3>1. CASE servicePresent # NotPresent
      BY <1>6, <3>1, FailedEffect DEF SetServiceGone, GoneIsNews, OnProviderDisappeared
    <3>2. CASE servicePresent = NotPresent
      BY <1>6, <3>2 DEF SetServiceGone, GoneIsNews, StateInv, providerVars, pluginVars
    <3> QED
      BY <3>1, <3>2
  <2> QED
    BY <2>1 DEF AskedInv, READY, FAILED
<1>7. CASE DispatchReply \/ \E k \in Keys : BlockForReply(k)
  <2>1. \E r \in Replies : OnFinished(r)
    <3>1. CASE DispatchReply
      <4>1. PICK r : r = Head(arrived)
        OBVIOUS
      <4>2. r \in Arrivals /\ "reply" \in DOMAIN r /\ OnFinished(r)
        BY <1>0, <3>1, <4>1, TailElements DEF DispatchReply
      <4> QED
        BY <4>2, RepliesAreReplies
    <3>2. ASSUME NEW k \in Keys, BlockForReply(k) PROVE \E r \in Replies : OnFinished(r)
      <4>1. PICK i \in DOMAIN arrived : /\ arrived[i] \in {Reply(k, TRUE), Reply(k, FALSE)}
                                        /\ OnFinished(arrived[i])
        BY <3>2 DEF BlockForReply
      <4>2. PICK r : r = arrived[i]
        OBVIOUS
      <4> QED
        BY <4>1, <4>2, RepliesDiffer
    <3> QED
      BY <1>7, <3>1, <3>2
  <2>2. UNCHANGED <<subscribedKeys, toSubscribe, toUnsubscribe, pluginState>>
    BY <2>1, FinishedEffect DEF scheduleVars, pluginVars
  <2>3. UNCHANGED <<pendingKeys, calls, clientKeys>>
    BY <1>7 DEF DispatchReply, BlockForReply, serviceVars
  <2>4. Contains(arrived, NameGone) => Contains(arrived', NameGone)
    BY <1>7, RepliesAmongNotices
  <2> QED
    BY <2>2, <2>3, <2>4, AskedUntouched DEF Asked
<1>8. ASSUME NEW k \in Keys, BlockUntilReady(k) PROVE AskedInv'
  BY <1>8, AskedByReady DEF BlockUntilReady, listenerVars, wireVars, serviceVars
<1>9. ASSUME NEW k \in Keys, BlockForCalls(k) PROVE AskedInv'
  <2>1. UNCHANGED <<subscribedKeys, toSubscribe, toUnsubscribe, pluginState, arrived, clientKeys>>
    BY <1>9 DEF BlockForCalls, providerVars, scheduleVars, pluginVars, serviceVars
  <2>2. CASE NewSubscribe(pendingKeys)
    BY <1>0, <2>1, <2>2, AskedByNewSubscribe
  <2>3. CASE UNCHANGED <<pendingKeys, calls>>
    BY <2>1, <2>3, AskedUntouched DEF Asked
  <2> QED
    BY <1>9, <2>2, <2>3 DEF BlockForCalls
<1>10. ASSUME NEW k \in Keys, ProviderStoresValue(k) PROVE AskedInv'
  BY <1>10, StoredEffect, AskedUntouched
     DEF Asked, scheduleVars, pluginVars, listenerVars, wireVars, serviceVars
<1> QED
  BY <1>1, <1>2, <1>3, <1>4, <1>5, <1>6, <1>7, <1>8, <1>9, <1>10, AskedBySchedule, AskedByService
     DEF WholeNext

-----------------------------------------------------------------------------
(* The plugin's invariant                                                  *)

BoundsInv ==
  /\ clientKeys \subseteq Keys
  /\ blocking \in {NotBlocking} \cup ({"ready", "calls", "reply"} \X Keys)
  /\ owned \in BOOLEAN /\ starts \in 0 .. MaxStarts /\ requests \in 0 .. MaxRequests

LEMMA BoundsNext ==
  ASSUME WireInv, BoundsInv, [WholeNext]_wholeVars
  PROVE  BoundsInv'
<1>0. MaxStarts \in Nat /\ MaxRequests \in Nat
  BY PluginAssumption
<1>1. /\ clientKeys' \subseteq Keys /\ owned' \in BOOLEAN /\ starts' \in 0 .. MaxStarts
  <2>1. CASE UNCHANGED serviceVars
    BY <2>1 DEF serviceVars, BoundsInv
  <2>2. CASE ServiceAnswers
    <3>1. calls \in Seq(Calls) /\ calls # <<>>
      BY <2>2 DEF ServiceAnswers, WireInv, WireTypes
    <3>2. Head(calls).key \in Keys
      <4>1. Head(calls) \in Calls /\ \A h \in Calls : h.key \in Keys
        BY <3>1, TailElements DEF Calls
      <4> QED
        BY <4>1
    <3> QED
      BY <2>2, <3>2 DEF ServiceAnswers, BoundsInv
  <2>3. CASE ServiceStarts
    BY <1>0, <2>3 DEF ServiceStarts, BoundsInv
  <2>4. CASE ServiceStops
    BY <2>4 DEF ServiceStops, BoundsInv
  <2> QED
    BY <2>1, <2>2, <2>3, <2>4
       DEF WholeNext, AnySubscribes, AnyUnsubscribes, AnyBlocks, DispatchProviderCall,
           DispatchNewSubscribe, DispatchAppeared, ConstructContextKitPlugin,
           PluginHandlesSubscribes, SetServicePresent, SetServiceGone, DispatchReply,
           ProviderStoresValue, BlockUntilReady, BlockForCalls, BlockForReply, BusAnswers, wholeVars
<1>2. requests' \in 0 .. MaxRequests
  <2>1. UNCHANGED requests \/ (requests < MaxRequests /\ requests' = requests + 1)
    BY DEF WholeNext, AnySubscribes, AnyUnsubscribes, AnyBlocks, DispatchProviderCall,
           DispatchNewSubscribe, DispatchAppeared, ConstructContextKitPlugin,
           PluginHandlesSubscribes, SetServicePresent, SetServiceGone, DispatchReply,
           ProviderStoresValue, BlockUntilReady, BlockForCalls, BlockForReply, ServiceAnswers,
           BusAnswers,
           ServiceStarts, ServiceStops, wholeVars
  <2> QED
    BY <1>0, <2>1 DEF BoundsInv
<1>3. blocking' \in {NotBlocking} \cup ({"ready", "calls", "reply"} \X Keys)
  <2>1. \A k \in Keys : /\ AtReady(k) \in {"ready", "calls", "reply"} \X Keys
                        /\ AtCalls(k) \in {"ready", "calls", "reply"} \X Keys
                        /\ AtReply(k) \in {"ready", "calls", "reply"} \X Keys
    BY DEF AtReady, AtCalls, AtReply
  <2>2. UNCHANGED blocking \/ \E k \in Keys : blocking' \in {NotBlocking, AtReady(k), AtCalls(k), AtReply(k)}
    <3>1. ASSUME NEW k \in Keys, \/ AnyBlocks(k) \/ BlockUntilReady(k)
                                 \/ BlockForCalls(k) \/ BlockForReply(k)
          PROVE  blocking' \in {NotBlocking, AtReady(k), AtCalls(k), AtReply(k)}
      BY <3>1 DEF AnyBlocks, BlockUntilReady, BlockForCalls, BlockForReply
    <3>2. ASSUME NEW k \in Keys, AnySubscribes(k) \/ AnyUnsubscribes(k) PROVE UNCHANGED blocking
      BY <3>2 DEF AnySubscribes, AnyUnsubscribes
    <3> QED
      BY <3>1, <3>2 DEF WholeNext, DispatchProviderCall, DispatchNewSubscribe, DispatchAppeared,
           ConstructContextKitPlugin, PluginHandlesSubscribes, SetServicePresent, SetServiceGone,
           ProviderStoresValue, DispatchReply, ServiceAnswers, BusAnswers, ServiceStarts,
           ServiceStops, wholeVars
  <2>3. CASE UNCHANGED blocking
    BY <2>3 DEF BoundsInv
  <2>4. CASE \E k \in Keys : blocking' \in {NotBlocking, AtReady(k), AtCalls(k), AtReply(k)}
    BY <2>1, <2>4
  <2> QED
    BY <2>2, <2>3, <2>4
<1> QED
  BY <1>1, <1>2, <1>3 DEF BoundsInv

PluginInv == WholeInv /\ PostInv /\ StateInv /\ NoticeInv /\ AskedInv /\ BoundsInv

LEMMA PluginInitInv == WholeInit => PluginInv
<1> SUFFICES ASSUME WholeInit PROVE PluginInv
  OBVIOUS
<1>1. WholeInv
  BY WholeInitInv
<1>2. PostInv
  <2>1. PICK x \in PostedCalls : x = ProviderCall(ConstructPluginCall) /\ x[1] = ConstructPluginCall
    BY PostedCallTypes DEF Methods
  <2>2. posted = <<x>> /\ pendingKeys = {} /\ callQueue[provider] = {ConstructPluginCall}
    BY <2>1, OneProvider DEF WholeInit, Init
  <2>3. posted \in Seq(PostedCalls) /\ DOMAIN posted = {1} /\ posted[1] = x
    BY <2>2
  <2>4. \A i, j \in DOMAIN posted : ~(i < j)
    BY <2>3
  <2>5. InOrder(posted, callQueue[provider])
    BY <2>1, <2>2, <2>3, <2>4 DEF InOrder
  <2> QED
    BY <2>2, <2>3, <2>5 DEF PostInv
<1>3. StateInv
  BY OneProvider DEF WholeInit, Init, StateInv, Contains, INITIALIZING, FAILED, Unknown, NotPresent
<1>4. NoticeInv
  BY DEF WholeInit, NoticeInv, Told, After, Unknown, NotPresent
<1>5. AskedInv
  BY OneProvider DEF WholeInit, Init, AskedInv, INITIALIZING, READY
<1>6. BoundsInv
  BY PluginAssumption DEF WholeInit, BoundsInv
<1> QED
  BY <1>1, <1>2, <1>3, <1>4, <1>5, <1>6 DEF PluginInv

LEMMA PluginNextInv == PluginInv /\ [WholeNext]_wholeVars => PluginInv'
BY WholeNextInv, StateNext, NoticeNext, AskedNext, BoundsNext DEF PluginInv, WholeInv

\* What InOrder says of the queue is what PluginTypeOK says.
LEMMA PluginInvTypes == PluginInv => PluginTypeOK
<1> SUFFICES ASSUME PluginInv PROVE PluginTypeOK
  OBVIOUS
<1>1. /\ posted \in Seq(PostedCalls) /\ InOrder(posted, callQueue[provider])
      /\ callQueue[provider] \subseteq Methods /\ Posted(provider) = callQueue[provider]
  BY OneProvider, PostedIsQueued DEF PluginInv, WholeInv, Inv, TypeOK, PostInv
<1>2. {posted[i][1] : i \in OfProvider} = Posted(provider)
  BY <1>1 DEF InOrder, OfProvider
<1>3. \A i, j \in OfProvider :
        i < j => posted[i][1] = ConstructPluginCall /\ posted[j][1] = HandleSubscribesCall
  BY <1>1 DEF InOrder, OfProvider
<1>4. pendingKeys \subseteq PostedKeys
  BY DEF PluginInv, PostInv, HasKey, PostedKeys
<1> QED
  BY <1>2, <1>3, <1>4 DEF PluginTypeOK, PluginInv, WholeInv, WireInv, WireTypes, StateInv, BoundsInv

\* Everything is quiet: what is wanted was asked for, and what was asked for is kept.
LEMMA QuietIsSubscribed ==
  ASSUME ServiceFirst, PluginInv, NoLostWakeup
  PROVE  WantedAreSubscribed
<1> SUFFICES ASSUME Quiet, owned, NEW k \in subscribedKeys[provider] PROVE k \in clientKeys
  BY DEF WantedAreSubscribed
<1>1. /\ running = Idle /\ posted = <<>> /\ calls = <<>> /\ arrived = <<>> /\ k \in Keys
      /\ pluginState[provider] \in PluginStates
  BY OneProvider DEF Quiet, InLoop, MainIdle, PluginInv, WholeInv, Inv, TypeOK
<1>2. callQueue[provider] = {} /\ Posted(provider) = {} /\ k \notin pendingKeys
  <2>1. DOMAIN posted = {}
    BY <1>1
  <2> QED
    BY <2>1, OneProvider, PostedIsQueued DEF PluginInv, PostInv, InOrder, HasKey, WholeInv, Inv
<1>3. plugin[provider] /\ pluginState[provider] # INITIALIZING
  BY <1>1, <1>2 DEF PluginInv, StateInv, Contains, Idle
<1>4. pluginState[provider] = READY
  BY <1>1, <1>3 DEF PluginInv, NoticeInv, Told, Contains, StateInv, PluginStates
<1>5. Scheduled(provider) = {}
  BY <1>1, <1>2, <1>3, OneProvider DEF NoLostWakeup, HandlePending, Idle
<1>6. Asked(k)
  BY <1>5 DEF Asked, Scheduled
<1>7. Kept(k)
  BY <1>1, <1>2, <1>4, <1>6 DEF PluginInv, AskedInv, Contains
<1> QED
  BY <1>1, <1>7 DEF Kept, Contains

-----------------------------------------------------------------------------
(* The theorems                                                            *)

\* The inductive invariant of the plugin with its Provider and the bus: the
\* messages are well-formed and every watcher has its call or answer under way.
THEOREM WholeInvariant == WholeSpec => []WholeInv
BY WholeInitInv, WholeNextInv, PTL DEF WholeSpec

\* The plugin keeps the contract of Provider (provider.cpp:55-90): the whole of
\* plugin, name listener, bus and service never lets the Provider take a step
\* that module Provider does not know, so that what is proved of Provider for
\* any plugin holds of this one.
THEOREM PluginKeepsContract == WholeSpec => Spec
<1>1. WholeInit => Init
  BY DEF WholeInit
<1>2. WholeInv /\ [WholeNext]_wholeVars => [Next]_providerVars
  BY WholeNextInv
<1> QED
  BY <1>1, <1>2, WholeInvariant, PTL DEF WholeSpec, Spec

\* A blocked main thread waits for a call or an answer that is on the wire,
\* for any keys and any number of requests and starts (newSubscribe,
\* removePendingWatcher, blockUntilSubscribed).
THEOREM WatchersAwait == WholeSpec => []WatchersAwaitReplies
<1>1. WholeInv => WatchersAwaitReplies
  BY DEF WholeInv, WireInv
<1> QED
  BY <1>1, WholeInvariant, PTL

\* With this plugin nobody waits for a subscription that is neither scheduled
\* nor owed an answer, however often the service goes and comes.
THEOREM WholeOwesAnswers == WholeSpec => []UnfinishedIsOwed
<1>1. FailureAnswersPending
  BY PluginAssumption
<1>2. Spec => []UnfinishedIsOwed
  BY <1>1, OwedHolds
<1> QED
  BY <1>2, PluginKeepsContract

\* This plugin may say that it is ready while it is ready, because the service was
\* exchanged unnoticed; nevertheless it never keeps what the Provider has no use
\* for any more (Provider::onPluginReady ignores the signal).
THEOREM WholeDropsUnwanted == WholeSpec => []NothingUnwantedKept
BY PluginKeepsContract, UnwantedDropped

\* The inductive invariant of the whole: what is posted, how far the plugin is,
\* what it was told of its service, and where every key is that it was asked for.
THEOREM PluginInvariant == WholeSpec => []PluginInv
BY PluginInitInv, PluginNextInv, PTL DEF WholeSpec

\* The plugin's variables keep their types, the calls of the Provider in the main
\* thread's queue are the ones it believes to be posted, each once and the
\* construction first, and no key stays pending without a posted newSubscribe
\* (queueOnce, onQueuedCall, subscribe, newSubscribe).
THEOREM PluginTypes == WholeSpec => []PluginTypeOK
BY PluginInvariant, PluginInvTypes, PTL

\* With a service that was there first, everything that is wanted is subscribed
\* when all is quiet, however often the service stopped and started and in
\* whatever order calls, answers and notices crossed (onProviderAppeared,
\* onProviderDisappeared, newSubscribe, handleSubscribes).
THEOREM WantedSubscribed == ASSUME ServiceFirst PROVE WholeSpec => []WantedAreSubscribed
<1>1. PluginInv /\ NoLostWakeup => WantedAreSubscribed
  BY QuietIsSubscribed
<1> QED
  BY <1>1, PluginInvariant, PluginKeepsContract, WakeupHolds, PTL
=============================================================================
