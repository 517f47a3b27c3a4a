---------------------------- MODULE PagingProofs ----------------------------
(* Theorems about the two lists that are read page by page, for every page   *)
(* size, content and bound.  VideosPaging: the types, that no video is       *)
(* skipped, that videos repeat only for the causes named, and that the list  *)
(* stops complete.  BlogPaging: the types, what the fetch flag and the       *)
(* indicators stand for, and that no article is skipped.                     *)
EXTENDS VideosPaging, BlogPaging, TLAPS, SequenceTheorems, FiniteSetTheorems

(* What a sequence lists.                                                    *)
Listing(s) == {s[i] : i \in DOMAIN s}

(* What YouTube lists on a page.                                             *)
PageSet(total, o) == {w \in 1 .. total : total - o - PageSize < w /\ w <= total - o}

PageLen(total, o) ==
  IF o >= total THEN 0 ELSE IF o + PageSize <= total THEN PageSize ELSE total - o

LEMMA PageIs ==
  ASSUME VideosAssumption, NEW total \in Nat, NEW o \in Nat
  PROVE  /\ PageLen(total, o) \in Nat
         /\ Page(total, o) \in Seq(1 .. total)
         /\ Len(Page(total, o)) = PageLen(total, o)
         /\ \A i \in 1 .. PageLen(total, o) : Page(total, o)[i] = total - o - i + 1
         /\ Listing(Page(total, o)) = PageSet(total, o)
<1>1. PageSize \in Nat /\ PageSize > 0
  BY DEF VideosAssumption
<1>2. PageLen(total, o) \in Nat
  BY <1>1 DEF PageLen
<1>3. Page(total, o) = [i \in 1 .. PageLen(total, o) |-> total - o - i + 1]
  BY DEF Page, PageLen
<1>4. \A i \in 1 .. PageLen(total, o) : total - o - i + 1 \in PageSet(total, o)
  BY <1>1 DEF PageLen, PageSet
<1>5. \A w \in PageSet(total, o) :
        /\ total - o - w + 1 \in 1 .. PageLen(total, o)
        /\ w = total - o - (total - o - w + 1) + 1
  BY <1>1 DEF PageLen, PageSet
<1>6. Page(total, o) \in [1 .. PageLen(total, o) -> 1 .. total]
  BY <1>3, <1>4 DEF PageSet
<1>7. Page(total, o) \in Seq(1 .. total)
  BY <1>2, <1>6, SeqDef
<1>8. Len(Page(total, o)) = PageLen(total, o)
  BY <1>2, <1>6, <1>7, LenProperties
<1>9. Listing(Page(total, o)) = PageSet(total, o)
  <2>1. DOMAIN Page(total, o) = 1 .. PageLen(total, o)
    BY <1>3
  <2>2. \A w \in PageSet(total, o) : w \in Listing(Page(total, o))
    <3> TAKE w \in PageSet(total, o)
    <3> DEFINE i == total - o - w + 1
    <3>1. i \in 1 .. PageLen(total, o) /\ w = total - o - i + 1
      BY <1>5
    <3> HIDE DEF i
    <3>2. i \in DOMAIN Page(total, o) /\ Page(total, o)[i] = w
      BY <1>3, <2>1, <3>1
    <3> QED  BY <3>2 DEF Listing
  <2>3. \A i \in DOMAIN Page(total, o) : Page(total, o)[i] \in PageSet(total, o)
    BY <1>3, <1>4, <2>1
  <2> QED  BY <2>2, <2>3 DEF Listing
<1> QED  BY <1>2, <1>3, <1>7, <1>8, <1>9

LEMMA ListingOfTwo ==
  ASSUME NEW S, NEW s \in Seq(S), NEW t \in Seq(S)
  PROVE  Listing(s \o t) = Listing(s) \cup Listing(t)
<1>1. /\ s \o t \in Seq(S) /\ Len(s \o t) = Len(s) + Len(t)
      /\ \A i \in 1 .. Len(s) + Len(t) :
           (s \o t)[i] = IF i <= Len(s) THEN s[i] ELSE t[i - Len(s)]
  BY ConcatProperties
<1>2. /\ DOMAIN s = 1 .. Len(s) /\ DOMAIN t = 1 .. Len(t) /\ Len(s) \in Nat /\ Len(t) \in Nat
      /\ DOMAIN (s \o t) = 1 .. Len(s) + Len(t)
  BY <1>1, LenProperties
<1>3. \A i \in DOMAIN s : (s \o t)[i] = s[i] /\ i \in DOMAIN (s \o t)
  BY <1>1, <1>2
<1>4. \A i \in DOMAIN t : (s \o t)[Len(s) + i] = t[i] /\ Len(s) + i \in DOMAIN (s \o t)
  <2> TAKE i \in DOMAIN t
  <2>1. Len(s) + i \in 1 .. Len(s) + Len(t) /\ ~(Len(s) + i <= Len(s)) /\ Len(s) + i - Len(s) = i
    BY <1>2
  <2> QED  BY <1>1, <1>2, <2>1
<1>5. \A i \in DOMAIN (s \o t) : (s \o t)[i] \in Listing(s) \cup Listing(t)
  <2> TAKE i \in DOMAIN (s \o t)
  <2>1. CASE i <= Len(s)
    BY <1>1, <1>2, <2>1 DEF Listing
  <2>2. CASE ~(i <= Len(s))
    <3>1. i - Len(s) \in DOMAIN t
      BY <1>2, <2>2
    <3> QED  BY <1>1, <1>2, <2>2, <3>1 DEF Listing
  <2> QED  BY <2>1, <2>2
<1>6. Listing(s \o t) \subseteq Listing(s) \cup Listing(t)
  BY <1>5 DEF Listing
<1>7. Listing(s) \subseteq Listing(s \o t)
  BY <1>3 DEF Listing
<1>8. \A i \in DOMAIN t : t[i] \in Listing(s \o t)
  <2> TAKE i \in DOMAIN t
  <2>1. (s \o t)[Len(s) + i] = t[i] /\ Len(s) + i \in DOMAIN (s \o t)
    BY <1>4
  <2> QED  BY <2>1 DEF Listing
<1>9. Listing(t) \subseteq Listing(s \o t)
  BY <1>8 DEF Listing
<1> QED  BY <1>6, <1>7, <1>9

-----------------------------------------------------------------------------
(* What each action does to the loads.                                       *)

Asked == [state |-> "asked", from |-> Offset(token), total |-> 0]

LEMMA LoadStarted ==
  ASSUME loads \in Seq(Load), token \in Tokens, StartLoad
  PROVE  /\ loads' \in Seq(Load) /\ Len(loads') = Len(loads) + 1
         /\ DOMAIN loads = 1 .. Len(loads) /\ Len(loads) \in Nat
         /\ DOMAIN loads' = 1 .. Len(loads) + 1
         /\ \A n \in DOMAIN loads : loads'[n] = loads[n]
         /\ loads'[Len(loads) + 1] = Asked
<1>1. Asked \in Load
  BY DEF Asked, Load, Offset, Tokens, Null
<1>2. loads' = Append(loads, Asked)
  BY DEF StartLoad, Asked
<1>3. /\ loads' \in Seq(Load) /\ Len(loads') = Len(loads) + 1
      /\ \A n \in 1 .. Len(loads) : loads'[n] = loads[n]
      /\ loads'[Len(loads) + 1] = Asked
  BY <1>1, <1>2, AppendProperties
<1>4. DOMAIN loads = 1 .. Len(loads) /\ Len(loads) \in Nat
  BY LenProperties
<1>5. DOMAIN loads' = 1 .. Len(loads')
  BY <1>3, LenProperties
<1>6. DOMAIN loads' = 1 .. Len(loads) + 1
  BY <1>3, <1>5
<1>7. \A n \in DOMAIN loads : loads'[n] = loads[n]
  BY <1>3, <1>4
<1> QED  BY <1>3, <1>4, <1>6, <1>7

(* A load n goes on: the others stay, its page is the one it asked for.      *)
Moved(n, state, total) ==
  /\ loads' \in Seq(Load) /\ DOMAIN loads' = DOMAIN loads
  /\ \A m \in DOMAIN loads : m # n => loads'[m] = loads[m]
  /\ loads'[n] = [state |-> state, from |-> loads[n].from, total |-> total]

LEMMA LoadMoved ==
  ASSUME loads \in Seq(Load), NEW n \in DOMAIN loads, uploaded \in Nat
  PROVE  /\ Answer(n) => Moved(n, "answered", uploaded)
         /\ Loaded(n) \/ LoadFails(n) => Moved(n, "ended", loads[n].total)
<1>1. loads \in [1 .. Len(loads) -> Load] /\ DOMAIN loads = 1 .. Len(loads) /\ Len(loads) \in Nat
  BY LenProperties, ElementOfSeq
<1>2. loads[n] \in Load
  BY <1>1
<1>3. ASSUME NEW state \in {"answered", "ended"}, NEW total \in Nat,
             loads' = [loads EXCEPT ![n] = [state |-> state, from |-> loads[n].from, total |-> total]]
      PROVE  Moved(n, state, total)
  <2>1. [state |-> state, from |-> loads[n].from, total |-> total] \in Load
    BY <1>2, <1>3 DEF Load
  <2>2. loads' \in [1 .. Len(loads) -> Load] /\ DOMAIN loads' = DOMAIN loads
    BY <1>1, <1>3, <2>1
  <2>3. loads' \in Seq(Load)
    BY <1>1, <2>2, SeqDef
  <2> QED  BY <1>1, <1>3, <2>2, <2>3 DEF Moved
<1>4. Answer(n) => loads' = [loads EXCEPT ![n] =
                               [state |-> "answered", from |-> loads[n].from, total |-> uploaded]]
  BY <1>1, <1>2 DEF Answer, Load
<1>5. Loaded(n) \/ LoadFails(n) =>
        loads' = [loads EXCEPT ![n] = [state |-> "ended", from |-> loads[n].from, total |-> loads[n].total]]
  BY <1>1, <1>2 DEF Loaded, LoadFails, Load
<1>6. loads[n].total \in Nat
  BY <1>2 DEF Load
<1> QED  BY <1>3, <1>4, <1>5, <1>6

-----------------------------------------------------------------------------
(* Type correctness.                                                         *)

(* TypeOK in two parts: the flags, and the data.                             *)
FlagsOK == loading \in BOOLEAN /\ overlapped \in BOOLEAN

DataOK ==
  /\ uploaded \in Initial .. Initial + MaxUploads
  /\ videoCount \in Counts \cup {Null}
  /\ token \in Tokens
  /\ videos \in Seq(1 .. uploaded)
  /\ opening \in {"channel", "videos", "done", "failed"}
  /\ loads \in Seq(Load)
  /\ newest \in Nat

LEMMA TypeParts == (TypeOK <=> FlagsOK /\ DataOK) /\ (TypeOK' <=> FlagsOK' /\ DataOK')
  BY DEF TypeOK, FlagsOK, DataOK

(* A function on 1 .. n is a sequence.                                       *)
LEMMA SeqIntro ==
  ASSUME NEW S, NEW n \in Nat, NEW q \in [1 .. n -> S]
  PROVE  q \in Seq(S)
BY SeqDef

(* What an answer counts is between the first playlist, or the newest video  *)
(* when the first load started, and the playlist of now.                     *)
Bounds ==
  /\ newest <= uploaded
  /\ \A n \in DOMAIN loads :
       /\ loads[n].total <= uploaded
       /\ loads[n].state = "answered" => Initial <= loads[n].total /\ newest <= loads[n].total

(* Nothing is loaded before the channel is known.                            *)
NotYet ==
  /\ opening = "channel" => videoCount = Null
  /\ videoCount = Null => videos = <<>> /\ loads = <<>> /\ token = 0

LEMMA FlagsStep == ASSUME FlagsOK, [Next]_vars PROVE FlagsOK'
<1>1. CASE ChannelComes  BY <1>1 DEF ChannelComes, StartLoad, FlagsOK
<1>2. CASE ChannelFails  BY <1>2 DEF ChannelFails, FlagsOK
<1>3. CASE ScrollEnd  BY <1>3 DEF ScrollEnd, StartLoad, FlagsOK
<1>4. CASE Upload  BY <1>4 DEF Upload, FlagsOK
<1>5. ASSUME NEW n \in DOMAIN loads, Answer(n) PROVE FlagsOK'
  BY <1>5 DEF Answer, FlagsOK
<1>6. ASSUME NEW n \in DOMAIN loads, Loaded(n) PROVE FlagsOK'
  BY <1>6 DEF Loaded, FlagsOK
<1>7. ASSUME NEW n \in DOMAIN loads, LoadFails(n) PROVE FlagsOK'
  BY <1>7 DEF LoadFails, FlagsOK
<1>8. CASE UNCHANGED vars  BY <1>8 DEF vars, FlagsOK
<1> QED  BY <1>1, <1>2, <1>3, <1>4, <1>5, <1>6, <1>7, <1>8 DEF Next

LEMMA Numbers ==
  ASSUME VideosAssumption, DataOK
  PROVE  /\ uploaded \in Nat /\ Initial \in Nat /\ Initial <= uploaded
         /\ newest \in Nat /\ PageSize \in Nat /\ PageSize > 0
         /\ Offset(token) \in Nat /\ MaxUploads \in Nat
         /\ videoCount \in Int /\ (videoCount # Null => videoCount \in Nat)
         /\ Len(videos) \in Nat /\ DOMAIN videos = 1 .. Len(videos)
         /\ DOMAIN loads = 1 .. Len(loads) /\ Len(loads) \in Nat
         /\ \A n \in DOMAIN loads : loads[n] \in Load /\ loads[n].from \in Nat /\ loads[n].total \in Nat
<1>1. /\ uploaded \in Nat /\ Initial \in Nat /\ Initial <= uploaded /\ newest \in Nat
      /\ PageSize \in Nat /\ PageSize > 0 /\ MaxUploads \in Nat
  BY DEF DataOK, VideosAssumption
<1>2. Offset(token) \in Nat
  BY DEF DataOK, Offset, Tokens, Null
<1>3. videoCount \in Int /\ (videoCount # Null => videoCount \in Nat)
  BY DEF DataOK, VideosAssumption, Null
<1>4. Len(videos) \in Nat /\ DOMAIN videos = 1 .. Len(videos)
  BY LenProperties DEF DataOK
<1>5. DOMAIN loads = 1 .. Len(loads) /\ Len(loads) \in Nat
  BY LenProperties DEF DataOK
<1>6. \A n \in DOMAIN loads : loads[n] \in Load
  BY <1>5, ElementOfSeq DEF DataOK
<1>7. \A n \in DOMAIN loads : loads[n].from \in Nat /\ loads[n].total \in Nat
  BY <1>6 DEF Load
<1> QED  BY <1>1, <1>2, <1>3, <1>4, <1>5, <1>6, <1>7

LEMMA StartKeepsTypes ==
  ASSUME VideosAssumption, DataOK, Bounds, StartLoad, newest' <= uploaded',
         newest' \in Nat, uploaded' = uploaded, videoCount' \in Counts \cup {Null},
         token' = token, videos' = videos, opening' \in {opening, "videos"},
         newest' = newest \/ loads = <<>>
  PROVE  DataOK' /\ Bounds'
<1>1. DataOK'
  BY LoadStarted DEF DataOK
<1>2. ASSUME NEW n \in DOMAIN loads'
      PROVE  /\ loads'[n].total <= uploaded
             /\ loads'[n].state = "answered" => Initial <= loads'[n].total /\ newest' <= loads'[n].total
  <2>1. CASE n \in DOMAIN loads
    <3>1. loads'[n] = loads[n] /\ loads # <<>>
      BY <2>1, LoadStarted DEF DataOK
    <3> QED  BY <2>1, <3>1 DEF Bounds
  <2>2. CASE n \notin DOMAIN loads
    <3>1. loads'[n] = Asked
      BY <1>2, <2>2, LoadStarted DEF DataOK
    <3>2. loads'[n].total = 0 /\ loads'[n].state = "asked"
      BY <3>1 DEF Asked
    <3> QED  BY <3>2, Numbers
  <2> QED  BY <2>1, <2>2
<1>3. Bounds'
  BY <1>2 DEF Bounds
<1> QED  BY <1>1, <1>3

LEMMA MoveKeepsBounds ==
  ASSUME VideosAssumption, DataOK, Bounds, NEW n \in DOMAIN loads,
         Answer(n) \/ Loaded(n) \/ LoadFails(n), uploaded' = uploaded, newest' = newest
  PROVE  loads' \in Seq(Load) /\ Bounds'
<1>1. /\ Answer(n) => Moved(n, "answered", uploaded)
      /\ Loaded(n) \/ LoadFails(n) => Moved(n, "ended", loads[n].total)
  BY LoadMoved, Numbers DEF DataOK
<1>2. PICK state \in {"answered", "ended"}, total \in {uploaded, loads[n].total} :
        Moved(n, state, total) /\ (state = "answered" => total = uploaded)
  BY <1>1
<1>3. total <= uploaded
  BY <1>2, Numbers DEF Bounds
<1>4. ASSUME NEW m \in DOMAIN loads'
      PROVE  /\ loads'[m].total <= uploaded
             /\ loads'[m].state = "answered" => Initial <= loads'[m].total /\ newest <= loads'[m].total
  <2>1. CASE m = n
    <3>1. loads'[m].state = state /\ loads'[m].total = total
      BY <1>2, <2>1 DEF Moved
    <3> QED  BY <1>2, <1>3, <3>1, Numbers DEF Bounds
  <2>2. CASE m # n
    <3>1. loads'[m] = loads[m] /\ m \in DOMAIN loads
      BY <1>2, <1>4, <2>2 DEF Moved
    <3> QED  BY <3>1 DEF Bounds
  <2> QED  BY <2>1, <2>2
<1>5. Bounds'
  BY <1>4, Numbers DEF Bounds
<1> QED  BY <1>2, <1>5 DEF Moved

LEMMA DataStep ==
  ASSUME VideosAssumption, DataOK, Bounds, NotYet, [Next]_vars
  PROVE  DataOK' /\ Bounds'
<1> USE Numbers
<1>1. CASE ChannelComes
  <2>1. loads = <<>> /\ newest' = uploaded /\ StartLoad
    BY <1>1 DEF ChannelComes, NotYet
  <2>2. videoCount' \in Counts \cup {Null}
    BY <1>1 DEF ChannelComes
  <2>3. UNCHANGED <<uploaded, token, videos>> /\ opening' = "videos"
    BY <1>1 DEF ChannelComes
  <2>4. newest' <= uploaded' /\ newest' \in Nat
    BY <2>1, <2>3
  <2> QED  BY <2>1, <2>2, <2>3, <2>4, StartKeepsTypes
<1>2. CASE ChannelFails
  BY <1>2 DEF ChannelFails, DataOK, Bounds
<1>3. CASE ScrollEnd
  <2>1. StartLoad /\ UNCHANGED <<uploaded, videoCount, token, videos, opening, newest>>
    BY <1>3 DEF ScrollEnd
  <2>2. videoCount' \in Counts \cup {Null} /\ newest' <= uploaded' /\ newest' \in Nat
    BY <2>1 DEF DataOK, Bounds
  <2> QED  BY <2>1, <2>2, StartKeepsTypes
<1>4. CASE Upload
  <2>1. /\ uploaded' = uploaded + 1 /\ uploaded < Initial + MaxUploads
        /\ UNCHANGED <<videoCount, token, videos, opening, loads, newest>>
    BY <1>4 DEF Upload
  <2>2. videos \in Seq(1 .. uploaded')
    <3>1. \A i \in 1 .. Len(videos) : videos[i] \in 1 .. uploaded'
      <4>1. uploaded \in Nat /\ videos \in Seq(1 .. uploaded)
        BY DEF DataOK
      <4>2. \A i \in 1 .. Len(videos) : videos[i] \in 1 .. uploaded
        BY <4>1, ElementOfSeq, Zenon
      <4>3. 1 .. uploaded \subseteq 1 .. uploaded'
        BY <2>1, <4>1
      <4> QED  BY <4>2, <4>3, Zenon
    <3>2. videos \in [1 .. Len(videos) -> 1 .. uploaded'] /\ Len(videos) \in Nat
      BY <3>1, LenProperties DEF DataOK
    <3> QED  BY <3>2, SeqIntro
  <2>3. uploaded' \in Initial .. Initial + MaxUploads
    BY <2>1
  <2>4. DataOK'
    BY <2>1, <2>2, <2>3 DEF DataOK
  <2>5. Bounds'
    <3>1. /\ uploaded \in Nat /\ newest \in Nat /\ newest <= uploaded
          /\ \A n \in DOMAIN loads : loads[n].total \in Nat /\ loads[n].total <= uploaded
      BY ElementOfSeq, Numbers DEF Bounds, DataOK, Load
    <3> QED  BY <2>1, <3>1 DEF Bounds
  <2> QED  BY <2>4, <2>5
<1>5. ASSUME NEW n \in DOMAIN loads, Answer(n) PROVE DataOK' /\ Bounds'
  <2>1. UNCHANGED <<uploaded, videoCount, token, videos, opening, newest>>
    BY <1>5 DEF Answer
  <2>2. loads' \in Seq(Load) /\ Bounds'
    BY <1>5, <2>1, MoveKeepsBounds
  <2> QED  BY <2>1, <2>2 DEF DataOK
<1>6. ASSUME NEW n \in DOMAIN loads, Loaded(n) PROVE DataOK' /\ Bounds'
  <2>1. UNCHANGED <<uploaded, videoCount, newest>>
    BY <1>6 DEF Loaded
  <2>2. token' \in Tokens
    <3>1. token' = NextToken(loads[n].total, loads[n].from)
      BY <1>6 DEF Loaded, TokenAfter
    <3>2. loads[n].from \in Nat /\ PageSize \in Nat
      BY Numbers DEF Bounds
    <3> QED  BY <3>1, <3>2 DEF NextToken, Tokens, Null
  <2>3. videos' \in Seq(1 .. uploaded')
    <3>1. loads[n].total \in Nat /\ loads[n].from \in Nat /\ loads[n].total <= uploaded
      BY DEF Bounds
    <3> DEFINE batch == Page(loads[n].total, loads[n].from)
    <3>2. batch \in Seq(1 .. loads[n].total)
      BY <3>1, PageIs
    <3> HIDE DEF batch
    <3>3. \A i \in 1 .. Len(batch) : batch[i] \in 1 .. uploaded
      <4>1. \A i \in 1 .. Len(batch) : batch[i] \in 1 .. loads[n].total
        BY <3>2, ElementOfSeq, Zenon
      <4>2. 1 .. loads[n].total \subseteq 1 .. uploaded
        BY <3>1, Numbers
      <4> QED  BY <4>1, <4>2, Zenon
    <3>4. batch \in [1 .. Len(batch) -> 1 .. uploaded] /\ Len(batch) \in Nat
      <4>1. /\ Len(batch) \in Nat
            /\ batch \in [1 .. Len(batch) -> 1 .. loads[n].total]
        BY <3>2, LenProperties, Zenon
      <4> QED  BY <3>3, <4>1, Zenon
    <3>5. batch \in Seq(1 .. uploaded)
      BY <3>4, SeqIntro
    <3>6. videos' = videos \o batch
      <4>1. videos' = Listed(loads[n].total, loads[n].from)
        BY <1>6 DEF Loaded
      <4> QED  BY <4>1 DEF Listed, batch
    <3> QED  BY <2>1, <3>5, <3>6, ConcatProperties DEF DataOK
  <2>4. opening' \in {"channel", "videos", "done", "failed"}
    BY <1>6 DEF Loaded, DataOK
  <2> QED  BY <1>6, <2>1, <2>2, <2>3, <2>4, MoveKeepsBounds DEF DataOK
<1>7. ASSUME NEW n \in DOMAIN loads, LoadFails(n) PROVE DataOK' /\ Bounds'
  <2>1. UNCHANGED <<uploaded, videoCount, token, videos, newest>>
    BY <1>7 DEF LoadFails
  <2>2. opening' \in {"channel", "videos", "done", "failed"}
    BY <1>7 DEF LoadFails, DataOK
  <2> QED  BY <1>7, <2>1, <2>2, MoveKeepsBounds DEF DataOK
<1>8. CASE UNCHANGED vars
  BY <1>8 DEF vars, DataOK, Bounds
<1> QED  BY <1>1, <1>2, <1>3, <1>4, <1>5, <1>6, <1>7, <1>8 DEF Next

LEMMA NotYetStep ==
  ASSUME VideosAssumption, DataOK, NotYet, [Next]_vars
  PROVE  NotYet'
<1>1. CASE ChannelComes
  <2>1. videoCount' # Null /\ opening' = "videos"
    BY <1>1 DEF ChannelComes, VideosAssumption, Null
  <2> QED  BY <2>1 DEF NotYet
<1>2. CASE ChannelFails  BY <1>2 DEF ChannelFails, NotYet
<1>3. CASE ScrollEnd  BY <1>3 DEF ScrollEnd, NotYet
<1>4. CASE Upload  BY <1>4 DEF Upload, NotYet
<1>5. ASSUME NEW n \in DOMAIN loads, Answer(n) \/ Loaded(n) \/ LoadFails(n) PROVE NotYet'
  <2>1. loads # <<>> /\ videoCount # Null /\ opening # "channel"
    BY Numbers DEF NotYet
  <2>2. videoCount' = videoCount /\ opening' # "channel"
    BY <1>5, <2>1 DEF Answer, Loaded, LoadFails
  <2> QED  BY <2>1, <2>2 DEF NotYet
<1>6. CASE UNCHANGED vars  BY <1>6 DEF vars, NotYet
<1> QED  BY <1>1, <1>2, <1>3, <1>4, <1>5, <1>6 DEF Next

-----------------------------------------------------------------------------
(* No video is skipped: all that precedes the page a token names is listed.  *)

Covers(k, top) == \A w \in 1 .. newest : top - k < w => w \in Shown

Ahead ==
  /\ Covers(Offset(token), uploaded)
  /\ \A n \in DOMAIN loads :
       /\ loads[n].state = "asked" => Covers(loads[n].from, uploaded)
       /\ loads[n].state = "answered" => Covers(loads[n].from, loads[n].total)

(* What a load that ends adds to the list.                                   *)
LEMMA LoadedShows ==
  ASSUME VideosAssumption, DataOK, Bounds, NEW n \in DOMAIN loads, Loaded(n)
  PROVE  /\ Shown' = Shown \cup PageSet(loads[n].total, loads[n].from)
         /\ videos' = videos \o Page(loads[n].total, loads[n].from)
         /\ Len(videos') = Len(videos) + PageLen(loads[n].total, loads[n].from)
         /\ loads[n].total \in Nat /\ loads[n].from \in Nat
         /\ loads[n].total <= uploaded /\ Initial <= loads[n].total /\ newest <= loads[n].total
<1>1. loads[n].total \in Nat /\ loads[n].from \in Nat
  BY Numbers
<1>2. loads[n].total <= uploaded /\ Initial <= loads[n].total /\ newest <= loads[n].total
  BY DEF Bounds, Loaded
<1> DEFINE batch == Page(loads[n].total, loads[n].from)
<1>3. /\ batch \in Seq(1 .. loads[n].total)
      /\ Listing(batch) = PageSet(loads[n].total, loads[n].from)
      /\ Len(batch) = PageLen(loads[n].total, loads[n].from)
  BY <1>1, PageIs
<1>4. videos' = videos \o batch
  BY DEF Loaded, Listed
<1> HIDE DEF batch
<1>5. batch \in Seq(Nat) /\ videos \in Seq(Nat)
  <2>1. \A i \in 1 .. Len(batch) : batch[i] \in Nat
    BY <1>1, <1>3, ElementOfSeq
  <2>2. batch \in [1 .. Len(batch) -> Nat] /\ Len(batch) \in Nat
    BY <1>3, <2>1, LenProperties
  <2>3. \A i \in 1 .. Len(videos) : videos[i] \in Nat
    BY ElementOfSeq, Numbers DEF DataOK
  <2>4. videos \in [1 .. Len(videos) -> Nat] /\ Len(videos) \in Nat
    BY <2>3, LenProperties DEF DataOK
  <2> QED  BY <2>2, <2>4, SeqDef
<1>6. Listing(videos') = Listing(videos) \cup Listing(batch)
  BY <1>4, <1>5, ListingOfTwo
<1>7. Shown = Listing(videos) /\ Shown' = Listing(videos')
  BY DEF Shown, Listing
<1>8. Len(videos') = Len(videos) + Len(batch)
  BY <1>4, <1>5, ConcatProperties
<1> QED  BY <1>1, <1>2, <1>3, <1>4, <1>6, <1>7, <1>8 DEF batch

(* A load that ended keeps what it covered and adds its page.                *)
LEMMA PageCloses ==
  ASSUME VideosAssumption, DataOK, Bounds, Ahead, NEW n \in DOMAIN loads, Loaded(n)
  PROVE  \A w \in 1 .. newest :
           loads[n].total - loads[n].from - PageSize < w => w \in Shown'
<1> DEFINE t == loads[n].total
           f == loads[n].from
<1>1. /\ Shown' = Shown \cup PageSet(t, f)
      /\ t \in Nat /\ f \in Nat /\ newest <= t
  BY LoadedShows
<1>2. Covers(f, t)
  BY DEF Loaded, Ahead
<1> HIDE DEF t, f
<1>3. ASSUME NEW w \in 1 .. newest, t - f - PageSize < w PROVE w \in Shown'
  <2>1. CASE t - f < w
    BY <1>1, <1>2, <2>1 DEF Covers
  <2>2. CASE ~(t - f < w)
    <3>1. w \in 1 .. t /\ w <= t - f
      BY <1>1, <2>2, Numbers
    <3> QED  BY <1>1, <1>3, <3>1 DEF PageSet
  <2> QED  BY <2>1, <2>2
<1> QED  BY <1>3 DEF t, f

LEMMA NoGapsStep ==
  ASSUME VideosAssumption, DataOK, Bounds, NotYet, Ahead, NoGaps, [Next]_vars
  PROVE  NoGaps'
<1>1. CASE ChannelComes
  <2>1. videos' = <<>>
    BY <1>1 DEF ChannelComes, NotYet
  <2>2. Shown' = {}
    BY <2>1, EmptySeq DEF Shown
  <2> QED  BY <2>2 DEF NoGaps
<1>2. ASSUME NEW n \in DOMAIN loads, Loaded(n) PROVE NoGaps'
  <2>1. /\ Shown' = Shown \cup PageSet(loads[n].total, loads[n].from)
        /\ loads[n].total \in Nat /\ loads[n].from \in Nat
    BY <1>2, LoadedShows
  <2>2. newest' = newest
    BY <1>2 DEF Loaded
  <2>3. ASSUME NEW v \in Shown', NEW w \in v .. newest PROVE w \in Shown'
    <3>1. CASE v \in Shown
      BY <2>1, <3>1 DEF NoGaps
    <3>2. CASE v \in PageSet(loads[n].total, loads[n].from)
      <4>1. v \in Nat /\ 1 <= v /\ loads[n].total - loads[n].from - PageSize < v
        BY <2>1, <3>2 DEF PageSet
      <4>2. /\ newest \in Nat /\ PageSize \in Nat
            /\ loads[n].total \in Nat /\ loads[n].from \in Nat
        BY <2>1, Numbers
      <4>3. w \in 1 .. newest /\ loads[n].total - loads[n].from - PageSize < w
        BY <4>1, <4>2
      <4> QED  BY <1>2, <4>3, PageCloses
    <3> QED  BY <2>1, <3>1, <3>2
  <2> QED  BY <2>2, <2>3 DEF NoGaps
<1>3. CASE UNCHANGED <<videos, newest>>
  BY <1>3 DEF NoGaps, Shown
<1>4. ChannelFails \/ ScrollEnd \/ Upload \/ UNCHANGED vars => UNCHANGED <<videos, newest>>
  BY DEF ChannelFails, ScrollEnd, Upload, vars
<1>5. \A n \in DOMAIN loads : Answer(n) \/ LoadFails(n) => UNCHANGED <<videos, newest>>
  BY DEF Answer, LoadFails
<1> QED  BY <1>1, <1>2, <1>3, <1>4, <1>5 DEF Next

(* An upload only shortens what a page must cover; a longer list covers more.*)
LEMMA CoversKept ==
  ASSUME VideosAssumption, DataOK, newest' = newest, Shown \subseteq Shown',
         NEW k \in Nat, NEW top \in Nat, NEW top2 \in Nat, top <= top2, Covers(k, top)
  PROVE  Covers(k, top2)'
<1>1. ASSUME NEW w \in 1 .. newest, top2 - k < w PROVE w \in Shown'
  <2>1. top - k < w
    BY <1>1, Numbers
  <2> QED  BY <2>1 DEF Covers
<1> QED  BY <1>1 DEF Covers

(* No action but an answer shown and an opened channel touches the list, the *)
(* token or the newest video.                                                *)
Quiet == UNCHANGED <<videos, newest, token>>

LEMMA QuietSteps ==
  /\ ChannelFails \/ ScrollEnd \/ Upload \/ UNCHANGED vars => Quiet
  /\ \A n \in DOMAIN loads : Answer(n) \/ LoadFails(n) => Quiet
  BY DEF Quiet, ChannelFails, ScrollEnd, Upload, vars, Answer, LoadFails

LEMMA TokenAhead ==
  ASSUME VideosAssumption, DataOK, Bounds, NotYet, Ahead, [Next]_vars,
         uploaded' \in Nat, uploaded <= uploaded'
  PROVE  Covers(Offset(token), uploaded)'
<1>1. CASE ChannelComes
  <2>1. token' = 0 /\ newest' = uploaded /\ uploaded' = uploaded
    BY <1>1 DEF ChannelComes, NotYet
  <2>2. Offset(token)' = 0
    BY <2>1 DEF Offset, Null
  <2>3. ASSUME NEW w \in 1 .. newest', uploaded' - 0 < w PROVE w \in Shown'
    BY <2>1, <2>3, Numbers
  <2> QED  BY <2>2, <2>3 DEF Covers
<1>2. ASSUME NEW n \in DOMAIN loads, Loaded(n) PROVE Covers(Offset(token), uploaded)'
  <2> DEFINE t == loads[n].total
             f == loads[n].from
  <2>1. /\ t \in Nat /\ f \in Nat /\ newest <= t /\ t <= uploaded
        /\ newest' = newest /\ uploaded' = uploaded
    BY <1>2, LoadedShows DEF Loaded
  <2>2. \A w \in 1 .. newest : t - f - PageSize < w => w \in Shown'
    BY <1>2, PageCloses
  <2>3. token' = IF f + PageSize < t THEN f + PageSize ELSE Null
    BY <1>2 DEF Loaded, TokenAfter, NextToken
  <2> HIDE DEF t, f
  <2>4. Offset(token)' = IF f + PageSize < t THEN f + PageSize ELSE 0
    BY <2>1, <2>3, Numbers DEF Offset, Null
  <2>5. ASSUME NEW w \in 1 .. newest, uploaded - Offset(token)' < w PROVE w \in Shown'
    <3>1. CASE f + PageSize < t
      <4>1. t - f - PageSize < w
        BY <2>1, <2>4, <2>5, <3>1, Numbers
      <4> QED  BY <2>2, <4>1
    <3>2. CASE ~(f + PageSize < t)
      BY <2>1, <2>4, <2>5, <3>2, Numbers
    <3> QED  BY <3>1, <3>2
  <2> QED  BY <2>1, <2>5 DEF Covers
<1>3. CASE Quiet
  <2>1. newest' = newest /\ Shown' = Shown /\ Offset(token)' = Offset(token)
    BY <1>3 DEF Quiet, Shown
  <2>2. Covers(Offset(token), uploaded)
    BY DEF Ahead
  <2>3. PICK k \in Nat : k = Offset(token)
    BY Numbers
  <2>4. ASSUME NEW w \in 1 .. newest', uploaded' - k < w PROVE w \in Shown'
    <3>1. uploaded \in Int /\ uploaded' \in Int /\ k \in Int /\ w \in Int
      BY <2>1, <2>4, Numbers
    <3>2. \A a, b, x, y \in Int : a <= b /\ b - x < y => a - x < y
      OBVIOUS
    <3>3. uploaded <= uploaded'
      OBVIOUS
    <3>4. uploaded - k < w
      BY <2>4, <3>1, <3>2, <3>3
    <3> QED  BY <2>1, <2>2, <2>3, <2>4, <3>4 DEF Covers
  <2> QED  BY <2>1, <2>3, <2>4 DEF Covers
<1> QED  BY <1>1, <1>2, <1>3, QuietSteps DEF Next

(* The loads stay ahead too; a load that starts asks for the token's page.   *)
AheadLoad(l) ==
  /\ l.state = "asked" => Covers(l.from, uploaded)
  /\ l.state = "answered" => Covers(l.from, l.total)

LEMMA KeptLoad ==
  ASSUME VideosAssumption, DataOK, newest' = newest, Shown \subseteq Shown',
         uploaded' \in Nat, uploaded <= uploaded',
         NEW l \in Load, AheadLoad(l)
  PROVE  AheadLoad(l)'
<1>1. l.from \in Nat /\ l.total \in Nat
  BY DEF Load
<1>2. l.state = "asked" => Covers(l.from, uploaded)'
  <2>1. ASSUME l.state = "asked", NEW w \in 1 .. newest', uploaded' - l.from < w PROVE w \in Shown'
    <3>1. uploaded - l.from < w
      BY <1>1, <2>1, Numbers
    <3> QED  BY <2>1, <3>1 DEF AheadLoad, Covers
  <2> QED  BY <2>1 DEF Covers
<1>3. l.state = "answered" => Covers(l.from, l.total)'
  BY <1>1, CoversKept DEF AheadLoad
<1> QED  BY <1>2, <1>3 DEF AheadLoad

LEMMA LoadsAhead ==
  ASSUME VideosAssumption, DataOK, Bounds, NotYet, Ahead, [Next]_vars, DataOK',
         uploaded <= uploaded', Covers(Offset(token), uploaded)'
  PROVE  \A n \in DOMAIN loads' : AheadLoad(loads[n])'
<1>0. /\ \A n \in DOMAIN loads : AheadLoad(loads[n]) /\ loads[n] \in Load
      /\ uploaded' \in Nat
  BY Numbers DEF Ahead, AheadLoad, DataOK
<1>k. ASSUME NEW m \in DOMAIN loads, loads'[m] = loads[m], newest' = newest, Shown \subseteq Shown'
      PROVE  AheadLoad(loads[m])'
  <2>1. PICK l \in Load : l = loads[m]
    BY <1>0
  <2>2. AheadLoad(l)'
    BY <1>0, <1>k, <2>1, KeptLoad
  <2> QED  BY <1>k, <2>1, <2>2 DEF AheadLoad, Covers
<1>1. ASSUME StartLoad, token' = token, UNCHANGED <<videos, newest>> \/ loads = <<>>,
             NEW m \in DOMAIN loads'
      PROVE  AheadLoad(loads[m])'
  <2>1. CASE m \in DOMAIN loads
    <3>1. loads'[m] = loads[m] /\ loads # <<>>
      BY <1>1, <2>1, LoadStarted DEF DataOK
    <3>2. newest' = newest /\ Shown' = Shown
      BY <1>1, <3>1 DEF Shown
    <3> QED  BY <1>0, <2>1, <3>1, <3>2, <1>k
  <2>2. CASE m \notin DOMAIN loads
    <3>1. loads'[m] = Asked
      BY <1>1, <2>2, LoadStarted DEF DataOK
    <3>2. loads'[m].state = "asked" /\ loads'[m].from = Offset(token)'
      BY <1>1, <3>1 DEF Asked, Offset
    <3> QED  BY <3>2 DEF AheadLoad
  <2> QED  BY <2>1, <2>2
<1>2. CASE ChannelComes
  <2>1. StartLoad /\ token' = token /\ loads = <<>>
    BY <1>2 DEF ChannelComes, NotYet
  <2> QED  BY <1>1, <2>1
<1>3. CASE ScrollEnd
  <2>1. StartLoad /\ token' = token /\ UNCHANGED <<videos, newest>>
    BY <1>3 DEF ScrollEnd
  <2> QED  BY <1>1, <2>1
<1>4. CASE loads' = loads /\ Quiet
  <2>1. newest' = newest /\ Shown' = Shown
    BY <1>4 DEF Quiet, Shown
  <2> QED  BY <1>0, <1>4, <2>1, <1>k
<1>5. ASSUME NEW n \in DOMAIN loads, Answer(n) \/ Loaded(n) \/ LoadFails(n), NEW m \in DOMAIN loads'
      PROVE  AheadLoad(loads[m])'
  <2>1. newest' = newest /\ Shown \subseteq Shown' /\ uploaded' = uploaded
    <3>1. Loaded(n) => Shown' = Shown \cup PageSet(loads[n].total, loads[n].from)
      BY LoadedShows
    <3>2. Answer(n) \/ LoadFails(n) => Shown' = Shown
      BY DEF Answer, LoadFails, Shown
    <3>3. newest' = newest /\ uploaded' = uploaded
      BY <1>5 DEF Answer, Loaded, LoadFails
    <3> QED  BY <1>5, <3>1, <3>2, <3>3
  <2>2. /\ Answer(n) => Moved(n, "answered", uploaded)
        /\ Loaded(n) \/ LoadFails(n) => Moved(n, "ended", loads[n].total)
    BY LoadMoved, Numbers DEF DataOK
  <2>3. CASE m # n
    <3>1. loads'[m] = loads[m] /\ m \in DOMAIN loads
      BY <1>5, <2>2, <2>3 DEF Moved
    <3> QED  BY <1>0, <2>1, <3>1, <1>k
  <2>4. CASE m = n /\ Answer(n)
    <3>1. /\ loads'[m].state = "answered" /\ loads'[m].from = loads[n].from
          /\ loads'[m].total = uploaded
      BY <2>2, <2>4 DEF Moved
    <3>2. Covers(loads[n].from, uploaded)
      BY <2>4 DEF Answer, Ahead
    <3>3. Covers(loads[m].from, loads[m].total)'
      <4> DEFINE k == loads[n].from
                 u == uploaded
      <4>1. k \in Nat /\ u \in Nat /\ Covers(k, u)
        BY <3>2, Numbers
      <4> HIDE DEF k, u
      <4>2. \A w \in 1 .. newest' : u - k < w => w \in Shown'
        BY <2>1, <4>1 DEF Covers
      <4> QED  BY <3>1, <4>2 DEF Covers, k, u
    <3> QED  BY <3>1, <3>3 DEF AheadLoad
  <2>5. CASE m = n /\ (Loaded(n) \/ LoadFails(n))
    <3>1. loads'[m].state = "ended"
      BY <2>2, <2>5 DEF Moved
    <3> QED  BY <3>1 DEF AheadLoad
  <2> QED  BY <1>5, <2>3, <2>4, <2>5
<1>6. ChannelFails \/ Upload \/ UNCHANGED vars => loads' = loads /\ Quiet
  BY QuietSteps DEF ChannelFails, Upload, vars
<1> QED  BY <1>2, <1>3, <1>4, <1>5, <1>6 DEF Next

LEMMA AheadStep ==
  ASSUME VideosAssumption, DataOK, Bounds, NotYet, Ahead, [Next]_vars
  PROVE  Ahead'
<1>1. DataOK'
  BY DataStep
<1>2. uploaded' \in Nat /\ uploaded <= uploaded'
  <2>1. uploaded' = uploaded \/ uploaded' = uploaded + 1
    BY DEF Next, vars, ChannelComes, ChannelFails, ScrollEnd, Upload, Answer, Loaded, LoadFails
  <2> QED  BY <2>1, Numbers
<1>3. Covers(Offset(token), uploaded)'
  BY <1>2, TokenAhead
<1>4. \A n \in DOMAIN loads' : AheadLoad(loads[n])'
  BY <1>1, <1>2, <1>3, LoadsAhead
<1> QED  BY <1>3, <1>4 DEF Ahead, AheadLoad

-----------------------------------------------------------------------------
(* The order of the list while no loads overlapped and none was uploaded.    *)

Calm == ~overlapped /\ uploaded = Initial
Prefix == \A i \in DOMAIN videos : videos[i] = Initial - i + 1

(* One load at a time.                                                       *)
Alone == ~overlapped => \A m, n \in UnderWay : m = n

(* Until the playlist is listed the next page is the one asked for.          *)
InOrder ==
  Calm /\ Len(videos) < Initial =>
    /\ Offset(token) = Len(videos)
    /\ Prefix
    /\ \A n \in UnderWay : loads[n].from = Len(videos)

Complete == Calm /\ Len(videos) >= Initial => 1 .. Initial \subseteq Shown

(* A channel that counts no more than its playlist has is listed once.       *)
Once ==
  Calm /\ videoCount <= Initial =>
    /\ Len(videos) <= Initial
    /\ Prefix
    /\ UnderWay # {} => Len(videos) < Initial \/ Initial = 0

Orderly == Alone /\ InOrder /\ Complete /\ Once

LEMMA UnderWayStarted ==
  ASSUME DataOK, StartLoad
  PROVE  /\ UnderWay' = UnderWay \cup {Len(loads) + 1}
         /\ \A n \in UnderWay' : n \notin UnderWay => loads'[n].from = Offset(token)
<1>1. /\ DOMAIN loads = 1 .. Len(loads) /\ Len(loads) \in Nat
      /\ DOMAIN loads' = 1 .. Len(loads) + 1
      /\ \A n \in DOMAIN loads : loads'[n] = loads[n]
      /\ loads'[Len(loads) + 1] = Asked
  BY LoadStarted DEF DataOK
<1>2. DOMAIN loads' = DOMAIN loads \cup {Len(loads) + 1}
  BY <1>1
<1>3. Asked.state = "asked" /\ Asked.from = Offset(token)
  BY DEF Asked
<1>4. UnderWay' = UnderWay \cup {Len(loads) + 1}
  BY <1>1, <1>2, <1>3 DEF UnderWay
<1>5. \A n \in UnderWay' : n \notin UnderWay => loads'[n].from = Offset(token)
  BY <1>1, <1>3, <1>4
<1> QED  BY <1>4, <1>5

LEMMA UnderWayMoved ==
  ASSUME VideosAssumption, DataOK, NEW n \in DOMAIN loads
  PROVE  /\ Answer(n) => UnderWay' = UnderWay
         /\ Loaded(n) \/ LoadFails(n) => UnderWay' = UnderWay \ {n} /\ n \in UnderWay
         /\ Answer(n) \/ Loaded(n) \/ LoadFails(n) =>
              \A m \in UnderWay' : m \in UnderWay /\ loads'[m].from = loads[m].from
<1>1. /\ Answer(n) => Moved(n, "answered", uploaded)
      /\ Loaded(n) \/ LoadFails(n) => Moved(n, "ended", loads[n].total)
  BY LoadMoved, Numbers DEF DataOK
<1>2. Answer(n) \/ Loaded(n) \/ LoadFails(n) => n \in UnderWay
  BY DEF Answer, Loaded, LoadFails, UnderWay
<1>3. Answer(n) => UnderWay' = UnderWay
  BY <1>1, <1>2 DEF Moved, UnderWay
<1>4. Loaded(n) \/ LoadFails(n) => UnderWay' = UnderWay \ {n}
  BY <1>1, <1>2 DEF Moved, UnderWay
<1>5. Answer(n) \/ Loaded(n) \/ LoadFails(n) =>
        \A m \in DOMAIN loads : loads'[m].from = loads[m].from
  BY <1>1 DEF Moved
<1>6. UnderWay \subseteq DOMAIN loads
  BY DEF UnderWay
<1> QED  BY <1>2, <1>3, <1>4, <1>5, <1>6

(* An empty list is in order, whatever load starts.                          *)
LEMMA OpeningInOrder ==
  ASSUME VideosAssumption, DataOK, NotYet, ChannelComes
  PROVE  Orderly'
<1>1. /\ videos' = <<>> /\ token' = 0 /\ loads = <<>> /\ StartLoad /\ uploaded' = uploaded
  BY DEF ChannelComes, NotYet
<1>2. Len(videos') = 0 /\ DOMAIN videos' = {}
  BY <1>1, EmptySeq
<1>3. UnderWay = {}
  BY <1>1, Numbers DEF UnderWay
<1>4. /\ UnderWay' = {Len(loads) + 1}
      /\ \A n \in UnderWay' : loads'[n].from = Offset(token)
  BY <1>1, <1>3, UnderWayStarted
<1>5. Offset(token) = 0 /\ Offset(token)' = 0
  BY <1>1 DEF Offset, Null, ChannelComes, NotYet
<1>6. Alone'
  BY <1>4 DEF Alone
<1>7. Prefix'
  BY <1>2 DEF Prefix
<1>8. InOrder'
  BY <1>2, <1>4, <1>5, <1>7 DEF InOrder
<1>9. Complete'
  BY <1>2, Numbers DEF Complete
<1>10. Once'
  BY <1>2, <1>7, Numbers DEF Once
<1> QED  BY <1>6, <1>8, <1>9, <1>10 DEF Orderly

LEMMA ScrollInOrder ==
  ASSUME VideosAssumption, DataOK, Orderly, ScrollEnd
  PROVE  Orderly'
<1>1. /\ StartLoad /\ Len(videos) < videoCount
      /\ UNCHANGED <<uploaded, videoCount, token, videos>>
      /\ overlapped' = (overlapped \/ UnderWay # {})
  BY DEF ScrollEnd, StartLoad
<1>2. /\ UnderWay' = UnderWay \cup {Len(loads) + 1}
      /\ \A n \in UnderWay' : n \notin UnderWay => loads'[n].from = Offset(token)
  BY <1>1, UnderWayStarted
<1>3. ~overlapped' => ~overlapped /\ UnderWay = {}
  BY <1>1
<1>4. Alone'
  BY <1>2, <1>3 DEF Alone
<1>5. /\ Calm' => Calm /\ UnderWay = {}
      /\ Prefix' <=> Prefix
      /\ Shown' = Shown /\ Len(videos') = Len(videos) /\ Offset(token)' = Offset(token)
  BY <1>1, <1>3 DEF Calm, Prefix, Shown, Offset
<1>6. InOrder'
  <2> SUFFICES ASSUME Calm', Len(videos') < Initial
               PROVE  /\ Offset(token)' = Len(videos')
                      /\ Prefix'
                      /\ \A n \in UnderWay' : loads'[n].from = Len(videos')
    BY DEF InOrder
  <2>1. Offset(token) = Len(videos) /\ Prefix
    BY <1>5 DEF Orderly, InOrder
  <2> QED  BY <1>2, <1>5, <2>1
<1>7. Complete'
  BY <1>5 DEF Orderly, Complete
<1>8. Once'
  <2> SUFFICES ASSUME Calm', videoCount' <= Initial
               PROVE  Len(videos') <= Initial /\ Prefix' /\ Len(videos') < Initial
    BY DEF Once
  <2>1. Calm /\ videoCount <= Initial
    BY <1>1, <1>5
  <2>2. Prefix
    BY <2>1 DEF Orderly, Once
  <2>3. Len(videos) < Initial
    BY <1>1, <2>1, Numbers
  <2> QED  BY <1>5, <2>2, <2>3, Numbers
<1> QED  BY <1>4, <1>6, <1>7, <1>8 DEF Orderly

(* A list in order from the newest to the oldest shows the whole playlist.   *)
LEMMA PrefixShowsAll ==
  ASSUME VideosAssumption, DataOK, Prefix
  PROVE  /\ Len(videos) <= Initial => Shown = (Initial - Len(videos) + 1) .. Initial
         /\ Len(videos) = Initial => 1 .. Initial \subseteq Shown
<1>1. /\ DOMAIN videos = 1 .. Len(videos) /\ Len(videos) \in Nat /\ Initial \in Nat
      /\ \A i \in 1 .. Len(videos) : videos[i] = Initial - i + 1
  BY Numbers DEF Prefix
<1>2. ASSUME Len(videos) <= Initial
      PROVE  Shown = (Initial - Len(videos) + 1) .. Initial
  <2>1. ASSUME NEW i \in DOMAIN videos PROVE videos[i] \in (Initial - Len(videos) + 1) .. Initial
    <3>1. videos[i] = Initial - i + 1 /\ i \in 1 .. Len(videos)
      BY <1>1
    <3> QED  BY <1>1, <3>1
  <2>2. ASSUME NEW w \in (Initial - Len(videos) + 1) .. Initial PROVE w \in Shown
    <3> DEFINE i == Initial - w + 1
    <3>1. i \in 1 .. Len(videos) /\ Initial - i + 1 = w
      BY <1>1, <1>2
    <3> HIDE DEF i
    <3>2. i \in DOMAIN videos /\ videos[i] = w
      BY <1>1, <3>1
    <3> QED  BY <3>2 DEF Shown
  <2>3. Shown \subseteq (Initial - Len(videos) + 1) .. Initial
    BY <2>1 DEF Shown
  <2> QED  BY <2>2, <2>3
<1>3. ASSUME Len(videos) = Initial PROVE 1 .. Initial \subseteq Shown
  <2>1. Initial - Len(videos) + 1 = 1 /\ Len(videos) <= Initial
    BY <1>1, <1>3
  <2> QED  BY <1>2, <2>1
<1> QED  BY <1>2, <1>3

(* The page of a load in order goes on where the list ends.                  *)
LEMMA PageInOrder ==
  ASSUME VideosAssumption, DataOK, Prefix, Len(videos) <= Initial,
         videos' = videos \o Page(Initial, Len(videos))
  PROVE  \A i \in DOMAIN videos' : videos'[i] = Initial - i + 1
<1> DEFINE batch == Page(Initial, Len(videos))
           P == PageLen(Initial, Len(videos))
<1>1. Len(videos) \in Nat /\ Initial \in Nat /\ DOMAIN videos = 1 .. Len(videos)
  BY Numbers
<1>2. /\ P \in Nat /\ batch \in Seq(1 .. Initial) /\ Len(batch) = P
      /\ \A i \in 1 .. P : batch[i] = Initial - Len(videos) - i + 1
  BY <1>1, PageIs
<1>3. videos' = videos \o batch
  OBVIOUS
<1> HIDE DEF batch, P
<1>4. batch \in Seq(Int) /\ videos \in Seq(Int)
  <2>1. \A i \in 1 .. Len(batch) : batch[i] \in Int
    BY <1>1, <1>2, ElementOfSeq
  <2>2. batch \in [1 .. Len(batch) -> Int] /\ Len(batch) \in Nat
    BY <1>2, <2>1, LenProperties
  <2>3. \A i \in 1 .. Len(videos) : videos[i] \in Int
    BY <1>1 DEF Prefix
  <2>4. videos \in [1 .. Len(videos) -> Int]
    BY <2>3, LenProperties DEF DataOK
  <2>5. batch \in Seq(Int)
    BY <2>2, SeqDef
  <2>6. videos \in Seq(Int)
    BY <1>1, <2>4, SeqDef
  <2> QED  BY <2>5, <2>6
<1>5. /\ videos' \in Seq(Int) /\ Len(videos') = Len(videos) + P
      /\ \A i \in 1 .. Len(videos) + P :
           videos'[i] = IF i <= Len(videos) THEN videos[i] ELSE batch[i - Len(videos)]
  <2>1. /\ videos \o batch \in Seq(Int) /\ Len(videos \o batch) = Len(videos) + Len(batch)
        /\ \A i \in 1 .. Len(videos) + Len(batch) :
             (videos \o batch)[i] = IF i <= Len(videos) THEN videos[i] ELSE batch[i - Len(videos)]
    BY <1>4, ConcatProperties
  <2> QED  BY <1>2, <1>3, <2>1
<1>6. DOMAIN videos' = 1 .. Len(videos) + P
  BY <1>5, LenProperties
<1>7. ASSUME NEW i \in DOMAIN videos' PROVE videos'[i] = Initial - i + 1
  <2>1. CASE i <= Len(videos)
    <3>1. i \in DOMAIN videos /\ videos'[i] = videos[i]
      BY <1>1, <1>2, <1>5, <1>6, <1>7, <2>1
    <3> QED  BY <3>1 DEF Prefix
  <2>2. CASE ~(i <= Len(videos))
    <3> DEFINE j == i - Len(videos)
    <3>1. j \in 1 .. P /\ videos'[i] = batch[j] /\ i = Len(videos) + j /\ i \in Int
      BY <1>1, <1>2, <1>5, <1>6, <1>7, <2>2
    <3> HIDE DEF j
    <3>2. videos'[i] = Initial - Len(videos) - j + 1 /\ j \in Int
      BY <1>2, <3>1
    <3> QED  BY <1>1, <3>1, <3>2
  <2> QED  BY <2>1, <2>2
<1> QED  BY <1>7

LEMMA LoadedInOrder ==
  ASSUME VideosAssumption, DataOK, Bounds, Orderly, NEW n \in DOMAIN loads, Loaded(n), DataOK'
  PROVE  Orderly'
<1>1. /\ Shown' = Shown \cup PageSet(loads[n].total, loads[n].from)
      /\ videos' = videos \o Page(loads[n].total, loads[n].from)
      /\ Len(videos') = Len(videos) + PageLen(loads[n].total, loads[n].from)
      /\ loads[n].from \in Nat /\ loads[n].total \in Nat
      /\ loads[n].total <= uploaded /\ Initial <= loads[n].total
  BY LoadedShows
<1>2. /\ UNCHANGED <<uploaded, videoCount, overlapped>>
      /\ token' = NextToken(loads[n].total, loads[n].from)
  BY DEF Loaded, TokenAfter
<1>3. /\ UnderWay' = UnderWay \ {n} /\ n \in UnderWay
      /\ \A m \in UnderWay' : m \in UnderWay /\ loads'[m].from = loads[m].from
  BY UnderWayMoved
<1>4. Alone'
  BY <1>2, <1>3 DEF Orderly, Alone
<1>5. Calm' => Calm /\ UnderWay' = {} /\ loads[n].total = Initial
  <2>1. Calm' => Calm
    BY <1>2 DEF Calm
  <2>2. Calm => \A m \in UnderWay : m = n
    BY <1>3 DEF Orderly, Alone, Calm
  <2>3. Calm => loads[n].total = Initial
    BY <1>1, Numbers DEF Calm
  <2> QED  BY <1>3, <2>1, <2>2, <2>3
<1>6. Len(videos') \in Nat /\ Len(videos') >= Len(videos)
  <2>1. PageLen(loads[n].total, loads[n].from) \in Nat
    BY <1>1, PageIs
  <2>2. Len(videos) \in Nat
    BY Numbers
  <2> QED  BY <1>1, <2>1, <2>2
<1>7. ASSUME Calm', Len(videos) < Initial
      PROVE  /\ Prefix' /\ Len(videos') <= Initial
             /\ Len(videos') < Initial => Offset(token)' = Len(videos')
  <2>1. Prefix /\ loads[n].from = Len(videos) /\ loads[n].total = Initial
    BY <1>3, <1>5, <1>7 DEF Orderly, InOrder
  <2>2. Prefix'
    <3>1. videos' = videos \o Page(Initial, Len(videos))
      BY <1>1, <2>1
    <3>2. Prefix /\ Len(videos) <= Initial
      BY <1>7, <2>1, Numbers
    <3>3. \A i \in DOMAIN videos' : videos'[i] = Initial - i + 1
      BY <3>1, <3>2, PageInOrder
    <3> QED  BY <3>3 DEF Prefix
  <2>3. Len(videos') = IF Len(videos) + PageSize <= Initial THEN Len(videos) + PageSize ELSE Initial
    BY <1>1, <1>7, <2>1, Numbers DEF PageLen
  <2>4. token' = IF Len(videos) + PageSize < Initial THEN Len(videos) + PageSize ELSE Null
    BY <1>2, <2>1 DEF NextToken
  <2>5. Len(videos') < Initial => Len(videos) + PageSize < Initial /\ Len(videos') = Len(videos) + PageSize
    BY <1>7, <2>3, Numbers
  <2>6. Len(videos') < Initial => Offset(token)' = Len(videos')
    BY <1>6, <2>4, <2>5, Numbers DEF Offset, Null
  <2>7. Len(videos') <= Initial
    BY <2>3, Numbers
  <2> QED  BY <2>2, <2>6, <2>7
<1>8. InOrder'
  <2> SUFFICES ASSUME Calm', Len(videos') < Initial
               PROVE  Offset(token)' = Len(videos') /\ Prefix' /\ UnderWay' = {}
    BY DEF InOrder
  <2>1. Len(videos) < Initial
    BY <1>6, Numbers
  <2> QED  BY <1>5, <1>7, <2>1
<1>9. Complete'
  <2> SUFFICES ASSUME Calm', Len(videos') >= Initial
               PROVE  1 .. Initial \subseteq Shown'
    BY DEF Complete
  <2>1. CASE Len(videos) < Initial
    <3>1. Prefix' /\ Len(videos') = Initial
      BY <1>6, <1>7, <2>1, Numbers
    <3>2. \A w \in 1 .. Initial : Initial - w + 1 \in DOMAIN videos' /\ Initial - (Initial - w + 1) + 1 = w
      BY <3>1, Numbers, LenProperties DEF DataOK
    <3>3. \A w \in 1 .. Initial : w \in Shown'
      <4> TAKE w \in 1 .. Initial
      <4> DEFINE i == Initial - w + 1
      <4>1. i \in DOMAIN videos' /\ Initial - i + 1 = w
        BY <3>2
      <4> HIDE DEF i
      <4>2. videos'[i] = w
        BY <3>1, <4>1 DEF Prefix
      <4> QED  BY <4>1, <4>2 DEF Shown
    <3> QED  BY <3>3
  <2>2. CASE ~(Len(videos) < Initial)
    <3>1. Len(videos) >= Initial /\ Calm
      BY <1>5, <2>2, Numbers
    <3> QED  BY <1>1, <3>1 DEF Orderly, Complete
  <2> QED  BY <2>1, <2>2
<1>10. Once'
  <2> SUFFICES ASSUME Calm', videoCount' <= Initial
               PROVE  Len(videos') <= Initial /\ Prefix' /\ UnderWay' = {}
    BY DEF Once
  <2>1. Calm /\ videoCount <= Initial /\ UnderWay # {} /\ UnderWay' = {}
    BY <1>2, <1>3, <1>5
  <2>2. Len(videos) <= Initial /\ Prefix /\ (Len(videos) < Initial \/ Initial = 0)
    BY <2>1 DEF Orderly, Once
  <2>3. CASE Len(videos) < Initial
    BY <1>7, <2>1, <2>3
  <2>4. CASE Initial = 0
    <3>1. PageLen(0, loads[n].from) = 0
      BY <1>1 DEF PageLen
    <3>2. Len(videos') = 0
      BY <1>1, <1>5, <2>2, <2>4, <3>1, Numbers
    <3>3. DOMAIN videos' = {}
      BY <3>2, LenProperties DEF DataOK
    <3>4. Prefix'
      BY <3>3 DEF Prefix
    <3> QED  BY <2>1, <2>4, <3>2, <3>4
  <2> QED  BY <2>2, <2>3, <2>4
<1> QED  BY <1>4, <1>8, <1>9, <1>10 DEF Orderly

LEMMA OrderlyStep ==
  ASSUME VideosAssumption, DataOK, Bounds, NotYet, Orderly, [Next]_vars
  PROVE  Orderly'
<1>1. ASSUME UNCHANGED <<videoCount, token, videos, overlapped>>,
             uploaded' = uploaded \/ uploaded' # Initial,
             \A m \in UnderWay' : m \in UnderWay /\ loads'[m].from = loads[m].from
      PROVE  Orderly'
  <2>1. /\ Calm' => Calm
        /\ Prefix' <=> Prefix
        /\ Shown' = Shown /\ Len(videos') = Len(videos) /\ Offset(token)' = Offset(token)
    BY <1>1 DEF Calm, Prefix, Shown, Offset
  <2>2. Alone'
    BY <1>1 DEF Orderly, Alone
  <2>3. InOrder'
    BY <1>1, <2>1 DEF Orderly, InOrder
  <2>4. Complete'
    BY <2>1 DEF Orderly, Complete
  <2>5. Once'
    BY <1>1, <2>1 DEF Orderly, Once
  <2> QED  BY <2>2, <2>3, <2>4, <2>5 DEF Orderly
<1>2. CASE ChannelComes  BY <1>2, OpeningInOrder
<1>3. CASE ScrollEnd  BY <1>3, ScrollInOrder
<1>4. CASE ChannelFails
  <2>1. UnderWay' = UnderWay /\ UNCHANGED <<uploaded, videoCount, token, videos, overlapped, loads>>
    BY <1>4 DEF ChannelFails, UnderWay
  <2> QED  BY <1>1, <2>1
<1>5. CASE Upload
  <2>1. UnderWay' = UnderWay /\ UNCHANGED <<videoCount, token, videos, overlapped, loads>>
    BY <1>5 DEF Upload, UnderWay
  <2>2. uploaded' # Initial
    BY <1>5, Numbers DEF Upload
  <2> QED  BY <1>1, <2>1, <2>2
<1>6. ASSUME NEW n \in DOMAIN loads, Answer(n) \/ LoadFails(n) PROVE Orderly'
  <2>1. \A m \in UnderWay' : m \in UnderWay /\ loads'[m].from = loads[m].from
    BY <1>6, UnderWayMoved
  <2>2. UNCHANGED <<uploaded, videoCount, token, videos, overlapped>>
    BY <1>6 DEF Answer, LoadFails
  <2> QED  BY <1>1, <2>1, <2>2
<1>7. ASSUME NEW n \in DOMAIN loads, Loaded(n) PROVE Orderly'
  <2>1. DataOK'
    BY DataStep
  <2> QED  BY <1>7, <2>1, LoadedInOrder
<1>8. CASE UNCHANGED vars
  <2>1. UnderWay' = UnderWay /\ UNCHANGED <<uploaded, videoCount, token, videos, overlapped, loads>>
    BY <1>8 DEF vars, UnderWay
  <2> QED  BY <1>1, <2>1
<1> QED  BY <1>2, <1>3, <1>4, <1>5, <1>6, <1>7, <1>8 DEF Next

(* What the order of the list says of the videos shown.                      *)
LEMMA CountShown ==
  ASSUME VideosAssumption, DataOK, Prefix, Len(videos) <= Initial
  PROVE  Cardinality(Shown) = Len(videos)
<1>1. Shown = (Initial - Len(videos) + 1) .. Initial
  BY PrefixShowsAll
<1>2. Initial \in Int /\ Len(videos) \in Nat /\ Initial - Len(videos) + 1 \in Int
  BY Numbers
<1> DEFINE a == Initial - Len(videos) + 1
<1>3. Cardinality(a .. Initial) = IF a > Initial THEN 0 ELSE Initial - a + 1
  BY <1>2, FS_Interval
<1>4. (IF a > Initial THEN 0 ELSE Initial - a + 1) = Len(videos)
  BY <1>2
<1> QED  BY <1>1, <1>3, <1>4

(* There are n numbers from 1 to n.                                          *)
LEMMA IntervalSize == ASSUME NEW n \in Nat PROVE Cardinality(1 .. n) = n
<1>1. Cardinality(1 .. n) = IF 1 > n THEN 0 ELSE n - 1 + 1
  BY FS_Interval
<1> QED  BY <1>1

LEMMA OrderlyMeans ==
  ASSUME VideosAssumption, DataOK, Orderly
  PROVE  RepeatsHaveCause /\ StopsComplete
<1>1. RepeatsHaveCause
  <2> SUFFICES ASSUME ~overlapped, ~(uploaded > Initial), ~(videoCount > Initial)
               PROVE  Cardinality(Shown) = Len(videos)
    BY DEF RepeatsHaveCause
  <2>1. Calm /\ videoCount <= Initial
    BY Numbers DEF Calm
  <2>2. Len(videos) <= Initial /\ Prefix
    BY <2>1 DEF Orderly, Once
  <2> QED  BY <2>2, CountShown
<1>2. StopsComplete
  <2> SUFFICES ASSUME Calm, videoCount # Null, Len(videos) >= videoCount
               PROVE  Cardinality(Shown) >= IF videoCount < Initial THEN videoCount ELSE Initial
    BY DEF StopsComplete, Calm
  <2>1. CASE Len(videos) < Initial
    <3>1. Prefix /\ Len(videos) <= Initial
      BY <2>1, Numbers DEF Orderly, InOrder
    <3>2. Cardinality(Shown) = Len(videos)
      BY <3>1, CountShown
    <3> QED  BY <2>1, <3>2, Numbers
  <2>2. CASE ~(Len(videos) < Initial)
    <3>1. 1 .. Initial \subseteq Shown
      BY <2>2, Numbers DEF Orderly, Complete
    <3>2. IsFiniteSet(1 .. uploaded) /\ Shown \subseteq 1 .. uploaded
      <4>1. IsFiniteSet(1 .. uploaded)
        BY FS_Interval, Numbers
      <4>2. \A i \in DOMAIN videos : videos[i] \in 1 .. uploaded
        BY ElementOfSeq, Numbers DEF DataOK
      <4> QED  BY <4>1, <4>2 DEF Shown
    <3>3. IsFiniteSet(Shown) /\ Cardinality(Shown) \in Nat
      BY <3>2, FS_Subset, FS_CardinalityType
    <3>4. Cardinality(1 .. Initial) <= Cardinality(Shown)
      BY <3>1, <3>3, FS_Subset
    <3>5. Initial \in Nat
      BY Numbers
    <3>6. Cardinality(1 .. Initial) = Initial
      BY <3>5, IntervalSize
    <3>7. Cardinality(Shown) >= Initial
      BY <3>3, <3>4, <3>5, <3>6
    <3>8. videoCount \in Nat
      BY DEF DataOK, VideosAssumption
    <3> QED  BY <3>3, <3>5, <3>7, <3>8
  <2> QED  BY <2>1, <2>2
<1> QED  BY <1>1, <1>2

-----------------------------------------------------------------------------
(* The inductive invariant and what it shows.                                *)

IInv == FlagsOK /\ DataOK /\ Bounds /\ NotYet /\ Ahead /\ NoGaps /\ Orderly

LEMMA InitIInv == ASSUME VideosAssumption, Init PROVE IInv
<1>1. /\ uploaded = Initial /\ videoCount = Null /\ token = 0 /\ videos = <<>>
      /\ opening = "channel" /\ loads = <<>> /\ newest = 0 /\ loading = TRUE /\ overlapped = FALSE
  BY DEF Init
<1>2. /\ Len(videos) = 0 /\ DOMAIN videos = {} /\ DOMAIN loads = {}
      /\ videos \in Seq(1 .. uploaded) /\ loads \in Seq(Load)
  BY <1>1, EmptySeq
<1>3. FlagsOK
  BY <1>1 DEF FlagsOK
<1>4. DataOK
  <2>1. uploaded \in Initial .. Initial + MaxUploads /\ token \in Tokens /\ newest \in Nat
    BY <1>1 DEF VideosAssumption, Tokens
  <2> QED  BY <1>1, <1>2, <2>1 DEF DataOK
<1>5. Bounds
  BY <1>1, <1>2, <1>4, Numbers DEF Bounds
<1>6. NotYet
  BY <1>1 DEF NotYet
<1>7. Shown = {} /\ UnderWay = {}
  BY <1>2 DEF Shown, UnderWay
<1>8. Ahead
  BY <1>1, <1>2 DEF Ahead, Covers
<1>9. NoGaps
  BY <1>7 DEF NoGaps
<1>10. Orderly
  <2>1. Offset(token) = 0
    BY <1>1 DEF Offset, Null
  <2>2. Prefix
    BY <1>2 DEF Prefix
  <2>3. Len(videos) >= Initial => 1 .. Initial = {}
    BY <1>2, <1>4, Numbers
  <2>4. Len(videos) <= Initial
    BY <1>2, <1>4, Numbers
  <2> QED  BY <1>2, <1>7, <2>1, <2>2, <2>3, <2>4 DEF Orderly, Alone, InOrder, Complete, Once
<1> QED  BY <1>3, <1>4, <1>5, <1>6, <1>8, <1>9, <1>10 DEF IInv

LEMMA NextIInv == ASSUME VideosAssumption, IInv, [Next]_vars PROVE IInv'
  BY FlagsStep, DataStep, NotYetStep, AheadStep, NoGapsStep, OrderlyStep DEF IInv

LEMMA Invariance == Spec => []IInv
<1>1. Init => IInv
  BY InitIInv, VideosAssumption
<1>2. IInv /\ [Next]_vars => IInv'
  BY NextIInv, VideosAssumption
<1> QED  BY <1>1, <1>2, PTL DEF Spec

(* The state of _VideosScreenState keeps its types: a load n that is listed  *)
(* has the page it asked for, and the list only videos of the playlist.      *)
THEOREM TypeCorrect == Spec => []TypeOK
<1>1. IInv => TypeOK
  BY TypeParts DEF IInv
<1> QED  BY <1>1, Invariance, PTL

(* No video between one on display and the newest of the first load is       *)
(* skipped, whatever loads overlap, fail or are answered out of order        *)
(* (videos_list_screen.dart:47-57, 78-89), for every page size.              *)
THEOREM NoVideoSkipped == Spec => []NoGaps
<1>1. IInv => NoGaps
  BY DEF IInv
<1> QED  BY <1>1, Invariance, PTL

(* A video is listed twice only after loads that overlapped, an upload, or   *)
(* with a channel that counts more videos than its playlist has              *)
(* (videos_list_screen.dart:80-87).                                          *)
THEOREM RepeatsExplained == Spec => []RepeatsHaveCause
<1>1. IInv => RepeatsHaveCause
  BY OrderlyMeans, VideosAssumption DEF IInv
<1> QED  BY <1>1, Invariance, PTL

(* When the scroll handler stops loading, all the videos counted are on      *)
(* display unless loads overlapped or a video was uploaded                   *)
(* (videos_list_screen.dart:82).                                             *)
THEOREM StopIsComplete == Spec => []StopsComplete
<1>1. IInv => StopsComplete
  BY OrderlyMeans, VideosAssumption DEF IInv
<1> QED  BY <1>1, Invariance, PTL

-----------------------------------------------------------------------------
(* The list of articles.                                                     *)


-----------------------------------------------------------------------------
(* A page of the server's list, whatever its number, is a sequence of       *)
(* articles of the category asked for.                                      *)
LEMMA NewestType ==
  ASSUME NEW c \in Categories, NEW top \in Int, NEW n \in Nat
  PROVE  Newest(c, top, n) \in Seq(Articles)
<1> DEFINE len == IF top < n THEN (IF top < 0 THEN 0 ELSE top) ELSE n
<1>1. len \in Nat /\ len <= n /\ (len # 0 => len <= top)
  OBVIOUS
<1>2. \A i \in 1 .. len : [cat |-> c, num |-> top - i + 1] \in Articles
  BY <1>1 DEF Articles
<1>3. Newest(c, top, n) = [i \in 1 .. len |-> [cat |-> c, num |-> top - i + 1]]
  BY DEF Newest
<1> HIDE DEF len
<1>4. Newest(c, top, n) \in [1 .. len -> Articles]
  BY <1>2, <1>3
<1> QED  BY <1>1, <1>4, SeqDef

-----------------------------------------------------------------------------
(* Type correctness.                                                        *)

(* ArticlesTypeOK in two parts: the flags, and the data.                    *)
ArticleFlagsOK ==
  /\ isFetching \in BOOLEAN
  /\ isEnd \in BOOLEAN
  /\ refreshing \in BOOLEAN
  /\ loadingMore \in BOOLEAN
  /\ clean \in BOOLEAN

ArticleDataOK ==
  /\ blogList \in Seq(Articles)
  /\ newCategoryId \in Categories \cup {NoCategory}
  /\ order \in Orders
  /\ page \in Nat \ {0}
  /\ requests \subseteq Requests
  /\ made \in Nat
  /\ posts \in [Categories -> Nat]

LEMMA ArticleTypeParts == (ArticlesTypeOK <=> ArticleFlagsOK /\ ArticleDataOK) /\ (ArticlesTypeOK' <=> ArticleFlagsOK' /\ ArticleDataOK')
  BY DEF ArticlesTypeOK, ArticleFlagsOK, ArticleDataOK

(* An answer is a sequence of articles.                                     *)
LEMMA PageType ==
  ASSUME PagingAssumption, ArticleDataOK, NEW r \in requests
  PROVE  PageOf(r.cat, r.page) \in Seq(Articles)
<1>1. r.cat \in Categories /\ r.page \in Nat \ {0}
  BY DEF ArticleDataOK, Requests
<1> DEFINE top == posts[r.cat] - (r.page - 1) * PerPage
<1>2. top \in Int /\ PerPage \in Nat
  BY <1>1 DEF ArticleDataOK, PagingAssumption
<1> HIDE DEF top
<1>3. Newest(r.cat, top, PerPage) \in Seq(Articles)
  BY <1>1, <1>2, NewestType
<1> QED  BY <1>3 DEF PageOf, top

LEMMA InitType == PagingAssumption /\ ArticlesInit => ArticlesTypeOK
<1> SUFFICES ASSUME PagingAssumption, ArticlesInit PROVE ArticlesTypeOK
  OBVIOUS
<1>1. ArticleFlagsOK
  BY DEF ArticlesInit, ArticleFlagsOK
<1>2. blogList \in Seq(Articles)
  BY EmptySeq DEF ArticlesInit
<1>3. ArticleDataOK
  BY <1>2 DEF ArticlesInit, ArticleDataOK, PagingAssumption, Orders
<1> QED  BY <1>1, <1>3, ArticleTypeParts

LEMMA NextFlags == ArticleFlagsOK /\ [ArticlesNext]_articlesVars => ArticleFlagsOK'
<1> SUFFICES ASSUME ArticleFlagsOK, [ArticlesNext]_articlesVars PROVE ArticleFlagsOK'
  OBVIOUS
<1> USE DEF ArticleFlagsOK, modelVars, pageVars, listVars, netVars, GetBlogsList
<1>1. ASSUME NEW c \in Categories, ShowList(c) PROVE ArticleFlagsOK'
  BY <1>1, Zenon DEF ShowList
<1>2. ASSUME NEW c \in Categories, NEW top, ShowCachedList(c, top) PROVE ArticleFlagsOK'
  BY <1>2, Zenon DEF ShowCachedList
<1>3. CASE ClosePage
  BY <1>3, Zenon DEF ClosePage
<1>4. ASSUME NEW c \in Categories, OnFilter(c) PROVE ArticleFlagsOK'
  BY <1>4, Zenon DEF OnFilter
<1>5. ASSUME NEW o \in {"asc", "desc"}, OnSort(o) PROVE ArticleFlagsOK'
  BY <1>5, Zenon DEF OnSort
<1>6. CASE PullDown
  BY <1>6, Zenon DEF PullDown, OnRefresh
<1>7. CASE PullUp
  BY <1>7, Zenon DEF PullUp, OnLoading
<1>8. ASSUME NEW r \in requests, AnswerBlogs(r) PROVE ArticleFlagsOK'
  BY <1>8, Zenon DEF AnswerBlogs, Answered, DidUpdateWidget
<1>9. ASSUME NEW r \in requests, AnswerError(r) PROVE ArticleFlagsOK'
  BY <1>9, Zenon DEF AnswerError, Answered, DidUpdateWidget
<1>10. ASSUME NEW c \in Categories, Publish(c) PROVE ArticleFlagsOK'
  BY <1>10, Zenon DEF Publish
<1>11. CASE UNCHANGED articlesVars
  BY <1>11, Zenon DEF articlesVars
<1> QED
  BY <1>1, <1>2, <1>3, <1>4, <1>5, <1>6, <1>7, <1>8, <1>9, <1>10, <1>11 DEF ArticlesNext

LEMMA NextData == PagingAssumption /\ ArticleDataOK /\ [ArticlesNext]_articlesVars => ArticleDataOK'
<1> SUFFICES ASSUME PagingAssumption, ArticleDataOK, [ArticlesNext]_articlesVars PROVE ArticleDataOK'
  OBVIOUS
<1> USE DEF ArticleDataOK, modelVars, pageVars, listVars, netVars
<1>e. <<>> \in Seq(Articles)
  BY EmptySeq
<1>0. ASSUME NEW c \in Categories, NEW p \in Nat \ {0}, GetBlogsList(c, p)
      PROVE  requests' \subseteq Requests /\ made' \in Nat
  BY <1>0 DEF GetBlogsList, Requests
<1>1. ASSUME NEW c \in Categories, ShowList(c) PROVE ArticleDataOK'
  BY <1>0, <1>1, <1>e DEF ShowList, Orders
<1>2. ASSUME NEW c \in Categories, NEW top \in FirstPosts[c] .. posts[c],
             ShowCachedList(c, top)
      PROVE  ArticleDataOK'
  <2>1. top \in Int /\ LayoutSize \in Nat
    BY DEF PagingAssumption
  <2>2. Newest(c, top, LayoutSize) \in Seq(Articles)
    BY <2>1, NewestType
  <2> QED  BY <1>2, <2>2 DEF ShowCachedList, Orders
<1>3. CASE ClosePage
  BY <1>3 DEF ClosePage, Orders
<1>4. ASSUME NEW c \in Categories, OnFilter(c) PROVE ArticleDataOK'
  BY <1>0, <1>4, <1>e DEF OnFilter
<1>5. ASSUME NEW o \in {"asc", "desc"}, OnSort(o) PROVE ArticleDataOK'
  BY <1>0, <1>5 DEF OnSort, Orders
<1>6. CASE PullDown
  BY <1>0, <1>6 DEF PullDown, ShowsList, OnRefresh
<1>7. CASE PullUp
  BY <1>0, <1>7 DEF PullUp, ShowsList, OnLoading
<1>8. ASSUME NEW r \in requests, AnswerBlogs(r) PROVE ArticleDataOK'
  <2>1. PageOf(r.cat, r.page) \in Seq(Articles)
    BY PageType
  <2>2. blogList' \in Seq(Articles)
    BY <1>8, <2>1 DEF AnswerBlogs
  <2> QED  BY <1>8, <2>2 DEF AnswerBlogs, Answered
<1>9. ASSUME NEW r \in requests, AnswerError(r) PROVE ArticleDataOK'
  BY <1>9 DEF AnswerError, Answered
<1>10. ASSUME NEW c \in Categories, Publish(c) PROVE ArticleDataOK'
  BY <1>10 DEF Publish
<1>11. CASE UNCHANGED articlesVars
  BY <1>11 DEF articlesVars
<1> QED
  BY <1>1, <1>2, <1>3, <1>4, <1>5, <1>6, <1>7, <1>8, <1>9, <1>10, <1>11 DEF ArticlesNext

LEMMA NextType == PagingAssumption /\ ArticlesTypeOK /\ [ArticlesNext]_articlesVars => ArticlesTypeOK'
  BY ArticleTypeParts, NextFlags, NextData

(* Every variable keeps its type, whatever is opened, pulled or answered.   *)
THEOREM ArticleTypes == ArticlesSpec => []ArticlesTypeOK
<1>1. ArticlesInit => ArticlesTypeOK
  BY InitType, PagingAssumption
<1>2. ArticlesTypeOK /\ [ArticlesNext]_articlesVars => ArticlesTypeOK'
  BY NextType, PagingAssumption
<1> QED  BY <1>1, <1>2, PTL DEF ArticlesSpec

-----------------------------------------------------------------------------
(* What the fetch flag and the indicators stand for.                        *)

FetchInv == FetchingHasRequest /\ IndicatorHasFetch

LEMMA NextFetch == FetchInv /\ [ArticlesNext]_articlesVars => FetchInv'
<1> SUFFICES ASSUME FetchInv, [ArticlesNext]_articlesVars PROVE FetchInv'
  OBVIOUS
<1> USE DEF FetchInv, FetchingHasRequest, IndicatorHasFetch,
            modelVars, pageVars, listVars, netVars
<1>0. ASSUME NEW c, NEW p, GetBlogsList(c, p) PROVE isFetching' /\ requests' # {}
  BY <1>0 DEF GetBlogsList
<1>1. ASSUME NEW c \in Categories, ShowList(c) PROVE FetchInv'
  BY <1>0, <1>1, Zenon DEF ShowList
<1>2. ASSUME NEW c \in Categories, NEW top, ShowCachedList(c, top) PROVE FetchInv'
  BY <1>2, Zenon DEF ShowCachedList
<1>3. CASE ClosePage
  BY <1>3, Zenon DEF ClosePage
<1>4. ASSUME NEW c \in Categories, OnFilter(c) PROVE FetchInv'
  BY <1>0, <1>4, Zenon DEF OnFilter
<1>5. ASSUME NEW o \in {"asc", "desc"}, OnSort(o) PROVE FetchInv'
  BY <1>0, <1>5, Zenon DEF OnSort
<1>6. CASE PullDown
  <2>1. CASE ~isFetching /\ OnRefresh
    BY <1>0, <1>6, <2>1, Zenon DEF PullDown, OnRefresh
  <2>2. CASE isFetching /\ UNCHANGED <<page, isFetching, isEnd, netVars, clean>>
    BY <1>6, <2>2, Zenon DEF PullDown
  <2> QED  BY <1>6, <2>1, <2>2, Zenon DEF PullDown
<1>7. CASE PullUp
  <2>1. CASE MayLoad /\ OnLoading
    BY <1>0, <1>7, <2>1, Zenon DEF PullUp, OnLoading
  <2>2. CASE ~MayLoad /\ UNCHANGED <<page, isFetching, isEnd, netVars, clean>>
    <3>1. isFetching
      BY <1>7, <2>2, Zenon DEF PullUp, MayLoad
    <3> QED  BY <1>7, <2>2, <3>1, Zenon DEF PullUp
  <2> QED  BY <1>7, <2>1, <2>2, Zenon DEF PullUp
<1>8. ASSUME NEW r \in requests, AnswerBlogs(r) \/ AnswerError(r) PROVE FetchInv'
  BY <1>8, Zenon DEF AnswerBlogs, AnswerError, Answered, DidUpdateWidget
<1>9. ASSUME NEW c \in Categories, Publish(c) PROVE FetchInv'
  BY <1>9, Zenon DEF Publish
<1>10. CASE UNCHANGED articlesVars
  BY <1>10, Zenon DEF articlesVars
<1> QED
  BY <1>1, <1>2, <1>3, <1>4, <1>5, <1>6, <1>7, <1>8, <1>9, <1>10, Zenon DEF ArticlesNext

(* A list that says it is fetching has an unanswered request.               *)
THEOREM FetchingCorrect == ArticlesSpec => []FetchingHasRequest
<1>1. ArticlesInit => FetchInv
  BY DEF ArticlesInit, FetchInv, FetchingHasRequest, IndicatorHasFetch
<1>2. FetchInv => FetchingHasRequest
  BY DEF FetchInv
<1> QED  BY <1>1, <1>2, NextFetch, PTL DEF ArticlesSpec

(* A pull indicator that turns has a fetch to wait for.                     *)
THEOREM IndicatorCorrect == ArticlesSpec => []IndicatorHasFetch
<1>1. ArticlesInit => FetchInv
  BY DEF ArticlesInit, FetchInv, FetchingHasRequest, IndicatorHasFetch
<1>2. FetchInv => IndicatorHasFetch
  BY DEF FetchInv
<1> QED  BY <1>1, <1>2, NextFetch, PTL DEF ArticlesSpec

-----------------------------------------------------------------------------
(* A clean list.  NoArticleSkipped is not inductive: what makes the next    *)
(* page fit is that the only request in flight is for the page _page says,  *)
(* and that the list, with `n` pages loaded, ends no newer than where page  *)
(* n + 1 begins, or at the oldest article.                                  *)

Descends(s) == \A i \in 1 .. Len(s) - 1 : s[i + 1].num >= s[i].num - 1
OfCategory(s, c) == \A i \in 1 .. Len(s) : s[i].cat = c

Holds(n) ==
  /\ OfCategory(blogList, newCategoryId)
  /\ Descends(blogList)
  /\ blogList # <<>> =>
       \/ blogList[Len(blogList)].num = 1
       \/ blogList[Len(blogList)].num <= posts[newCategoryId] - n * PerPage + 1
  /\ isEnd /\ blogList # <<>> => blogList[Len(blogList)].num = 1

CleanInv ==
  clean =>
    /\ newCategoryId \in Categories
    /\ \/ /\ requests = {}
          /\ ~isFetching
          /\ Holds(page)
       \/ /\ isFetching
          /\ ~isEnd
          /\ \E r \in requests : requests = {r} /\ r.cat = newCategoryId /\ r.page = page
          /\ page > 1 => Holds(page - 1)

(* A page of the server's list goes down by one and stops at article 1 or   *)
(* at the page's end.                                                       *)
LEMMA NewestProps ==
  ASSUME NEW c \in Categories, NEW top \in Int, NEW n \in Nat \ {0}
  PROVE  LET s == Newest(c, top, n) IN
         /\ s \in Seq(Articles)
         /\ OfCategory(s, c)
         /\ Descends(s)
         /\ s = <<>> => top <= 0
         /\ s # <<>> => /\ s[1].num = top
                       /\ \/ s[Len(s)].num = 1
                          \/ s[Len(s)].num = top - n + 1
<1> DEFINE s == Newest(c, top, n)
           len == IF top < n THEN (IF top < 0 THEN 0 ELSE top) ELSE n
<1>1. len \in Nat /\ (len = 0 => top <= 0) /\ (len # 0 => len = top \/ len = n)
  OBVIOUS
<1>2. s = [i \in 1 .. len |-> [cat |-> c, num |-> top - i + 1]]
  BY DEF Newest
<1>3. s \in Seq(Articles)
  BY NewestType
<1> HIDE DEF s, len
<1>4. Len(s) = len /\ \A i \in 1 .. len : s[i] = [cat |-> c, num |-> top - i + 1]
  BY <1>1, <1>2
<1>5. OfCategory(s, c)
  BY <1>4 DEF OfCategory
<1>6. Descends(s)
  BY <1>1, <1>4 DEF Descends
<1>7. s = <<>> => top <= 0
  BY <1>1, <1>4
<1>8. s # <<>> => len # 0
  BY <1>3, <1>4, EmptySeq
<1>9. s # <<>> => /\ s[1].num = top
                  /\ \/ s[Len(s)].num = 1
                     \/ s[Len(s)].num = top - n + 1
  <2> SUFFICES ASSUME len # 0 PROVE s[1].num = top /\ (s[len].num = 1 \/ s[len].num = top - n + 1)
    BY <1>4, <1>8
  <2>1. 1 \in 1 .. len /\ len \in 1 .. len
    BY <1>1
  <2>2. s[1].num = top - 1 + 1 /\ s[len].num = top - len + 1
    BY <1>4, <2>1
  <2> QED  BY <1>1, <2>2
<1> QED  BY <1>3, <1>5, <1>6, <1>7, <1>9 DEF s

(* Appending a list that begins at most one below where the first ends.     *)
LEMMA AppendDescends ==
  ASSUME NEW s \in Seq(Articles), NEW t \in Seq(Articles), NEW c,
         OfCategory(s, c), OfCategory(t, c), Descends(s), Descends(t),
         s # <<>> /\ t # <<>> => t[1].num >= s[Len(s)].num - 1
  PROVE  OfCategory(s \o t, c) /\ Descends(s \o t)
<1>1. /\ Len(s) \in Nat /\ Len(t) \in Nat /\ Len(s \o t) = Len(s) + Len(t)
      /\ \A i \in 1 .. Len(s) + Len(t) :
           (s \o t)[i] = IF i <= Len(s) THEN s[i] ELSE t[i - Len(s)]
  BY ConcatProperties, LenProperties
<1>2. OfCategory(s \o t, c)
  BY <1>1 DEF OfCategory
<1>3. ASSUME NEW i \in 1 .. Len(s \o t) - 1
      PROVE  (s \o t)[i + 1].num >= (s \o t)[i].num - 1
  <2>1. CASE i < Len(s)
    <3>1. (s \o t)[i] = s[i] /\ (s \o t)[i + 1] = s[i + 1]
      BY <1>1, <2>1
    <3> QED  BY <1>1, <2>1, <3>1 DEF Descends
  <2>2. CASE i = Len(s)
    <3>1. (s \o t)[i] = s[Len(s)] /\ (s \o t)[i + 1] = t[1]
      BY <1>1, <2>2
    <3>2. s # <<>> /\ t # <<>>
      BY <1>1, <2>2
    <3> QED  BY <3>1, <3>2
  <2>3. CASE i > Len(s)
    <3>1. (s \o t)[i] = t[i - Len(s)] /\ (s \o t)[i + 1] = t[(i - Len(s)) + 1]
      BY <1>1, <2>3
    <3>2. i - Len(s) \in 1 .. Len(t) - 1
      BY <1>1, <2>3
    <3> QED  BY <3>1, <3>2 DEF Descends
  <2> QED  BY <1>1, <2>1, <2>2, <2>3
<1> QED  BY <1>2, <1>3 DEF Descends

(* The offset of the next page.                                             *)
LEMMA NextOffset ==
  ASSUME NEW p \in Nat \ {0}, NEW n \in Nat
  PROVE  p * n = (p - 1) * n + n /\ (p - 1) * n \in Int /\ p * n \in Int
  OBVIOUS

(* Page p appended to a list that holds p - 1 pages makes it hold p.        *)
LEMMA AnswerHolds ==
  ASSUME PagingAssumption, ArticleDataOK, NEW p \in Nat \ {0}, newCategoryId \in Categories,
         ~isEnd, p > 1 => Holds(p - 1),
         blogList' = IF p = 1 THEN PageOf(newCategoryId, p)
                              ELSE blogList \o PageOf(newCategoryId, p),
         isEnd' <=> isEnd \/ PageOf(newCategoryId, p) = <<>>,
         UNCHANGED <<newCategoryId, posts>>
  PROVE  Holds(p)'
<1> DEFINE c == newCategoryId
           top == posts[c] - (p - 1) * PerPage
           new == PageOf(c, p)
<1>1. PerPage \in Nat \ {0} /\ posts[c] \in Nat
  BY DEF PagingAssumption, ArticleDataOK
<1>2. /\ top \in Int
      /\ posts[c] - p * PerPage + 1 = top - PerPage + 1
      /\ posts[c] - p * PerPage + 1 \in Int
  BY <1>1, NextOffset
<1> HIDE DEF top
<1>3. /\ new \in Seq(Articles) /\ OfCategory(new, c) /\ Descends(new)
      /\ new = <<>> => top <= 0
      /\ new # <<>> => /\ new[1].num = top
                      /\ \/ new[Len(new)].num = 1
                         \/ new[Len(new)].num = top - PerPage + 1
  <2>1. new = Newest(c, top, PerPage)
    BY DEF PageOf, top
  <2> HIDE DEF new
  <2>2. c \in Categories /\ top \in Int /\ PerPage \in Nat \ {0}
    BY <1>1, <1>2
  <2> QED  BY <2>1, <2>2, NewestProps
<1>4. blogList \in Seq(Articles) /\ Len(blogList) \in Nat
  BY DEF ArticleDataOK
<1> DEFINE old == IF p = 1 THEN <<>> ELSE blogList
<1>5. /\ old \in Seq(Articles) /\ OfCategory(old, c) /\ Descends(old)
      /\ old # <<>> => \/ old[Len(old)].num = 1
                       \/ old[Len(old)].num <= top + 1
  <2>1. CASE p = 1
    BY <2>1, EmptySeq DEF OfCategory, Descends
  <2>2. CASE p # 1
    <3>1. Holds(p - 1) /\ old = blogList
      BY <2>2
    <3>2. blogList # <<>> => \/ blogList[Len(blogList)].num = 1
                             \/ blogList[Len(blogList)].num <= top + 1
      BY <3>1 DEF Holds, top
    <3> QED  BY <1>4, <3>1, <3>2 DEF Holds
  <2> QED  BY <2>1, <2>2
<1>6. blogList' = old \o new
  <2>1. <<>> \o new = new
    BY <1>3, ConcatEmptySeq
  <2> QED  BY <2>1
<1> HIDE DEF old, new
<1>7. \A q \in Seq(Articles) : q # <<>> => Len(q) \in 1 .. Len(q) /\ q[Len(q)].num \in Nat \ {0}
  <2> SUFFICES ASSUME NEW q \in Seq(Articles), q # <<>>
               PROVE  Len(q) \in 1 .. Len(q) /\ q[Len(q)].num \in Nat \ {0}
    OBVIOUS
  <2>1. Len(q) \in 1 .. Len(q)
    BY EmptySeq
  <2>2. q[Len(q)] \in Articles
    BY <2>1, ElementOfSeq
  <2> QED  BY <2>1, <2>2 DEF Articles
<1>8. old # <<>> /\ new # <<>> => new[1].num >= old[Len(old)].num - 1
  <2> SUFFICES ASSUME old # <<>>, new # <<>> PROVE new[1].num >= old[Len(old)].num - 1
    OBVIOUS
  <2>1. old[Len(old)].num \in Nat \ {0}
    BY <1>5, <1>7
  <2>2. new[1].num = top /\ new[1].num \in Nat \ {0}
    <3>1. 1 \in 1 .. Len(new)
      BY <1>3, EmptySeq
    <3>2. new[1] \in Articles
      BY <1>3, <3>1, ElementOfSeq
    <3> QED  BY <1>3, <3>2 DEF Articles
  <2> QED  BY <1>2, <1>5, <2>1, <2>2
<1>9. OfCategory(blogList', c) /\ Descends(blogList')
  <2>1. OfCategory(old \o new, c) /\ Descends(old \o new)
    BY <1>3, <1>5, <1>8, AppendDescends
  <2> QED  BY <1>6, <2>1
<1>10. /\ new # <<>> => blogList' # <<>> /\ blogList'[Len(blogList')] = new[Len(new)]
       /\ new = <<>> => blogList' = old
  <2>1. /\ Len(old \o new) = Len(old) + Len(new)
        /\ \A i \in 1 .. Len(old) + Len(new) :
             (old \o new)[i] = IF i <= Len(old) THEN old[i] ELSE new[i - Len(old)]
        /\ Len(old) \in Nat /\ Len(new) \in Nat
    BY <1>3, <1>5, ConcatProperties, LenProperties
  <2>2. ASSUME new # <<>>
        PROVE  old \o new # <<>> /\ (old \o new)[Len(old \o new)] = new[Len(new)]
    <3>1. Len(new) \in 1 .. Len(new)
      BY <1>3, <1>7, <2>2
    <3>2. Len(old) + Len(new) \in 1 .. Len(old) + Len(new) /\ ~(Len(old) + Len(new) <= Len(old))
      BY <2>1, <3>1
    <3>3. (old \o new)[Len(old) + Len(new)] = new[Len(new)]
      BY <2>1, <3>2
    <3> QED  BY <2>1, <3>2, <3>3
  <2>3. old \o <<>> = old
    BY <1>5, ConcatEmptySeq
  <2> QED  BY <1>6, <2>2, <2>3
<1>11. blogList' # <<>> =>
         \/ blogList'[Len(blogList')].num = 1
         \/ blogList'[Len(blogList')].num <= posts[c] - p * PerPage + 1
  <2>1. CASE new # <<>>
    BY <1>2, <1>3, <1>10, <2>1
  <2>2. CASE new = <<>>
    <3> SUFFICES ASSUME old # <<>> PROVE old[Len(old)].num = 1
      BY <1>10, <2>2
    <3>1. old[Len(old)].num \in Nat \ {0}
      BY <1>5, <1>7
    <3> QED  BY <1>2, <1>3, <1>5, <2>2, <3>1
  <2> QED  BY <2>1, <2>2
<1>12. isEnd' /\ blogList' # <<>> => blogList'[Len(blogList')].num = 1
  <2> SUFFICES ASSUME isEnd', blogList' # <<>> PROVE blogList'[Len(blogList')].num = 1
    OBVIOUS
  <2>1. new = <<>>
    BY DEF new
  <2>2. old # <<>> /\ blogList' = old
    BY <1>10, <2>1
  <2>3. old[Len(old)].num \in Nat \ {0}
    BY <1>5, <1>7, <2>2
  <2>4. top <= 0
    BY <1>3, <2>1
  <2>5. old[Len(old)].num = 1 \/ old[Len(old)].num <= top + 1
    BY <1>5, <2>2
  <2>6. top \in Int
    BY <1>2
  <2>7. old[Len(old)].num = 1
    BY <2>3, <2>4, <2>5, <2>6
  <2> QED  BY <2>2, <2>7
<1> QED
  <2>1. newCategoryId' = c /\ posts' = posts
    OBVIOUS
  <2> QED  BY <1>9, <1>11, <1>12, <2>1 DEF Holds

LEMMA InitClean == ArticlesInit => CleanInv
  BY DEF ArticlesInit, CleanInv

(* Publishing only moves the pages down the list.                           *)
LEMMA HoldsLater ==
  ASSUME PagingAssumption, ArticleDataOK, newCategoryId \in Categories,
         NEW n \in Nat, Holds(n), posts' \in [Categories -> Nat],
         posts'[newCategoryId] >= posts[newCategoryId],
         UNCHANGED <<blogList, newCategoryId, isEnd>>
  PROVE  Holds(n)'
<1>1. n * PerPage \in Int
  BY DEF PagingAssumption
<1>2. blogList # <<>> => blogList[Len(blogList)].num \in Nat
  <2> SUFFICES ASSUME blogList # <<>> PROVE blogList[Len(blogList)].num \in Nat
    OBVIOUS
  <2>1. blogList \in Seq(Articles) /\ Len(blogList) \in 1 .. Len(blogList)
    BY EmptySeq DEF ArticleDataOK
  <2>2. blogList[Len(blogList)] \in Articles
    BY <2>1, ElementOfSeq
  <2> QED  BY <2>2 DEF Articles
<1>3. blogList # <<>> =>
        \/ blogList[Len(blogList)].num = 1
        \/ blogList[Len(blogList)].num <= posts'[newCategoryId] - n * PerPage + 1
  <2>1. /\ posts[newCategoryId] \in Int /\ posts'[newCategoryId] \in Int
        /\ posts'[newCategoryId] >= posts[newCategoryId]
    BY DEF ArticleDataOK
  <2>2. blogList # <<>> =>
          \/ blogList[Len(blogList)].num = 1
          \/ blogList[Len(blogList)].num <= posts[newCategoryId] - n * PerPage + 1
    BY DEF Holds
  <2> QED  BY <1>1, <1>2, <2>1, <2>2
<1>4. /\ OfCategory(blogList, newCategoryId) /\ Descends(blogList)
      /\ isEnd /\ blogList # <<>> => blogList[Len(blogList)].num = 1
  BY DEF Holds
<1> QED  BY <1>3, <1>4 DEF Holds

(* A fetch of page 1 of the open category, with nothing else in flight.     *)
FreshFetch ==
  /\ newCategoryId \in Categories
  /\ isFetching /\ ~isEnd
  /\ \E r \in requests : requests = {r} /\ r.cat = newCategoryId /\ r.page = page
  /\ page = 1

LEMMA FreshClean == (clean' => FreshFetch') => CleanInv'
<1> SUFFICES ASSUME clean', FreshFetch' PROVE CleanInv'
  BY Zenon DEF CleanInv
<1>1. page' = 1 /\ ~(page' > 1)
  BY DEF FreshFetch
<1> QED  BY <1>1, Zenon DEF FreshFetch, CleanInv

LEMMA GetBlogsListFresh ==
  ASSUME NEW c \in Categories, NEW p, GetBlogsList(c, p), requests = {}
  PROVE  /\ isFetching' /\ ~isEnd'
         /\ \E r \in requests' : requests' = {r} /\ r.cat = c /\ r.page = p
<1> DEFINE r == [id |-> made, cat |-> c, page |-> p]
<1>1. requests' = {r} /\ r \in requests'
  BY DEF GetBlogsList
<1>2. r.cat = c /\ r.page = p
  OBVIOUS
<1>3. isFetching' /\ ~isEnd'
  BY Zenon DEF GetBlogsList
<1> HIDE DEF r
<1> QED  BY <1>1, <1>2, <1>3, Zenon

LEMMA NextClean ==
  PagingAssumption /\ ArticleDataOK /\ FetchInv /\ CleanInv /\ [ArticlesNext]_articlesVars => CleanInv'
<1> SUFFICES ASSUME PagingAssumption, ArticleDataOK, FetchInv, CleanInv, [ArticlesNext]_articlesVars PROVE CleanInv'
  OBVIOUS
<1> USE DEF modelVars, pageVars, listVars, netVars
<1>1. ASSUME NEW c \in Categories, ShowList(c) PROVE CleanInv'
  <2> SUFFICES ASSUME clean' PROVE FreshFetch'
    BY FreshClean, Zenon
  <2>1. requests = {} /\ newCategoryId' = c /\ page' = 1 /\ GetBlogsList(c, 1)
    BY <1>1, Zenon DEF ShowList
  <2> QED  BY <2>1, GetBlogsListFresh, Zenon DEF FreshFetch
<1>2. ASSUME NEW c \in Categories, NEW top, ShowCachedList(c, top) PROVE CleanInv'
  BY <1>2, Zenon DEF ShowCachedList, CleanInv
<1>3. CASE ClosePage
  BY <1>3, Zenon DEF ClosePage, CleanInv
<1>4. ASSUME NEW c \in Categories, OnFilter(c) PROVE CleanInv'
  <2> SUFFICES ASSUME clean' PROVE FreshFetch'
    BY FreshClean, Zenon
  <2>1. requests = {} /\ newCategoryId' = c /\ page = 1 /\ page' = 1 /\ GetBlogsList(c, 1)
    BY <1>4, Zenon DEF OnFilter
  <2> QED  BY <2>1, GetBlogsListFresh, Zenon DEF FreshFetch
<1>5. ASSUME NEW o \in {"asc", "desc"}, OnSort(o) PROVE CleanInv'
  <2> SUFFICES ASSUME clean' PROVE FreshFetch'
    BY FreshClean, Zenon
  <2>1. /\ requests = {} /\ newCategoryId' = newCategoryId /\ page = 1 /\ page' = 1
        /\ newCategoryId # NoCategory /\ GetBlogsList(newCategoryId, 1)
    BY <1>5, Zenon DEF OnSort
  <2>2. newCategoryId \in Categories
    BY <2>1, Zenon DEF ArticleDataOK
  <2> QED  BY <2>1, <2>2, GetBlogsListFresh, Zenon DEF FreshFetch
<1>6. CASE PullDown
  <2>1. CASE ~isFetching /\ OnRefresh
    <3> SUFFICES ASSUME clean' PROVE FreshFetch'
      BY FreshClean, Zenon
    <3>1. /\ requests = {} /\ newCategoryId' = newCategoryId /\ page' = 1
          /\ newCategoryId # NoCategory /\ GetBlogsList(newCategoryId, 1)
      BY <1>6, <2>1, Zenon DEF PullDown, OnRefresh, ShowsList
    <3>2. newCategoryId \in Categories
      BY <3>1, Zenon DEF ArticleDataOK
    <3> QED  BY <3>1, <3>2, GetBlogsListFresh, Zenon DEF FreshFetch
  <2>2. CASE isFetching /\ UNCHANGED <<page, isFetching, isEnd, netVars, clean>>
    BY <1>6, <2>2, Zenon DEF PullDown, CleanInv, Holds
  <2> QED  BY <1>6, <2>1, <2>2, Zenon DEF PullDown
<1>7. CASE PullUp
  <2>1. CASE MayLoad /\ OnLoading
    <3> SUFFICES ASSUME clean' PROVE CleanInv'
      BY Zenon DEF CleanInv
    <3>1. /\ clean /\ ~isFetching /\ ~isEnd
          /\ page' = page + 1 /\ GetBlogsList(newCategoryId, page + 1)
          /\ UNCHANGED <<blogList, newCategoryId, posts>>
      BY <1>7, <2>1, Zenon DEF PullUp, MayLoad, OnLoading
    <3>2. requests = {} /\ newCategoryId \in Categories /\ Holds(page)
      BY <3>1, Zenon DEF CleanInv
    <3>3. /\ isFetching' /\ ~isEnd'
          /\ \E r \in requests' : requests' = {r} /\ r.cat = newCategoryId /\ r.page = page + 1
      BY <3>1, <3>2, GetBlogsListFresh
    <3>4. page' - 1 = page
      BY <3>1 DEF ArticleDataOK
    <3>5. Holds(page - 1)'
      BY <3>1, <3>2, <3>3, <3>4, Zenon DEF Holds
    <3> QED  BY <3>1, <3>2, <3>3, <3>5, Zenon DEF CleanInv
  <2>2. CASE ~MayLoad /\ UNCHANGED <<page, isFetching, isEnd, netVars, clean>>
    BY <1>7, <2>2, Zenon DEF PullUp, CleanInv, Holds
  <2> QED  BY <1>7, <2>1, <2>2, Zenon DEF PullUp
<1>8. ASSUME NEW r \in requests, AnswerBlogs(r) PROVE CleanInv'
  <2> SUFFICES ASSUME clean' PROVE CleanInv'
    BY Zenon DEF CleanInv
  <2>1. /\ clean /\ ~isFetching' /\ requests' = requests \ {r}
        /\ UNCHANGED <<page, newCategoryId, posts>>
    BY <1>8, Zenon DEF AnswerBlogs, Answered
  <2>2. /\ newCategoryId \in Categories /\ isFetching /\ ~isEnd
        /\ requests = {r} /\ r.cat = newCategoryId /\ r.page = page
        /\ page > 1 => Holds(page - 1)
    BY <2>1, Zenon DEF CleanInv
  <2>3. /\ blogList' = IF page = 1 THEN PageOf(newCategoryId, page)
                                   ELSE blogList \o PageOf(newCategoryId, page)
        /\ isEnd' <=> isEnd \/ PageOf(newCategoryId, page) = <<>>
    BY <1>8, <2>2, Zenon DEF AnswerBlogs
  <2>4. page \in Nat \ {0}
    BY DEF ArticleDataOK
  <2>5. Holds(page)'
    <3>1. UNCHANGED <<newCategoryId, posts>>
      BY <2>1
    <3>2. ASSUME NEW p, p = page
          PROVE  Holds(p)'
      BY <2>2, <2>3, <2>4, <3>1, <3>2, AnswerHolds
    <3> QED  BY <2>1, <3>2, Zenon DEF Holds
  <2>6. requests' = {}
    BY <2>1, <2>2
  <2> QED  BY <2>1, <2>2, <2>5, <2>6, Zenon DEF CleanInv
<1>9. ASSUME NEW r \in requests, AnswerError(r) PROVE CleanInv'
  BY <1>9, Zenon DEF AnswerError, CleanInv
<1>10. ASSUME NEW c \in Categories, Publish(c) PROVE CleanInv'
  <2> SUFFICES ASSUME clean' PROVE CleanInv'
    BY Zenon DEF CleanInv
  <2>1. clean /\ UNCHANGED <<blogList, isFetching, isEnd, newCategoryId, page, requests>>
    BY <1>10, Zenon DEF Publish
  <2>2. newCategoryId \in Categories
    BY <2>1, Zenon DEF CleanInv
  <2>3. posts' \in [Categories -> Nat] /\ posts'[newCategoryId] >= posts[newCategoryId]
    BY <1>10, <2>2 DEF Publish, ArticleDataOK
  <2>4. ASSUME NEW n \in Nat, Holds(n) PROVE Holds(n)'
    BY <2>1, <2>2, <2>3, <2>4, HoldsLater
  <2>5. page \in Nat /\ page - 1 \in Nat
    BY DEF ArticleDataOK
  <2>6. (Holds(page) => Holds(page)') /\ (Holds(page - 1) => Holds(page - 1)')
    BY <2>1, <2>4, <2>5, Zenon DEF Holds
  <2> QED  BY <2>1, <2>6, Zenon DEF CleanInv
<1>11. CASE UNCHANGED articlesVars
  BY <1>11, Zenon DEF articlesVars, CleanInv, Holds
<1> QED
  BY <1>1, <1>2, <1>3, <1>4, <1>5, <1>6, <1>7, <1>8, <1>9, <1>10, <1>11, Zenon DEF ArticlesNext

(* The inductive invariant.                                                 *)
ArticleInv == ArticleDataOK /\ ArticleFlagsOK /\ FetchInv /\ CleanInv

LEMMA ArticleInvariance == ArticlesSpec => []ArticleInv
<1>1. ArticlesInit => ArticleInv
  BY InitType, InitClean, ArticleTypeParts, PagingAssumption
  DEF ArticlesInit, ArticleInv, FetchInv, FetchingHasRequest, IndicatorHasFetch
<1>2. ArticleInv /\ [ArticlesNext]_articlesVars => ArticleInv'
  BY NextFlags, NextData, NextFetch, NextClean, PagingAssumption DEF ArticleInv
<1> QED  BY <1>1, <1>2, PTL DEF ArticlesSpec

(* No article is skipped on a list built one request at a time, for every   *)
(* page size and however the newsroom publishes meanwhile.                  *)
THEOREM NoneSkipped == ArticlesSpec => []NoArticleSkipped
<1>1. ArticleInv => NoArticleSkipped
  BY Zenon DEF ArticleInv, CleanInv, Holds, OfCategory, Descends, NoArticleSkipped
<1> QED  BY <1>1, ArticleInvariance, PTL

(* And when such a list says it is at its end, it is.                       *)
THEOREM EndIsTrue == ArticlesSpec => []EndMeansAll
<1>1. ArticleInv => EndMeansAll
  BY Zenon DEF ArticleInv, CleanInv, Holds, EndMeansAll
<1> QED  BY <1>1, ArticleInvariance, PTL

=============================================================================
