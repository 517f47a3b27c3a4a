----------------------------- MODULE VideosPaging -----------------------------
(* The video list: _VideosScreenState (screens/videos_list_screen.dart) asks *)
(* YouTube (services/services.dart) for the channel and then for the pages   *)
(* of its playlist of uploads, by page token.  The handler of the end of a   *)
(* scroll starts a load whether or not one is under way; whichever answer    *)
(* comes sets the token.                                                     *)
(*                                                                           *)
(* A video is the number of its upload, 1 the oldest.  YouTube lists the     *)
(* newest first; a token names how many videos of the list precede the page, *)
(* so an upload shifts the pages to come.                                    *)
EXTENDS Integers, Sequences, SequencesExt, FiniteSets

CONSTANTS
  PageSize,     \* maxResults
  Initial,      \* videos in the playlist when the screen opens
  Counts,       \* statistics.videoCount as the channel may report it
  MaxUploads,   \* bound: uploads while the screen is open
  MaxLoads      \* bound: loads started

ASSUME VideosAssumption ==
  /\ PageSize \in Nat \ {0}
  /\ Initial \in Nat
  /\ Counts \subseteq Nat
  /\ MaxUploads \in Nat
  /\ MaxLoads \in Nat

VARIABLES
  uploaded,   \* YouTube: videos in the playlist
  videoCount, \* _item.statistics.videoCount; Null before the channel is known
  loading,    \* _loading
  token,      \* _nextPageToken; Null when the page had none
  videos,     \* _videosList.videos
  opening,    \* _getChannelInfo: "channel", "videos", "done" or "failed"
  loads,      \* the calls of _loadVideos so far
  overlapped, \* history: a load was started while another was under way
  newest      \* history: the newest video when the first load started
vars == <<uploaded, videoCount, loading, token, videos, opening, loads, overlapped, newest>>

Null == -1
Tokens == Nat \cup {Null}

(* The first page is asked for by an empty token ('' is 0 here) and by none. *)
Offset(t) == IF t = Null THEN 0 ELSE t

(* YouTube's page at an offset, and the token of the next one, if any.       *)
Page(total, o) ==
  [i \in 1 .. (IF o >= total THEN 0 ELSE IF o + PageSize <= total THEN PageSize ELSE total - o)
     |-> total - o - i + 1]

NextToken(total, o) == IF o + PageSize < total THEN o + PageSize ELSE Null

Shown == {videos[i] : i \in DOMAIN videos}
UnderWay == {n \in DOMAIN loads : loads[n].state \in {"asked", "answered"}}

Load == [state : {"asked", "answered", "ended"}, from : Nat, total : Nat]
TypeOK ==
  /\ uploaded \in Initial .. Initial + MaxUploads
  /\ videoCount \in Counts \cup {Null}
  /\ loading \in BOOLEAN
  /\ token \in Tokens
  /\ videos \in Seq(1 .. uploaded)
  /\ opening \in {"channel", "videos", "done", "failed"}
  /\ loads \in Seq(Load)
  /\ overlapped \in BOOLEAN
  /\ newest \in Nat

-----------------------------------------------------------------------------
Init ==
  /\ uploaded = Initial
  /\ videoCount = Null
  /\ loading = TRUE
  /\ token = 0
  /\ videos = <<>>
  /\ opening = "channel"
  /\ loads = <<>>
  /\ overlapped = FALSE
  /\ newest = 0

(* _loadVideos up to its await: the token is read when the load starts.      *)
StartLoad ==
  /\ Len(loads) < MaxLoads
  /\ loads' = Append(loads, [state |-> "asked", from |-> Offset(token), total |-> 0])
  /\ overlapped' = (overlapped \/ UnderWay # {})

(* _getChannelInfo: the channel comes, its first load starts; or it does not *)
(* come (no network, an error instead of items) and the screen keeps         *)
(* "Loading...".                                                             *)
ChannelComes ==
  /\ opening = "channel"
  /\ opening' = "videos"
  /\ \E c \in Counts : videoCount' = c
  /\ newest' = uploaded
  /\ StartLoad
  /\ UNCHANGED <<uploaded, loading, token, videos>>

ChannelFails ==
  /\ opening = "channel"
  /\ opening' = "failed"
  /\ UNCHANGED <<uploaded, videoCount, loading, token, videos, loads, overlapped, newest>>

(* Mutant: the scroll handler does not look at the count.                    *)
MutScrollEnd ==
  /\ videoCount # Null
  /\ StartLoad
  /\ UNCHANGED <<uploaded, videoCount, loading, token, videos, opening, newest>>

(* The end of a scroll at the bottom.  Before the channel is known the       *)
(* handler fails on _item and changes nothing.                               *)
ScrollEnd ==
  /\ videoCount # Null
  /\ Len(videos) < videoCount
  /\ StartLoad
  /\ UNCHANGED <<uploaded, videoCount, loading, token, videos, opening, newest>>

(* YouTube answers with the playlist as it is then.                          *)
Answer(n) ==
  /\ loads[n].state = "asked"
  /\ loads' = [loads EXCEPT ![n].state = "answered", ![n].total = uploaded]
  /\ UNCHANGED <<uploaded, videoCount, loading, token, videos, opening, overlapped, newest>>

(* Mutant: the token of the next page is counted on from the present one.    *)
MutTokenAfter(total, o) ==
  IF Offset(token) + PageSize < total THEN Offset(token) + PageSize ELSE Null

(* Mutant: the token of the answer is not kept.                              *)
MutTokenKept(total, o) == token

(* The rest of _loadVideos, and of _getChannelInfo if it awaits this load.   *)
Listed(total, o) == videos \o Page(total, o)
TokenAfter(total, o) == NextToken(total, o)
Loaded(n) ==
  LET l == loads[n] IN
  /\ l.state = "answered"
  /\ token' = TokenAfter(l.total, l.from)
  /\ videos' = Listed(l.total, l.from)
  /\ loads' = [loads EXCEPT ![n].state = "ended"]
  /\ opening' = IF n = 1 THEN "done" ELSE opening
  /\ loading' = (loading /\ n # 1)
  /\ UNCHANGED <<uploaded, videoCount, overlapped, newest>>

(* The request fails, or its answer is an error: nothing changes, and the    *)
(* screen goes on saying "Loading..." if it was the first.                   *)
LoadFails(n) ==
  /\ loads[n].state \in {"asked", "answered"}
  /\ loads' = [loads EXCEPT ![n].state = "ended"]
  /\ opening' = IF n = 1 THEN "failed" ELSE opening
  /\ UNCHANGED <<uploaded, videoCount, loading, token, videos, overlapped, newest>>

(* The channel uploads a video.                                              *)
Upload ==
  /\ uploaded < Initial + MaxUploads
  /\ uploaded' = uploaded + 1
  /\ UNCHANGED <<videoCount, loading, token, videos, opening, loads, overlapped, newest>>

Next ==
  \/ ChannelComes \/ ChannelFails \/ ScrollEnd \/ Upload
  \/ \E n \in DOMAIN loads : Answer(n) \/ Loaded(n) \/ LoadFails(n)

Spec == Init /\ [][Next]_vars

-----------------------------------------------------------------------------
(* No video is skipped, whatever loads overlap, fail or end out of order and *)
(* whatever is uploaded meanwhile: every video between one on display and    *)
(* what was the newest when the screen asked first is on display.            *)
(* (videos_list_screen.dart:52-53 moves the token and the list together.)    *)
NoGaps == \A v \in Shown : \A w \in v .. newest : w \in Shown

(* A video is listed twice only for a cause: loads that overlapped, an       *)
(* upload that shifted the pages, or a channel that counts more videos than  *)
(* its playlist has, where the last page's missing token starts over         *)
(* (videos_list_screen.dart:80-87).                                          *)
RepeatsHaveCause ==
  Cardinality(Shown) = Len(videos) \/ overlapped \/ uploaded > Initial \/ videoCount > Initial

(* The scroll handler stops loading only when all the videos it was told of  *)
(* are on display, unless loads overlapped or the pages shifted: then the    *)
(* repeated ones make up the count and the oldest are never listed.          *)
StopsComplete ==
  (videoCount # Null /\ Len(videos) >= videoCount /\ ~overlapped /\ uploaded = Initial)
    => Cardinality(Shown) >= IF videoCount < Initial THEN videoCount ELSE Initial

=============================================================================
