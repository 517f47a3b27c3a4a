------------------------------ MODULE Wishlist -------------------------------
(* The bookmarks: WishListModel (models/wishlist.dart), the HeartButton that *)
(* adds and removes, the wish list screen that removes, and the logout that  *)
(* deletes the stored list behind the model's back (models/user.dart).       *)
(*                                                                           *)
(* The storage is ready, and the list loaded, before the splash screen gives *)
(* way to a screen with hearts, so a behaviour starts from a loaded list.    *)
EXTENDS Store

CONSTANTS
  Articles,
  MaxWrites  \* bound: writes pending at one time

ASSUME WishlistAssumption ==
  /\ MaxWrites \in Nat
  /\ "wishlist" \in Keys
  /\ Nothing \notin Seq(Articles)

VARIABLES
  blogs,  \* WishListModel.blogs
  erased  \* history: a logout deleted the stored list and nothing was saved since

wishlistVars == <<blogs, erased, storeVars>>

Has(list, a) == \E i \in DOMAIN list : list[i] = a

Loaded(stored) == IF stored = Nothing THEN <<>> ELSE stored

(* saveWishlist: the list goes to the store at once, its file write is       *)
(* awaited by nobody. *)
SaveWishlist(list) ==
  /\ Len(writes) < MaxWrites
  /\ SetItem("wishlist", list, "save")
  /\ erased' = FALSE

(* Mutant: the isExist test is gone.                                         *)
MutMayAdd(a) == TRUE

(* The isExist test of addToWishlist.  A heart is drawn once and keeps its   *)
(* handler while another heart of the same article is tapped, so an article  *)
(* that is listed may be added again.                                        *)
MayAdd(a) == ~Has(blogs, a)

(* Mutant: an article is added in front.                                     *)
MutAddToWishlist(a) ==
  /\ MayAdd(a)
  /\ blogs' = <<a>> \o blogs
  /\ SaveWishlist(blogs')

AddToWishlist(a) ==
  /\ MayAdd(a)
  /\ blogs' = Append(blogs, a)
  /\ SaveWishlist(blogs')

(* removeToWishlist makes a new list, of the articles other than a: an       *)
(* article is listed once (WishlistTypeOK), so the list without one place.   *)
(* An unlisted article changes nothing.                                      *)
RemoveToWishlist(a) ==
  \E i \in DOMAIN blogs :
    /\ blogs[i] = a
    /\ blogs' = RemoveAt(blogs, i)
    /\ SaveWishlist(blogs')

(* Mutant: the stored list stays.                                            *)
MutLogoutDeletes ==
  /\ erased' = TRUE
  /\ UNCHANGED <<blogs, storeVars>>

(* UserModel.logout deletes the key; the model keeps its list.               *)
LogoutDeletes ==
  /\ Len(writes) < MaxWrites
  /\ SetItem("wishlist", Nothing, "logout")
  /\ erased' = TRUE
  /\ UNCHANGED blogs

WriteEnds ==
  /\ \E t \in {"save", "logout"} : Written(t) \/ WriteFails(t)
  /\ UNCHANGED <<blogs, erased>>

(* The app dies and starts again: getLocalWishlist.                          *)
WishlistRestart ==
  /\ Reload
  /\ blogs' = Loaded(disk["wishlist"])
  /\ erased' = FALSE

WishlistInit ==
  /\ StoreInit
  /\ blogs = <<>>
  /\ erased = FALSE

WishlistNext ==
  \/ \E a \in Articles : AddToWishlist(a) \/ RemoveToWishlist(a)
  \/ LogoutDeletes
  \/ WriteEnds
  \/ WishlistRestart

WishlistSpec == WishlistInit /\ [][WishlistNext]_wishlistVars

-----------------------------------------------------------------------------
(* The types; and no article is bookmarked twice, neither on display nor in  *)
(* a list that a restart may load, however hearts are tapped.                *)
WishlistTypeOK ==
  /\ StoreOK(Seq(Articles))
  /\ blogs \in Seq(Articles)
  /\ erased \in BOOLEAN
  /\ IsInjective(blogs)
  /\ IsInjective(Loaded(disk["wishlist"]))

(* Once writing is over, and unless the newest write failed or a logout      *)
(* emptied the file, the file holds the list on display: killing the app     *)
(* then loses nothing.                                                       *)
BookmarksKept ==
  Settled => Loaded(disk["wishlist"]) = IF erased THEN <<>> ELSE blogs

(* The wish list keeps the promise of Bookmarks: what a restart may bring    *)
(* back is the list in the file or in a pending write.                       *)
Versions ==
  {Loaded(disk["wishlist"])} \cup
  {Loaded(writes[i].map["wishlist"]) : i \in DOMAIN writes}

B == INSTANCE Bookmarks WITH list <- blogs, versions <- Versions

KeepsPromise == B!BookmarksSpec
=============================================================================
