---------------------------- MODULE ProductImages ----------------------------
(***************************************************************************)
(* Products and the one image each may have on disk: products.service.ts,  *)
(* products.controller.ts, product-image-storage.service.ts.  The file of  *)
(* an image is named by the product and the type of the image; the path in *)
(* a row is the set of the one file it names, or empty.                    *)
(***************************************************************************)
EXTENDS Naturals

CONSTANTS
  Sellers,         \* requests in progress
  ProductIds, Types, NoProduct,
  MaxErrands       \* bound on requests

VARIABLES
  listed, path,   \* the rows and their image paths
  images,         \* files on disk
  place, errand, errands,
  strained,  \* history: products whose requests overlapped, or broke off half-way
  handmade,  \* history: products whose row or file a path sent in a body has named
  refused    \* history: products whose last upload was refused, its old file removed

imageVars == <<listed, path, images, place, errand, errands, strained, handmade, refused>>

ASSUME NoProductApart == NoProduct \notin ProductIds
ASSUME ErrandsAssumption == MaxErrands \in Nat

FilesOf(p) == {p} \X Types
Paths == {{}} \cup {{f} : f \in ProductIds \X Types}
(* row: the row the request writes, its product's unless the body names another. *)
Errand == [kind : {"none", "upload", "remove_image", "update", "remove"},
           product : ProductIds \cup {NoProduct}, row : ProductIds \cup {NoProduct},
           path : Paths, hand : BOOLEAN]
NoErrand == [kind |-> "none", product |-> NoProduct, row |-> NoProduct, path |-> {}, hand |-> FALSE]
ImagesTypeOK ==
  /\ listed \subseteq ProductIds /\ path \in [ProductIds -> Paths]
  /\ images \subseteq ProductIds \X Types
  /\ place \in [Sellers -> {"idle", "find", "find_again", "save", "clear", "delete"}]
  /\ errand \in [Sellers -> Errand] /\ errands \in 0..MaxErrands
  /\ strained \subseteq ProductIds /\ handmade \subseteq ProductIds /\ refused \subseteq ProductIds
ImagesInit ==
  /\ listed = {} /\ path = [p \in ProductIds |-> {}] /\ images = {}
  /\ place = [s \in Sellers |-> "idle"] /\ errand = [s \in Sellers |-> NoErrand]
  /\ errands = 0 /\ strained = {} /\ handmade = {} /\ refused = {}
-----------------------------------------------------------------------------
Stay(s, at, e) == place' = [place EXCEPT ![s] = at] /\ errand' = [errand EXCEPT ![s] = e]
Leave(s) == Stay(s, "idle", NoErrand)
Here(s) == errand[s].product
(* Requests about the same product that are between two statements. *)
Others(s) == {r \in Sellers \ {s} : Here(r) = Here(s) /\ place[r] # "idle"}
Strain(s) == strained' = strained \cup {p \in {Here(s)} : Others(s) # {}}
(* A body's path f is written to row p: the row, and the product whose file it names. *)
ByHand(p, f) == handmade' = handmade \cup {p} \cup {q \in ProductIds : f \cap FilesOf(q) # {}}

(* A new product has a new identifier: one without a row, a request and a history.  A
   body may bring an identifier and a path of its own, which save() writes. *)
Create ==
  /\ errands < MaxErrands /\ errands' = errands + 1
  /\ \E p \in ProductIds :
       /\ listed' = listed \cup {p}
       /\ \/ /\ p \notin listed \cup strained \cup handmade /\ \A s \in Sellers : Here(s) # p
             /\ path' = [path EXCEPT ![p] = {}] /\ UNCHANGED handmade
          \/ \E f \in Paths : path' = [path EXCEPT ![p] = f] /\ ByHand(p, f)
  /\ UNCHANGED <<images, place, errand, strained, refused>>
Begin(s) ==
  /\ place[s] = "idle" /\ errands < MaxErrands /\ errands' = errands + 1
  /\ \E k \in {"upload", "remove_image", "update", "remove"}, p \in ProductIds, t \in Types :
       Stay(s, "find", [kind |-> k, product |-> p, row |-> p, hand |-> FALSE,
                        path |-> IF k = "upload" THEN {<<p, t>>} ELSE {}])
  /\ UNCHANGED <<listed, path, images, strained, handmade, refused>>
-----------------------------------------------------------------------------
Finds(s, kinds) ==
  /\ place[s] = "find" /\ Here(s) \in listed /\ errand[s].kind \in kinds
  /\ Strain(s) /\ UNCHANGED <<listed, path, errands, handmade>>
FindNothing(s) ==
  /\ place[s] = "find" /\ Here(s) \notin listed /\ Leave(s)
  /\ Strain(s) /\ UNCHANGED <<listed, path, images, errands, handmade, refused>>
(* In the turn that finds the row the old file is removed and the new written; a type
   that is not an image, or a failing disk, is noticed after the removal. *)
Removed(p) == images \ path[p]
ReplacedBeside(p, f) == images \cup f  \* slip: a file of another type stays
Replaced(p, f) == Removed(p) \cup f
FindForUpload(s) ==
  /\ Finds(s, {"upload"})
  /\ \/ /\ images' = Replaced(Here(s), errand[s].path) /\ Stay(s, "find_again", errand[s])
        /\ refused' = refused \ {Here(s)}
     \/ images' = Removed(Here(s)) /\ Leave(s) /\ refused' = refused \cup {Here(s)}
FindForRemoval(s) ==
  /\ Finds(s, {"remove_image", "remove"})
  /\ images' = Removed(Here(s)) /\ UNCHANGED refused
  /\ Stay(s, IF errand[s].kind = "remove" THEN "find_again" ELSE "clear", errand[s])
(* The body is assigned over the row that was read, its path and identifier too. *)
FindForUpdate(s) ==
  /\ Finds(s, {"update"}) /\ UNCHANGED <<images, refused>>
  /\ \/ Stay(s, "save", [errand[s] EXCEPT !.path = path[Here(s)]])
     \/ \E q \in ProductIds, f \in Paths :
          Stay(s, "save", [errand[s] EXCEPT !.row = q, !.path = f, !.hand = TRUE])
(* setImagePath and the service's remove look the row up once more. *)
FindAgain(s) ==
  /\ place[s] = "find_again"
  /\ IF Here(s) \notin listed THEN Leave(s)
     ELSE Stay(s, IF errand[s].kind = "remove" THEN "delete" ELSE "save", errand[s])
  /\ Strain(s) /\ UNCHANGED <<listed, path, images, errands, handmade, refused>>
-----------------------------------------------------------------------------
(* A row that was removed meanwhile is inserted again. *)
SaveProduct(s) ==
  /\ place[s] = "save"
  /\ LET e == errand[s] IN
     /\ listed' = listed \cup {e.row} /\ path' = [path EXCEPT ![e.row] = e.path]
     /\ IF e.hand THEN ByHand(e.row, e.path) ELSE UNCHANGED handmade
  /\ Strain(s) /\ Leave(s) /\ UNCHANGED <<images, errands, refused>>
ClearPath(s) ==
  /\ place[s] = "clear" /\ path' = [path EXCEPT ![Here(s)] = {}]
  /\ Strain(s) /\ Leave(s) /\ UNCHANGED <<listed, images, errands, handmade, refused>>
DeleteProduct(s) ==
  /\ place[s] = "delete"
  /\ listed' = listed \ {Here(s)} /\ path' = [path EXCEPT ![Here(s)] = {}]
  /\ Strain(s) /\ Leave(s) /\ UNCHANGED <<images, errands, handmade, refused>>
BreakOff(s) ==
  /\ place[s] # "idle" /\ Leave(s)
  /\ strained' = strained \cup {p \in {Here(s)} : place[s] \in {"find_again", "save", "clear", "delete"}}
  /\ UNCHANGED <<listed, path, images, errands, handmade, refused>>

ImagesNext ==
  \/ Create
  \/ \E s \in Sellers :
       \/ Begin(s) \/ FindNothing(s) \/ FindForUpload(s) \/ FindForRemoval(s) \/ FindForUpdate(s)
       \/ FindAgain(s) \/ SaveProduct(s) \/ ClearPath(s) \/ DeleteProduct(s) \/ BreakOff(s)
ImagesSpec == ImagesInit /\ [][ImagesNext]_imageVars
-----------------------------------------------------------------------------
(* When no request about a product is under way, its path names the one file it has
   on disk and a removed product has none, unless requests about it overlapped, one
   broke off between the file and the row, or a body wrote its row or named its file;
   after a refused upload it has no file, whatever its path names
   (products.controller.ts:75-130, products.service.ts:28-37,
   product-image-storage.service.ts:20-25). *)
ImageLossHasCause ==
  \A p \in ProductIds \ (strained \cup handmade) :
    (\A s \in Sellers : Here(s) # p) =>
      images \cap FilesOf(p) = IF p \in refused THEN {} ELSE path[p]
(* Images keep their types and this statement (products.controller.ts:75-130). *)
ImagesHold == ImagesTypeOK /\ ImageLossHasCause
=============================================================================
