--------------------------- MODULE MCMediaDelivery ---------------------------
(* Small instances of MediaDelivery: every station has its own place for an  *)
(* artifact; the environments share a registry for images.                   *)
EXTENDS MediaDelivery

CONSTANTS package, image, station1, station2, url, hub

EachStation == {package, image} \X {station1, station2}
PlaceOf == [x \in EachStation |-> IF x[1] = image THEN <<image, station1>> ELSE x]
HomeOf == [x \in EachStation |-> IF x[1] = image THEN <<image, image>> ELSE x]
ByDigest == {<<image, station1>>, <<image, image>>, hub}

\* Two artifacts and a single station.
CONSTANT tool
OneStation == [x \in {package, tool} \X {station1} |-> x]
=============================================================================
