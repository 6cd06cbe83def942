----------------------------- MODULE MCDownload -----------------------------
(* Small instances of the download: a file that ends inside a frame and one *)
(* whose sequence numbers come round; a recording too short for a           *)
(* calibration is the third file, to which a skip pointer leads past the    *)
(* second.                                                                  *)
EXTENDS Download

MCFiles == <<5, 7>>
=============================================================================
