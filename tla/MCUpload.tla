------------------------------ MODULE MCUpload ------------------------------
(***************************************************************************)
(* Three uploads of one user: two of two files that compete for the        *)
(* window, one with a file over the size limit; two malformed requests.    *)
(***************************************************************************)
EXTENDS UploadAdmission

MCSizes == [u \in Uploads |->
    CASE u = "first" -> <<2, 1>> [] u = "second" -> <<1, 1>>
      [] u = "third" -> <<3, 9>> [] u = "empty" -> <<>> [] OTHER -> <<1>>]
=============================================================================
