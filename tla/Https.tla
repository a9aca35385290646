-------------------------------- MODULE Https --------------------------------
(***************************************************************************)
(* The HTTPS client of utils/https.c: the connection record that a call    *)
(* fills in, the request that curl_easy_perform sends for it, and what a   *)
(* transfer leaves in the caller's result pointer.  A name, a value, a     *)
(* signature is a tuple of strings; curl is external.                      *)
(***************************************************************************)
EXTENDS Integers, Sequences

(* utils_https_new *)
NewConnection == [headers |-> <<>>, parameters |-> <<>>]

(* utils_https_add_post_parameter: "name=value", joined by "&". *)
AddPostParameter(http, name, value) ==
  [http EXCEPT !.parameters = Append(@, <<name, value>>)]

(* utils_https_add_header *)
AddHeader(http, name, value) == [http EXCEPT !.headers = Append(@, <<name, value>>)]

(* utils_https_sign: HMAC-SHA512, which nobody makes without the secret. *)
Sign(secret, message) == <<"hmac", secret, message>>

Request(method, url, http, body) ==
  [method |-> method, url |-> url, headers |-> http.headers, body |-> body]

(* utils_https_get sends no parameters, whatever was added; utils_https_post *)
(* sends a GET when there are none.                                          *)
GetRequest(url, http)  == Request("GET", url, http, <<>>)
PostRequest(url, http) ==
  Request(IF http.parameters = <<>> THEN "GET" ELSE "POST", url, http, http.parameters)

(* How a transfer ends: "unset" is a connection without a curl handle, for   *)
(* which nothing is done and 0 is returned; "failed" is an error of curl, or *)
(* of write_memory_callback, which has no memory; "empty" is an answer of no *)
(* bytes, for which write_memory_callback is not called, so that the one     *)
(* byte of malloc(1) is never written.  Any other answer ends with a 0.      *)
Returned(kind)    == IF kind = "failed" THEN -1 ELSE 0
Terminated(kind)  == kind \notin {"failed", "unset", "empty"}
=============================================================================
