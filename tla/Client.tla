------------------------------- MODULE Client -------------------------------
(***************************************************************************)
(* internal/homewizard as the poller uses it: how a response is turned     *)
(* into an error, which API generations a connection attempt tries, and    *)
(* which endpoints a connected device is expected to serve.  Everything    *)
(* here is a pure function; Poller supplies the responses and the order.   *)
(***************************************************************************)
EXTENDS Integers, Sequences

Version == {"v1", "v2"}

Endpoint == {"measurement", "system", "state", "telegram", "batteries"}

\* The product types that capabilitiesFor tells apart.
ProductP1     == "HWE-P1"
ProductSocket == "HWE-SKT"
KWhMeters     == {"HWE-KWH1", "HWE-KWH3", "SDM230-wifi", "SDM630-wifi"}

\* The part of an API version that strconv.Atoi rejects.
NotANumber == -1

-----------------------------------------------------------------------------
(* Responses.  code is the error code decodeAPIError finds in the body,     *)
(* telegram whether the body mentions one, body what the decoder makes of   *)
(* it: "anonymous" decodes but names neither a product nor a serial.        *)

NoAnswer == [status |-> 0, code |-> "", telegram |-> FALSE, body |-> "none"]

Answer(status, code, body) ==
    [status |-> status, code |-> code, telegram |-> FALSE, body |-> body]

\* One response of every class that statusError, the decoder and fetchInfo
\* tell apart.
Responses ==
    { NoAnswer,
      Answer(200, "", "valid"), Answer(200, "", "anonymous"),
      Answer(200, "", "garbled"), Answer(204, "", "garbled"),
      Answer(404, "202", "garbled"), Answer(403, "202", "garbled"),
      Answer(401, "user:unauthorized", "garbled"), Answer(500, "", "garbled"),
      [status |-> 503, code |-> "", telegram |-> TRUE, body |-> "garbled"] }

Error == {"ErrNotFound", "ErrAPIDisabled", "ErrUnauthorized", "ErrNoTelegram",
          "other"}

\* An error is the set of the sentinels errors.Is finds in it; {} is nil.
statusError(resp) ==
    IF resp.status \in {200, 204} THEN {} ELSE
    CASE resp.status = 404                           -> {"ErrNotFound"}
      [] resp.status # 404 /\ resp.code = "202"      -> {"ErrAPIDisabled"}
      [] resp.status \in {401, 403} /\ resp.code # "202" -> {"ErrUnauthorized"}
      [] resp.status = 503 /\ resp.code # "202" /\ resp.telegram
                                                     -> {"ErrNoTelegram"}
      [] OTHER                                       -> {"other"}

do(resp) ==
    IF resp = NoAnswer THEN {"other"}
    ELSE IF statusError(resp) # {} THEN statusError(resp)
    ELSE IF resp.body = "garbled" THEN {"other"} ELSE {}

fetchInfo(resp) ==
    IF do(resp) = {} /\ resp.body = "anonymous" THEN {"other"} ELSE do(resp)

-----------------------------------------------------------------------------
\* The versions New tries, in order.
probeOrder(apiVersion, hasToken) ==
    CASE apiVersion \in Version               -> <<apiVersion>>
      [] apiVersion = "auto" /\ hasToken      -> <<"v2", "v1">>
      [] apiVersion = "auto" /\ ~hasToken     -> <<"v1", "v2">>

\* version is the dotted version string as the sequence of its parts.
atLeastAPI(version, major, minor) ==
    /\ version[1] # NotANumber
    /\ IF version[1] # major THEN version[1] > major
       ELSE IF Len(version) < 2 THEN minor = 0
       ELSE version[2] # NotANumber /\ version[2] >= minor

capabilitiesFor(product, apiVersion, version) ==
    {"measurement", "system"}
        \cup (IF product = ProductP1 THEN {"telegram"} ELSE {})
        \cup (IF /\ product \in KWhMeters \cup {ProductP1}
                 /\ version = "v2"
                 /\ atLeastAPI(apiVersion, 2, 1)
              THEN {"batteries"} ELSE {})
        \cup (IF product = ProductSocket /\ version = "v1"
              THEN {"state"} ELSE {})

Disable(caps, endpoint) == caps \ {endpoint}
=============================================================================
