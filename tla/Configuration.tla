---------------------------- MODULE Configuration ----------------------------
(***************************************************************************)
(* The configuration language: what the parser does to a memcached_st, one *)
(* step for every statement (csl/parser.yy, csl/context.cc), the files a   *)
(* configuration includes (options.cc) and memcached(), the constructor    *)
(* that takes a string.  A string is the sequence of its statements, a     *)
(* file the sequence of its lines; the scanner is left out.                *)
(*                                                                         *)
(* A parser or a file that is being read is a frame: the statements left   *)
(* of its string and the lines left of its file.  An INCLUDE puts a frame  *)
(* on top.  A failure anywhere ends every frame: the statement that        *)
(* included a file aborts when the file fails.                             *)
(***************************************************************************)
EXTENDS Behavior

CONSTANT Files  \* name of a file -> its lines; only files that exist

BehaviorNumbers == {"REMOVE_FAILED_SERVERS", "CONNECT_TIMEOUT", "IO_MSG_WATERMARK",
                    "IO_BYTES_WATERMARK", "IO_KEY_PREFETCH", "NUMBER_OF_REPLICAS",
                    "POLL_TIMEOUT", "RCV_TIMEOUT", "RETRY_TIMEOUT", "SND_TIMEOUT",
                    "SOCKET_RECV_SIZE", "SOCKET_SEND_SIZE"}

BehaviorBooleans == {"BINARY_PROTOCOL", "BUFFER_REQUESTS", "HASH_WITH_PREFIX_KEY",
                     "NOREPLY", "RANDOMIZE_REPLICA_READ", "SORT_HOSTS", "SUPPORT_CAS",
                     "TCP_NODELAY", "TCP_KEEPALIVE", "TCP_KEEPIDLE", "USE_UDP",
                     "VERIFY_KEY"}

(* The statements of the language.                                         *)
Statement ==
    [token : {"SERVER", "SOCKET"}, server : Server] \cup
    [token : {"CONFIGURE_FILE", "NAMESPACE", "INCLUDE"}, key : Name] \cup
    [token : BehaviorNumbers \cup {"POOL_MIN", "POOL_MAX"}, number : Data] \cup
    [token : {"DISTRIBUTION"}, name : Distributions, hash : Hashes \cup {"none"}] \cup
    [token : {"HASH"}, name : Hashes] \cup
    [token : BehaviorBooleans \cup {"FETCH_VERSION", "USER_DATA", "COMMENT", "EMPTY_LINE",
                                    "PARSER_DEBUG", "END", "ERROR", "UNKNOWN", "RESET"}]

ASSUME FilesAssumption == \A file \in DOMAIN Files : Files[file] \in Seq(Seq(Statement))

VARIABLE parse  \* the configuration that is being parsed

Idle == [status |-> "idle"]

Frame(string, lines) == [string |-> string, lines |-> lines, has_hash |-> FALSE]

(* memcached_parse_configuration, of call.string on the handle m.          *)
memcached_parse_configuration(call, m) ==
    parse' = [status |-> "open", call |-> call, m |-> m, frames |-> << Frame(call.string, << >>) >>]

Top == parse.frames[1]

parser_abort(m) == parse' = [parse EXCEPT !.status = "PARSE_ERROR", !.m = m]

(* The end of a statement that has a result of the library.                *)
Proceed(result) ==
    IF result.rc = "SUCCESS"
    THEN parse' = [parse EXCEPT !.m = result.m, !.frames[1].string = Tail(@)]
    ELSE parser_abort(result.m)

Reading(token) ==
    /\ parse.status = "open"
    /\ Top.string # << >>
    /\ Head(Top.string).token \in token

(* --SERVER and --SOCKET.                                                  *)
ServerStatement ==
    /\ Reading({"SERVER", "SOCKET"})
    /\ LET s == Head(Top.string)
       IN  Proceed(IF s.token = "SERVER"
                   THEN memcached_server_add_with_weight(parse.m, s.server)
                   ELSE memcached_server_add_unix_socket_with_weight(parse.m, s.server))

(* --CONFIGURE-FILE, --POOL-MIN, --POOL-MAX and what changes nothing.      *)
PlainStatement ==
    /\ Reading({"CONFIGURE_FILE", "POOL_MIN", "POOL_MAX", "FETCH_VERSION", "USER_DATA",
                "COMMENT", "EMPTY_LINE", "PARSER_DEBUG"})
    /\ LET s == Head(Top.string)
       IN  Proceed(Ok(CASE s.token = "CONFIGURE_FILE" -> [parse.m EXCEPT !.filename = s.key]
                        [] s.token = "POOL_MIN" -> [parse.m EXCEPT !.pool.initial = uint32(s.number)]
                        [] s.token = "POOL_MAX" -> [parse.m EXCEPT !.pool.max = uint32(s.number)]
                        [] s.token = "FETCH_VERSION" ->
                              [parse.m EXCEPT !.flags.is_fetching_version = TRUE]
                        [] OTHER -> parse.m))

(* --NAMESPACE can only be called once.                                    *)
NamespaceStatement ==
    /\ Reading({"NAMESPACE"})
    /\ IF parse.m.namespace # NoName THEN parser_abort(parse.m)
       ELSE Proceed(memcached_set_namespace(parse.m, Head(Top.string).key))

(* --DISTRIBUTION=d sets d twice; --DISTRIBUTION=d,h sets the hash h too.  *)
(* The distributions of the grammar are never refused.                     *)
DistributionStatement ==
    /\ Reading({"DISTRIBUTION"})
    /\ LET s == Head(Top.string)
           once == memcached_behavior_set_distribution(parse.m, s.name).m
       IN  Proceed(IF s.hash # "none"
                   THEN memcached_behavior_set_distribution_hash(once, s.hash)
                   ELSE memcached_behavior_set_distribution(once, s.name))

(* --HASH can only be set once in a string.                                *)
set_hash ==
    /\ Reading({"HASH"})
    /\ LET result == memcached_behavior_set_key_hash(parse.m, Head(Top.string).name)
       IN  IF Top.has_hash \/ result.rc # "SUCCESS" THEN parser_abort(parse.m)
           ELSE parse' = [parse EXCEPT !.m = result.m,
                                       !.frames[1] = [Top EXCEPT !.string = Tail(Top.string),
                                                                 !.has_hash = TRUE]]

BehaviorStatement ==
    /\ Reading(BehaviorNumbers \cup BehaviorBooleans)
    /\ LET s == Head(Top.string)
       IN  Proceed(memcached_behavior_set(parse.m, s.token,
                                          IF s.token \in BehaviorNumbers THEN s.number ELSE 1, ""))

(* END ends the string it is in, ERROR and what is no statement fail it.   *)
EndStatement ==
    /\ Reading({"END", "ERROR", "UNKNOWN"})
    /\ IF Head(Top.string).token = "END"
       THEN parse' = [parse EXCEPT !.frames[1].string = << >>]
       ELSE parser_abort(parse.m)

ResetStatement ==
    /\ Reading({"RESET"})
    /\ Proceed(Ok(memcached_reset(parse.m)))

(* memcached_parse_configure_file: a file that cannot be opened fails, and *)
(* so does one without lines.                                              *)
memcached_parse_configure_file(p, file) ==
    IF file.length = 0 \/ file.name \notin DOMAIN Files \/ Files[file.name] = << >>
    THEN [p EXCEPT !.status = "PARSE_ERROR"]
    ELSE [p EXCEPT !.frames = << Frame(<< >>, Files[file.name]) >> \o @]

IncludeStatement ==
    /\ Reading({"INCLUDE"})
    /\ parse' = memcached_parse_configure_file([parse EXCEPT !.frames[1].string = Tail(@)],
                                               Head(Top.string).key)

(* _parse_file_options: the next line is a configuration of its own.       *)
parse_file_options ==
    /\ parse.status = "open"
    /\ Top.string = << >> /\ Top.lines # << >>
    /\ parse' = [parse EXCEPT !.frames[1] = Frame(Head(Top.lines), Tail(Top.lines))]

(* The end of a string or file.  memcached() goes on with the file that    *)
(* its string named.                                                       *)
ParseReturn ==
    /\ parse.status = "open"
    /\ Top.string = << >> /\ Top.lines = << >>
    /\ parse' = IF Len(parse.frames) > 1 THEN [parse EXCEPT !.frames = Tail(@)]
                ELSE IF parse.call.op = "memcached" /\ parse.m.filename # NoName
                     THEN memcached_parse_configure_file(
                            [parse EXCEPT !.call.op = "memcached_file",
                                          !.frames = << Frame(<< >>, << >>) >>],
                            parse.m.filename)
                     ELSE [parse EXCEPT !.status = "SUCCESS"]

Parse ==
    \/ ServerStatement \/ PlainStatement \/ NamespaceStatement \/ DistributionStatement
    \/ set_hash \/ BehaviorStatement \/ EndStatement \/ ResetStatement
    \/ IncludeStatement \/ parse_file_options \/ ParseReturn

(* The handle and the result that the program gets back.  memcached()      *)
(* frees a handle it could not configure and returns NULL: the program     *)
(* keeps the handle m it has.                                              *)
Parsed(m) ==
    IF parse.call.op = "parse" \/ parse.status = "SUCCESS"
    THEN [m |-> parse.m, rc |-> parse.status]
    ELSE Refused(m, "NULL")
=============================================================================
