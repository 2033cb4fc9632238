----------------------------- MODULE MCFileUser ------------------------------
(* Instances of FileUser for TLC: one behaviour is on a local file system, as the
   cfg sets it, another on an object store that publishes on close and cannot
   append. *)
EXTENDS FileUser

VARIABLE service

NoFlags == {}
Letters == {<<1>>, <<2>>}

S3 == INSTANCE FileUser WITH WriteThrough <- FALSE, CanAppend <- FALSE

Either(fs, s3) == UNCHANGED service /\ IF service = "fs" THEN fs ELSE s3

AnyServiceInit == UserInit /\ service \in {"fs", "s3"}

AnyServiceNext ==
    \/ \E up \in BOOLEAN :
         \/ \E m \in Modes : Either(UserLookup(m, up), m # "a" /\ S3!UserLookup(m, up))
         \/ \E size \in Offsets : Either(UserTruncate(size, up), S3!UserTruncate(size, up))
         \/ \E chunk \in Chunks : Either(UserWrite(chunk, up), S3!UserWrite(chunk, up))
         \/ Either(UserRead(up), S3!UserRead(up))
         \/ Either(UserRelease(up), S3!UserRelease(up))
         \/ Either(UserUnlink(up), S3!UserUnlink(up))
    \/ \E fault \in OwnFaults : \/ Either(UserOpen(fault), S3!UserOpen(fault))
                              \/ Either(UserCreate(fault), S3!UserCreate(fault))
    \/ Either(UserFlush, S3!UserFlush)

AnyServiceSpec == AnyServiceInit /\ [][AnyServiceNext]_<<uvars, service>>
=============================================================================
