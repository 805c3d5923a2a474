--------------------------- MODULE Content_proofs ---------------------------
(***************************************************************************)
(* Theorems about module Content, for any number of requests, reports and  *)
(* clubs, while any requests change the tables of the directory.           *)
(***************************************************************************)
EXTENDS Content, Serial_proofs

\* One of the requests of this module moves, or one of the directory, whose
\* bodies name issued URLs that exist, or none does.
LEMMA ContentMoves ==
    [ContentNext]_allVars =>
        \/ \E w \in Write : (\E b \in Bodies : ArriveAt(w, b)) \/ ContentStep(w)
        \/ Next /\ UNCHANGED contentVars /\ (\A r \in Req : Known(form[r]))'
        \/ UNCHANGED <<tables, contentVars>>
BY DEF ContentNext, allVars

\* A request of this module changes a table of the directory only where an
\* upload stores its URL.
LEMMA TablesStep ==
    [ContentNext]_allVars => [Next]_tables \/ \E w \in Write : StoreIcon(w)
BY ContentMoves DEF ArriveAt, ContentStep, ReadUser, ReadClub, Upload, CreateReport,
       UpdateReport, DeleteReport, PostFeedback, Break

-----------------------------------------------------------------------------
(* Reports and images                                                      *)

Columns ==
    /\ reports \in [ReportId -> ReportRow \cup {Null, Gone}]
    /\ objects \subseteq Write /\ issues \subseteq Issue
    /\ body \in [Write -> Bodies \cup {Null}]
    /\ at \in [Write -> {"idle"} \cup Spots \cup Ended]

\* What a request has done before it gets where it is.
Behind(w) ==
    /\ at[w] # "idle" => body[w] # Null
    /\ at[w] = "upload" => body[w].kind \in Images
    /\ at[w] = "store" /\ body[w].kind = "icon" => w \in objects
    /\ at[w] = "done" /\ body[w].kind = "deleteReport" => reports[body[w].report] = Gone

\* An issued URL that a row or a body names is that of an image.
UrlsExist == IconsExist /\ \A r \in Req : Known(form[r])

ContentInv == /\ Columns
              /\ \A w \in Write : Behind(w)
              /\ UrlsExist /\ RemovedOnce

\* The fields of a body.
LEMMA Asked ==
    ASSUME Columns, NEW w \in Write, body[w] # Null
    PROVE  /\ body[w] \in Body /\ body[w].kind \in Kind /\ body[w].club \in ClubId
           /\ body[w].report \in ReportId /\ body[w].token \in Credential
BY ContentAssumption DEF Columns, Body

\* The row of the club alone changes, and in nothing but its icon.
LEMMA IconStored ==
    ASSUME Sound, ContentInv, NEW w \in Write, StoreIcon(w)
    PROVE  /\ UNCHANGED <<users, form, pc, early, serial, met, objects>>
           /\ w \in objects /\ clubs' \in [ClubId -> ClubRow \cup {Null}]
           /\ \A c \in ClubId :
                 \/ clubs'[c] = clubs[c]
                 \/ /\ c = body[w].club /\ LiveClub(c) /\ LiveClub(c)'
                    /\ clubs'[c].president_id = clubs[c].president_id
                    /\ clubs'[c].icon_url = w
<1>1. body[w].club \in ClubId /\ w \in objects
  BY Asked DEF StoreIcon, ContentInv, Behind
<1>2. CASE clubs' = clubs
  BY <1>1, <1>2 DEF StoreIcon, Sound, TypeOK
<1>3. CASE clubs' # clubs
  <2> DEFINE c == body[w].club
             row == [clubs[c] EXCEPT !.icon_url = w]
  <2>1. clubs[c] # Null /\ ~clubs[c].deleted /\ clubs' = [clubs EXCEPT ![c] = row]
    BY <1>3 DEF StoreIcon, LiveClub
  <2>2. clubs[c] \in ClubRow
    BY <1>1, <2>1 DEF Sound, TypeOK
  <2>3. /\ row \in ClubRow /\ row # Null /\ ~row.deleted
        /\ row.president_id = clubs[c].president_id /\ row.icon_url = w
    BY <2>1, <2>2, ContentAssumption, TablesAssumption DEF ClubRow
  <2> HIDE DEF c, row
  <2>4. clubs'[c] = row /\ \A d \in ClubId \ {c} : clubs'[d] = clubs[d]
    BY <1>1, <2>1 DEF Sound, TypeOK, c
  <2>5. clubs' \in [ClubId -> ClubRow \cup {Null}]
    BY <1>1, <2>1, <2>3 DEF Sound, TypeOK, c
  <2> QED BY <1>1, <2>1, <2>3, <2>4, <2>5 DEF StoreIcon, LiveClub, c
<1> QED BY <1>2, <1>3

\* So what holds of the directory goes on holding.
LEMMA SoundKept == Sound /\ ContentInv /\ [ContentNext]_allVars => Sound'
<1> SUFFICES ASSUME Sound, ContentInv, [ContentNext]_allVars PROVE Sound'
  OBVIOUS
<1>1. ASSUME NEW w \in Write, StoreIcon(w) PROVE Sound'
  BY <1>1, IconStored DEF Sound, TypeOK, Targets, Reading
<1> QED BY <1>1, TablesStep, SoundStep

LEMMA SerialKept == Sound /\ Serial /\ ContentInv /\ [ContentNext]_allVars => Serial'
<1> SUFFICES ASSUME Sound, Serial, ContentInv, [ContentNext]_allVars PROVE Serial'
  OBVIOUS
<1>1. ASSUME NEW w \in Write, StoreIcon(w) PROVE Serial'
  <2>1. UNCHANGED <<users, form, pc, serial>>
    BY <1>1, IconStored
  <2>2. ASSUME NEW c \in ClubId, LiveClub(c)'
        PROVE  LiveClub(c) /\ clubs'[c].president_id = clubs[c].president_id
    BY <1>1, <2>2, IconStored DEF LiveClub
  <2>3. Serial => Serial'
    BY <2>1, <2>2 DEF Serial, Alone, NoDeletedPresident, Unlinked, PresidentFound, Findable, Live
  <2> QED BY <2>3
<1> QED BY <1>1, TablesStep, SerialStep

\* The icon that a request of the directory leaves is the old one, none, or the
\* one of its body.
LEMMA IconFromBody ==
    ASSUME Sound, [Next]_tables, NEW c \in ClubId, clubs'[c] # Null
    PROVE  \/ clubs[c] # Null /\ clubs'[c].icon_url = clubs[c].icon_url
           \/ \E r \in Req : /\ form[r] # Null
                            /\ form[r].kind \in {"register", "createClub", "updateClub"}
                            /\ clubs'[c].icon_url = form[r].icon_url
<1> DEFINE Goal == \/ clubs[c] # Null /\ clubs'[c].icon_url = clubs[c].icon_url
                   \/ \E r \in Req : /\ form[r] # Null
                                    /\ form[r].kind \in {"register", "createClub", "updateClub"}
                                    /\ clubs'[c].icon_url = form[r].icon_url
<1>0. clubs[c] # Null => clubs[c] \in ClubRow
  BY DEF Sound, TypeOK
<1>1. CASE clubs'[c] = clubs[c]
  BY <1>1
<1>2. ASSUME NEW r \in Req, UnlinkPresident(r) PROVE Goal
  <2>1. clubs'[c] = IF LiveClub(c) /\ clubs[c].president_id = form[r].id
                    THEN [clubs[c] EXCEPT !.president_id = Null] ELSE clubs[c]
    BY <1>2 DEF UnlinkPresident
  <2> QED BY <1>0, <2>1 DEF ClubRow, LiveClub
<1>3. ASSUME NEW r \in Req, InsertClub(r), clubs'[c] # clubs[c] PROVE Goal
  <2>1. clubs'[c] = NewClub(form[r].president_id, form[r])
    BY <1>3 DEF InsertClub, Sound, TypeOK
  <2> QED BY <1>3, <2>1 DEF InsertClub, IsAt, NewClub, Sound, TypeOK
<1>4. ASSUME NEW r \in Req, InsertUserAndClub(r), clubs'[c] # clubs[c] PROVE Goal
  <2>1. PICK u \in UserId : clubs'[c] = NewClub(u, form[r])
    BY <1>4 DEF InsertUserAndClub, Sound, TypeOK
  <2> QED BY <1>4, <2>1 DEF InsertUserAndClub, IsAt, NewClub, Sound, TypeOK
<1>5. ASSUME NEW r \in Req, WriteClub(r), clubs'[c] # clubs[c] PROVE Goal
  <2>1. c = form[r].id /\ clubs'[c] = UpdatedClub(clubs[c], form[r]) /\ clubs[c] # Null
        /\ form[r] # Null /\ form[r].kind = "updateClub"
    BY <1>5 DEF WriteClub, Writable, LiveClub, IsAt, Sound, TypeOK
  <2>2. clubs'[c].icon_url = Given(form[r].icon_url, clubs[c].icon_url)
    BY <1>0, <2>1 DEF UpdatedClub, ClubRow
  <2> QED BY <2>1, <2>2 DEF Given
<1>6. ASSUME NEW r \in Req, DeleteClub(r), clubs'[c] # clubs[c] PROVE Goal
  <2>1. clubs[c] # Null /\ clubs'[c] = [clubs[c] EXCEPT !.deleted = TRUE]
    BY <1>6 DEF DeleteClub, LiveClub, Sound, TypeOK
  <2> QED BY <1>0, <2>1 DEF ClubRow
<1> QED BY <1>1, <1>2, <1>3, <1>4, <1>5, <1>6, WhoWrites
        DEF Writers, InsertUser, WriteUser, EraseUser

\* A step that leaves the tables alone and loses no image.
LEMMA UrlsKept ==
    ASSUME UrlsExist, UNCHANGED tables, objects \subseteq objects'
    PROVE  UrlsExist'
BY DEF UrlsExist, IconsExist, Known, tables

LEMMA InitContent == ContentInit => ContentInv
<1> SUFFICES ASSUME ContentInit PROVE ContentInv
  OBVIOUS
<1>1. UrlsExist
  BY ContentAssumption DEF ContentInit, Init, UrlsExist, IconsExist, Known
<1> QED BY <1>1, ContentAssumption
        DEF ContentInit, ContentInv, Columns, Behind, RemovedOnce, Ended, Spots

LEMMA ContentInvStep == Sound /\ ContentInv /\ [ContentNext]_allVars => ContentInv'
<1> SUFFICES ASSUME Sound, ContentInv, [ContentNext]_allVars PROVE ContentInv'
  OBVIOUS
<1> USE ContentAssumption
<1>1. ASSUME NEW w \in Write, NEW b \in Bodies, ArriveAt(w, b) PROVE ContentInv'
  <2>1. Columns'
    BY <1>1, Asked DEF ArriveAt, Move, ContentInv, Columns, Behind, Spots, Ended, ReportRow
  <2>2. ASSUME NEW v \in Write PROVE Behind(v)'
    BY <1>1, Asked DEF ArriveAt, Move, ContentInv, Columns, Behind, Spots
  <2>3. UrlsExist'
    BY <1>1, UrlsKept DEF ArriveAt, ContentInv
  <2>4. RemovedOnce'
    BY <1>1, Asked DEF ArriveAt, Move, ContentInv, Columns, Behind, RemovedOnce, Spots
  <2> QED BY <2>1, <2>2, <2>3, <2>4 DEF ContentInv
<1>2. ASSUME NEW w \in Write, ReadUser(w) PROVE ContentInv'
  <2>1. Columns'
    BY <1>2, Asked DEF ReadUser, Move, ContentInv, Columns, Behind, Spots, Ended, ReportRow
  <2>2. ASSUME NEW v \in Write PROVE Behind(v)'
    BY <1>2, Asked DEF ReadUser, Move, ContentInv, Columns, Behind, Spots
  <2>3. UrlsExist'
    BY <1>2, UrlsKept DEF ReadUser, ContentInv
  <2>4. RemovedOnce'
    BY <1>2, Asked DEF ReadUser, Move, ContentInv, Columns, Behind, RemovedOnce, Spots
  <2> QED BY <2>1, <2>2, <2>3, <2>4 DEF ContentInv
<1>3. ASSUME NEW w \in Write, ReadClub(w) PROVE ContentInv'
  <2>1. Columns'
    BY <1>3, Asked DEF ReadClub, Move, ContentInv, Columns, Behind, Spots, Ended, ReportRow,
       FirstWrite
  <2>2. ASSUME NEW v \in Write PROVE Behind(v)'
    BY <1>3, Asked DEF ReadClub, Move, ContentInv, Columns, Behind, Spots, FirstWrite, Images
  <2>3. UrlsExist'
    BY <1>3, UrlsKept DEF ReadClub, ContentInv
  <2>4. RemovedOnce'
    BY <1>3, Asked DEF ReadClub, Move, ContentInv, Columns, Behind, RemovedOnce, Spots,
       FirstWrite
  <2> QED BY <2>1, <2>2, <2>3, <2>4 DEF ContentInv
<1>4. ASSUME NEW w \in Write, Upload(w) PROVE ContentInv'
  <2>1. Columns'
    BY <1>4, Asked DEF Upload, Move, ContentInv, Columns, Behind, Spots, Ended, ReportRow
  <2>2. ASSUME NEW v \in Write PROVE Behind(v)'
    BY <1>4, Asked DEF Upload, Move, ContentInv, Columns, Behind, Spots, Images
  <2>3. UrlsExist'
    BY <1>4, UrlsKept DEF Upload, ContentInv
  <2>4. RemovedOnce'
    BY <1>4, Asked DEF Upload, Move, ContentInv, Columns, Behind, RemovedOnce, Spots, Images
  <2> QED BY <2>1, <2>2, <2>3, <2>4 DEF ContentInv
<1>5. ASSUME NEW w \in Write, StoreIcon(w) PROVE ContentInv'
  <2>1. Columns'
    BY <1>5, Asked DEF StoreIcon, Move, ContentInv, Columns, Behind, Spots, Ended, ReportRow
  <2>2. ASSUME NEW v \in Write PROVE Behind(v)'
    BY <1>5, Asked DEF StoreIcon, Move, ContentInv, Columns, Behind, Spots
  <2>3. UrlsExist'
    BY <1>5, IconStored DEF ContentInv, UrlsExist, IconsExist, Known
  <2>4. RemovedOnce'
    BY <1>5, Asked DEF StoreIcon, Move, ContentInv, Columns, Behind, RemovedOnce, Spots
  <2> QED BY <2>1, <2>2, <2>3, <2>4 DEF ContentInv
<1>6. ASSUME NEW w \in Write, CreateReport(w) PROVE ContentInv'
  <2>1. Columns'
    BY <1>6, Asked DEF CreateReport, Move, ContentInv, Columns, Behind, Spots, Ended, ReportRow
  <2>2. ASSUME NEW v \in Write PROVE Behind(v)'
    BY <1>6, Asked DEF CreateReport, Move, ContentInv, Columns, Behind, Spots, Matches
  <2>3. UrlsExist'
    BY <1>6, UrlsKept DEF CreateReport, ContentInv
  <2>4. RemovedOnce'
    BY <1>6, Asked DEF CreateReport, Move, ContentInv, Columns, Behind, RemovedOnce, Spots,
       Matches
  <2> QED BY <2>1, <2>2, <2>3, <2>4 DEF ContentInv
<1>7. ASSUME NEW w \in Write, UpdateReport(w) PROVE ContentInv'
  <2>1. Columns'
    BY <1>7, Asked DEF UpdateReport, Move, ContentInv, Columns, Behind, Spots, Ended,
       ReportRow, Matches
  <2>2. ASSUME NEW v \in Write PROVE Behind(v)'
    BY <1>7, Asked DEF UpdateReport, Move, ContentInv, Columns, Behind, Spots, Matches
  <2>3. UrlsExist'
    BY <1>7, UrlsKept DEF UpdateReport, ContentInv
  <2>4. RemovedOnce'
    BY <1>7, Asked DEF UpdateReport, Move, ContentInv, Columns, Behind, RemovedOnce, Spots,
       Matches
  <2> QED BY <2>1, <2>2, <2>3, <2>4 DEF ContentInv
<1>8. ASSUME NEW w \in Write, DeleteReport(w) PROVE ContentInv'
  <2>1. Columns'
    BY <1>8, Asked DEF DeleteReport, Move, ContentInv, Columns, Behind, Spots, Ended,
       ReportRow, Matches
  <2>2. ASSUME NEW v \in Write PROVE Behind(v)'
    BY <1>8, Asked DEF DeleteReport, Move, ContentInv, Columns, Behind, Spots, Matches
  <2>3. UrlsExist'
    BY <1>8, UrlsKept DEF DeleteReport, ContentInv
  <2>4. RemovedOnce'
    BY <1>8, Asked DEF DeleteReport, Move, ContentInv, Columns, Behind, RemovedOnce, Spots,
       Matches
  <2> QED BY <2>1, <2>2, <2>3, <2>4 DEF ContentInv
<1>9. ASSUME NEW w \in Write, PostFeedback(w) PROVE ContentInv'
  <2>1. Columns'
    BY <1>9, Asked DEF PostFeedback, Move, ContentInv, Columns, Behind, Spots, Ended,
       ReportRow, Issue, Role, Credential
  <2>2. ASSUME NEW v \in Write PROVE Behind(v)'
    BY <1>9, Asked DEF PostFeedback, Move, ContentInv, Columns, Behind, Spots
  <2>3. UrlsExist'
    BY <1>9, UrlsKept DEF PostFeedback, ContentInv
  <2>4. RemovedOnce'
    BY <1>9, Asked DEF PostFeedback, Move, ContentInv, Columns, Behind, RemovedOnce, Spots
  <2> QED BY <2>1, <2>2, <2>3, <2>4 DEF ContentInv
<1>10. ASSUME NEW w \in Write, Break(w) PROVE ContentInv'
  <2>1. Columns'
    BY <1>10, Asked DEF Break, Move, ContentInv, Columns, Behind, Spots, Ended, ReportRow
  <2>2. ASSUME NEW v \in Write PROVE Behind(v)'
    BY <1>10, Asked DEF Break, Move, ContentInv, Columns, Behind, Spots
  <2>3. UrlsExist'
    BY <1>10, UrlsKept DEF Break, ContentInv
  <2>4. RemovedOnce'
    BY <1>10, Asked DEF Break, Move, ContentInv, Columns, Behind, RemovedOnce, Spots
  <2> QED BY <2>1, <2>2, <2>3, <2>4 DEF ContentInv
<1>11. CASE UNCHANGED contentVars /\ UNCHANGED tables
  BY <1>11, UrlsKept DEF contentVars, ContentInv, Columns, Behind, RemovedOnce
<1>12. CASE Next /\ UNCHANGED contentVars /\ (\A r \in Req : Known(form[r]))'
  <2>1. IconsExist'
    BY <1>12, IconFromBody DEF contentVars, ContentInv, UrlsExist, IconsExist, Known
  <2> QED BY <1>12, <2>1 DEF contentVars, ContentInv, Columns, Behind, RemovedOnce, UrlsExist
<1> QED BY <1>1, <1>2, <1>3, <1>4, <1>5, <1>6, <1>7, <1>8, <1>9, <1>10, <1>11, <1>12,
           ContentMoves
        DEF ContentStep

LEMMA ContentAlways == ContentSpec => []ContentInv /\ []Sound
<1>1. ContentInit => Sound
  BY InitSound DEF ContentInit
<1> QED BY <1>1, InitContent, ContentInvStep, SoundKept, PTL DEF ContentSpec

\* Reports, images, issues and requests are what they may be.
THEOREM ContentTypeCorrect == ContentSpec => []ContentTypeOK
<1>1. ContentInit => entitled \in [Write -> SUBSET ClubId]
  BY DEF ContentInit
<1>2. entitled \in [Write -> SUBSET ClubId] /\ [ContentNext]_allVars
      => (entitled \in [Write -> SUBSET ClubId])'
  <2> SUFFICES ASSUME entitled \in [Write -> SUBSET ClubId], [ContentNext]_allVars
               PROVE  (entitled \in [Write -> SUBSET ClubId])'
    OBVIOUS
  <2>1. CASE ContentNext
    BY <2>1 DEF ContentNext, MayWrite
  <2>2. CASE UNCHANGED allVars
    BY <2>2 DEF allVars
  <2> QED BY <2>1, <2>2
<1>3. Sound /\ ContentInv /\ entitled \in [Write -> SUBSET ClubId] => ContentTypeOK
  BY DEF Sound, ContentInv, Columns, Behind, ContentTypeOK
<1> QED BY <1>1, <1>2, <1>3, ContentAlways, PTL DEF ContentSpec

\* An icon that a club shows is in the bucket, if the server has issued it.
THEOREM ShownIconsExist == ContentSpec => []IconsExist
<1> ContentInv => IconsExist
  BY DEF ContentInv, UrlsExist
<1> QED BY ContentAlways, PTL

\* A report is removed by one request at most.
THEOREM ReportsAreRemovedOnce == ContentSpec => []RemovedOnce
<1> ContentInv => RemovedOnce
  BY DEF ContentInv
<1> QED BY ContentAlways, PTL

\* No update that is still on its way brings a removed report back.
THEOREM RemovedReportsStayAway == ContentSpec => RemovedStaysRemoved
<1> DEFINE Stays == \A i \in ReportId : reports[i] = Gone => reports'[i] = Gone
<1>1. ContentInv /\ [ContentNext]_allVars => Stays
  BY ContentAssumption, ContentMoves
     DEF ContentInv, Columns, ContentStep, contentVars, ArriveAt, ReadUser, ReadClub, Upload,
         StoreIcon, CreateReport, UpdateReport, DeleteReport, PostFeedback, Break, Matches
<1> HIDE DEF Stays
<1>2. ContentSpec => [][Stays]_allVars
  BY <1>1, ContentAlways, PTL DEF ContentSpec
<1> QED BY <1>2 DEF Stays, RemovedStaysRemoved

\* An upload that was on its way when its club was deleted changes nothing.
THEOREM DeletedClubIsFrozen == ContentSpec => DeletedClubKeepsIcon
<1> DEFINE Frozen ==
      \A c \in ClubId : clubs[c] # Null /\ clubs[c].deleted =>
         /\ clubs'[c] = clubs[c]
         /\ \A w \in Write : /\ Ends(w) /\ body[w].kind = "icon" /\ body[w].club = c
                             => at'[w] # "done"
<1>1. Sound /\ ContentInv /\ [ContentNext]_allVars => Frozen
  <2> SUFFICES ASSUME Sound, ContentInv, [ContentNext]_allVars, NEW c \in ClubId,
                      clubs[c] # Null, clubs[c].deleted
               PROVE  /\ clubs'[c] = clubs[c]
                      /\ \A w \in Write : /\ Ends(w) /\ body[w].kind = "icon"
                                          /\ body[w].club = c
                                          => at'[w] # "done"
    OBVIOUS
  <2>1. clubs'[c] = clubs[c]
    <3>1. ASSUME NEW w \in Write, StoreIcon(w) PROVE clubs'[c] = clubs[c]
      BY <3>1, IconStored DEF LiveClub
    <3> QED BY <3>1, TablesStep, ClubRows DEF ClubRowStep
  <2>2. CASE UNCHANGED at
    BY <2>1, <2>2 DEF Ends
  <2>3. ASSUME NEW w \in Write, StoreIcon(w)
        PROVE  \A v \in Write : /\ Ends(v) /\ body[v].kind = "icon" /\ body[v].club = c
                                => at'[v] # "done"
    BY <2>3 DEF StoreIcon, LiveClub, Ends, Move, ContentInv, Columns
  <2>4. ASSUME NEW w \in Write, NEW spot, Move(w, spot),
               at[w] # "store" \/ body[w].kind # "icon" \/ spot # "done"
        PROVE  \A v \in Write : /\ Ends(v) /\ body[v].kind = "icon" /\ body[v].club = c
                                => at'[v] # "done"
    BY <2>4 DEF Ends, Move, ContentInv, Columns
  <2> QED BY <2>1, <2>2, <2>3, <2>4, ContentMoves
          DEF ContentStep, contentVars, ArriveAt, ReadUser, ReadClub, Upload, CreateReport,
              UpdateReport, DeleteReport, PostFeedback, Break
<1> HIDE DEF Frozen
<1>2. ContentSpec => [][Frozen]_allVars
  BY <1>1, ContentAlways, PTL DEF ContentSpec
<1> QED BY <1>2 DEF Frozen, DeletedClubKeepsIcon

-----------------------------------------------------------------------------
(* Whose clubs are written to                                              *)

\* Past its first read an administrator was live at that time and could write
\* to any club; past the second read a president could write to the club of
\* the token, whose president, no two requests of the directory having
\* overlapped, is live.
Entitled(w) ==
    /\ at[w] \in {"club", "upload", "store"} /\ body[w].token.role = "admin"
       => entitled[w] = ClubId
    /\ serial /\ at[w] \in {"upload", "store"} =>
          /\ body[w].kind \notin {"feedback", "bannerImage"} => body[w].club \in entitled[w]
          /\ body[w].token.club_id # Null => body[w].token.club_id \in entitled[w]

EntitledInv == /\ entitled \in [Write -> SUBSET ClubId]
               /\ \A w \in Write : Entitled(w)

\* No request loses a club it could write to.
LEMMA EntitledGrows ==
    ASSUME EntitledInv, [ContentNext]_allVars, NEW w \in Write
    PROVE  /\ entitled'[w] \in SUBSET ClubId /\ entitled[w] \subseteq entitled'[w]
           /\ ContentNext /\ at'[w] \in Spots =>
                 MayWrite(body[w].token.sub)' \subseteq entitled'[w]
<1>1. CASE ContentNext
  <2>1. entitled'[w] = entitled[w] \cup
          (IF at[w] \in Spots THEN MayWrite(body[w].token.sub) ELSE {})'
    BY <1>1 DEF ContentNext
  <2>2. MayWrite(body[w].token.sub)' \subseteq ClubId
    BY DEF MayWrite
  <2> QED BY <2>1, <2>2 DEF EntitledInv
<1>2. CASE ~ContentNext
  BY <1>2 DEF allVars, EntitledInv
<1> QED BY <1>1, <1>2

LEMMA EntitledStep ==
    Sound /\ Serial /\ ContentInv /\ EntitledInv /\ [ContentNext]_allVars => EntitledInv'
<1> SUFFICES ASSUME Sound, Serial, ContentInv, EntitledInv, [ContentNext]_allVars
             PROVE  EntitledInv'
  OBVIOUS
<1>1. entitled' \in [Write -> SUBSET ClubId]
  <2>1. CASE ContentNext
    BY <2>1 DEF ContentNext, EntitledInv, MayWrite
  <2>2. CASE ~ContentNext
    BY <2>2 DEF allVars, EntitledInv
  <2> QED BY <2>1, <2>2
<1>2. ASSUME NEW w \in Write, at'[w] = at[w], body'[w] = body[w], serial' => serial
      PROVE  Entitled(w)'
  BY <1>2, EntitledGrows DEF EntitledInv, Entitled
<1>3. serial' => serial
  BY TablesStep DEF StoreIcon, Next, UserStep, ClubStep, Submit, Abort, Guard, VerifyToken, CheckLoginId,
     CheckPhone, InsertUser, ReadTarget, WriteUser, UnlinkPresident, EraseUser,
     EnsurePresident, InsertClub, InsertUserAndClub, CheckDates, WriteClub, DeleteClub, tables
<1>4. CASE UNCHANGED <<body, at>>
  BY <1>1, <1>2, <1>3, <1>4 DEF EntitledInv
<1>5. ASSUME NEW w \in Write, ReadUser(w), ContentNext PROVE Entitled(w)'
  <2>1. body' = body /\ UNCHANGED tables
    BY <1>5 DEF ReadUser
  <2>2. at'[w] \in {"club", "refused"} /\ (at'[w] = "club" => ClaimsMatch(body[w].token))
    BY <1>5 DEF ReadUser, Move, ContentInv, Columns
  <2>3. ASSUME at'[w] = "club", body[w].token.role = "admin" PROVE entitled'[w] = ClubId
    <3>1. MayWrite(body[w].token.sub)' = ClubId
      BY <2>1, <2>2, <2>3 DEF ClaimsMatch, MayWrite, tables, Live
    <3> QED BY <1>5, <2>3, <3>1, EntitledGrows DEF Spots
  <2> QED BY <2>1, <2>2, <2>3 DEF Entitled
<1>6. ASSUME NEW w \in Write, ReadClub(w), ContentNext PROVE Entitled(w)'
  <2>1. body' = body /\ UNCHANGED tables /\ body[w] # Null /\ at[w] = "club"
    BY <1>6 DEF ReadClub, ContentInv, Behind
  <2>2. PICK c \in managedClub(body[w].token.sub, body[w].token.role) :
          at'[w] = IF c = body[w].token.club_id /\ Permitted(body[w])
                   THEN FirstWrite(body[w].kind) ELSE "refused"
    BY <1>6 DEF ReadClub, Move, ContentInv, Columns
  <2>3. CASE at'[w] \notin {"upload", "store"}
    BY <2>2, <2>3 DEF FirstWrite, Entitled
  <2>4. CASE at'[w] \in {"upload", "store"}
    <3>1. c = body[w].token.club_id /\ Permitted(body[w])
      BY <2>2, <2>4
    <3>2. body[w] \in Body /\ body[w].club \in ClubId /\ body[w].token \in Credential
      BY <2>1, Asked DEF ContentInv
    <3>3. CASE body[w].token.role = "admin"
      <4>1. entitled[w] = ClubId
        BY <2>1, <3>3 DEF EntitledInv, Entitled
      <4>2. entitled'[w] = ClubId
        BY <4>1, EntitledGrows
      <4> QED BY <2>1, <3>2, <4>2 DEF Entitled, Credential
    <3>4. CASE body[w].token.role # "admin"
      <4>1. body[w].kind \notin {"feedback", "bannerImage"} => body[w].token.club_id = body[w].club
        BY <3>1, <3>4 DEF Permitted, assertClubWritePermission
      <4>2. ASSUME serial, c # Null PROVE c \in entitled'[w]
        <5>1. c \in ClubId /\ LiveClub(c) /\ clubs[c].president_id = body[w].token.sub
          BY <2>2, <4>2 DEF managedClub
        <5>2. Live(body[w].token.sub)
          BY <3>2, <4>2, <5>1, TablesAssumption
             DEF Serial, NoDeletedPresident, Findable, Credential, UserId
        <5>3. c \in MayWrite(body[w].token.sub)'
          BY <2>1, <5>1, <5>2 DEF MayWrite, tables, Live, LiveClub
        <5> QED BY <1>6, <2>4, <5>3, EntitledGrows DEF Spots
      <4>3. body[w].club # Null
        BY <3>2, TablesAssumption DEF ClubId
      <4> QED BY <1>3, <2>1, <3>1, <3>4, <4>1, <4>2, <4>3 DEF Entitled
    <3> QED BY <3>3, <3>4
  <2> QED BY <2>3, <2>4
<1>7. ASSUME NEW w \in Write, Upload(w) PROVE Entitled(w)'
  <2>1. at[w] = "upload" /\ body' = body /\ serial' = serial
    BY <1>7 DEF Upload, tables
  <2>2. entitled[w] \subseteq entitled'[w] /\ entitled'[w] \subseteq ClubId
    BY EntitledGrows
  <2>3. Entitled(w)
    BY DEF EntitledInv
  <2> QED BY <2>1, <2>2, <2>3 DEF Entitled
<1>8. ASSUME NEW w \in Write, StoreIcon(w) PROVE Entitled(w)'
  BY <1>8 DEF StoreIcon, Move, ContentInv, Columns, Entitled, EntitledInv
<1>9. ASSUME NEW w \in Write, CreateReport(w) PROVE Entitled(w)'
  BY <1>9 DEF CreateReport, Move, ContentInv, Columns, Entitled, EntitledInv
<1>10. ASSUME NEW w \in Write, UpdateReport(w) PROVE Entitled(w)'
  BY <1>10 DEF UpdateReport, Move, ContentInv, Columns, Entitled, EntitledInv
<1>11. ASSUME NEW w \in Write, DeleteReport(w) PROVE Entitled(w)'
  BY <1>11 DEF DeleteReport, Move, ContentInv, Columns, Entitled, EntitledInv
<1>12. ASSUME NEW w \in Write, PostFeedback(w) PROVE Entitled(w)'
  BY <1>12 DEF PostFeedback, Move, ContentInv, Columns, Entitled, EntitledInv
<1>13. ASSUME NEW w \in Write, Break(w) PROVE Entitled(w)'
  BY <1>13 DEF Break, Move, ContentInv, Columns, Entitled, EntitledInv
<1>14. ASSUME NEW w \in Write, NEW b \in Bodies, ArriveAt(w, b) PROVE Entitled(w)'
  BY <1>14 DEF ArriveAt, Move, ContentInv, Columns, Entitled
<1>15. ASSUME NEW w \in Write, (\E b \in Bodies : ArriveAt(w, b)) \/ ContentStep(w), ContentNext
      PROVE  EntitledInv'
  <2>1. Entitled(w)'
    BY <1>5, <1>6, <1>7, <1>8, <1>9, <1>10, <1>11, <1>12, <1>13, <1>14, <1>15 DEF ContentStep
  <2>2. ASSUME NEW v \in Write, v # w PROVE at'[v] = at[v] /\ body'[v] = body[v]
    BY <1>15, <2>2 DEF ArriveAt, ContentStep, ReadUser, ReadClub, Upload, StoreIcon,
       CreateReport,
       UpdateReport, DeleteReport, PostFeedback, Break, Move, ContentInv, Columns
  <2> QED BY <1>1, <1>2, <1>3, <2>1, <2>2 DEF EntitledInv
<1> QED BY <1>4, <1>15, ContentMoves DEF ContentNext, allVars, contentVars

\* What a request writes belongs to a club that its user could write to since
\* the request arrived, if the requests of the directory do not overlap.
THEOREM WritesWerePermitted ==
    ASSUME \A t \in Start : Orderly(t)
    PROVE  ContentSpec => WritesArePermitted
<1> DEFINE Permits ==
      serial =>
        /\ \A i \in ReportId : reports'[i] # reports[i] =>
             \E w \in Write : /\ Ends(w) /\ body[w].club \in entitled[w]
                              /\ \A row \in {reports[i], reports'[i]} \cap ReportRow :
                                   row.club_id = body[w].club
        /\ \A w \in Write, c \in ClubId :
             Ends(w) /\ clubs'[c] # clubs[c] => c \in entitled[w]
        /\ \A x \in issues' \ issues :
             x.club_id # Null => x.club_id \in entitled[x.by]
<1>1. Sound /\ ContentInv /\ EntitledInv /\ [ContentNext]_allVars => Permits
  <2> SUFFICES ASSUME Sound, ContentInv, EntitledInv, [ContentNext]_allVars, serial
               PROVE  /\ \A i \in ReportId : reports'[i] # reports[i] =>
                           \E w \in Write :
                              /\ Ends(w) /\ body[w].club \in entitled[w]
                              /\ \A row \in {reports[i], reports'[i]} \cap ReportRow :
                                   row.club_id = body[w].club
                      /\ \A w \in Write, c \in ClubId :
                           Ends(w) /\ clubs'[c] # clubs[c] => c \in entitled[w]
                      /\ \A x \in issues' \ issues :
                           x.club_id # Null => x.club_id \in entitled[x.by]
    OBVIOUS
  <2>1. ASSUME NEW i \in ReportId, reports'[i] # reports[i]
        PROVE  \E w \in Write :
                  /\ Ends(w) /\ body[w].club \in entitled[w]
                  /\ \A row \in {reports[i], reports'[i]} \cap ReportRow :
                       row.club_id = body[w].club
    <3>1. PICK w \in Write : CreateReport(w) \/ UpdateReport(w) \/ DeleteReport(w)
      BY <2>1, ContentMoves DEF contentVars, ArriveAt, ContentStep, ReadUser, ReadClub, Upload,
         StoreIcon, PostFeedback, Break
    <3>2. Ends(w)
      BY <3>1 DEF CreateReport, UpdateReport, DeleteReport, Ends, Move, ContentInv, Columns
    <3>3. body[w].club \in entitled[w] /\ body[w].report \in ReportId
      BY <3>1, Asked DEF CreateReport, UpdateReport, DeleteReport, EntitledInv, Entitled,
         ContentInv, Behind
    <3>4. CASE CreateReport(w)
      BY <2>1, <3>2, <3>3, <3>4, ContentAssumption DEF CreateReport, ContentInv, Columns
    <3>5. CASE UpdateReport(w)
      <4>1. i = body[w].report /\ Matches(body[w])
            /\ reports'[i] = [reports[i] EXCEPT !.by = w]
        BY <2>1, <3>3, <3>5 DEF UpdateReport, ContentInv, Columns
      <4> QED BY <3>2, <3>3, <4>1 DEF Matches, ReportRow
    <3>6. CASE DeleteReport(w)
      <4>1. i = body[w].report /\ Matches(body[w]) /\ reports'[i] = Gone
        BY <2>1, <3>3, <3>6 DEF DeleteReport, ContentInv, Columns
      <4> QED BY <3>2, <3>3, <4>1, ContentAssumption DEF Matches
    <3> QED BY <3>1, <3>4, <3>5, <3>6
  <2>2. ASSUME NEW w \in Write, NEW c \in ClubId, Ends(w), clubs'[c] # clubs[c]
        PROVE  c \in entitled[w]
    <3>1. PICK v \in Write : (\E b \in Bodies : ArriveAt(v, b)) \/ ContentStep(v)
      BY <2>2, ContentMoves DEF Ends, contentVars
    <3>2. StoreIcon(v)
      BY <2>2, <3>1 DEF tables, ArriveAt, ContentStep, ReadUser, ReadClub, Upload,
         CreateReport, UpdateReport, DeleteReport, PostFeedback, Break
    <3>3. v = w
      BY <2>2, <3>2 DEF StoreIcon, Ends, Move, ContentInv, Columns
    <3>4. body[w].club = c
      BY <2>2, <3>2, <3>3, IconStored
    <3> QED BY <3>2, <3>3, <3>4 DEF StoreIcon, EntitledInv, Entitled
  <2>3. ASSUME NEW x \in issues' \ issues, x.club_id # Null
        PROVE  x.club_id \in entitled[x.by]
    <3>1. PICK w \in Write : PostFeedback(w)
      BY <2>3, ContentMoves DEF contentVars, ArriveAt, ContentStep, ReadUser, ReadClub, Upload,
         StoreIcon, CreateReport, UpdateReport, DeleteReport, Break
    <3>2. x.by = w /\ x.club_id = body[w].token.club_id
      BY <2>3, <3>1 DEF PostFeedback
    <3> QED BY <2>3, <3>1, <3>2 DEF PostFeedback, EntitledInv, Entitled
  <2> QED BY <2>1, <2>2, <2>3
<1> HIDE DEF Permits
<1>2. ContentInit => EntitledInv
  BY DEF ContentInit, EntitledInv, Entitled
<1>3. ContentInit => Serial
  BY InitSerial DEF ContentInit
<1>4. ContentSpec => [][Permits]_allVars
  BY <1>1, <1>2, <1>3, SerialKept, EntitledStep, ContentAlways, PTL DEF ContentSpec
<1> QED BY <1>4 DEF Permits, WritesArePermitted
=============================================================================
