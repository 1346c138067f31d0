---------------------------- MODULE DeviceLogin ----------------------------
(***************************************************************************)
(* The login screen of main.rs: connect(), the dialog about the            *)
(* certificate's fingerprint, config.json, over restarts, and the channels *)
(* it reads from the device (IsapiXml).                                    *)
(*                                                                         *)
(* The dialog is not modal: the form can be edited and Connect pressed     *)
(* while it is open.  One fingerprint is remembered, whatever the host.    *)
(***************************************************************************)
EXTENDS IsapiXml, FiniteSets

CONSTANTS
    Host,           \* devices the user types the address of
    DefaultHost,    \* Config::default().host
    Cert,           \* fingerprints of certificates
    NoCert,         \* None
    NoFile,         \* config.json does not exist or does not parse
    Lists,          \* what a device may list: sequences of [id, name], either NoText
    Faults          \* what may fail: "input", "check", "device", "disk", "crash"

\* config.json, of which the fields below matter here.
Config == [host : Host, https : BOOLEAN, password : BOOLEAN, cert_fingerprint : Cert \cup {NoCert}]

ASSUME LoginAssumption ==
    /\ DefaultHost \in Host /\ NoCert \notin Cert /\ NoFile \notin Config
    /\ Faults \subseteq {"input", "check", "device", "disk", "crash"}
    /\ \A list \in Lists : list \in Seq(Range(list))

Outcome(f) == IF f \in Faults THEN BOOLEAN ELSE {TRUE}

VARIABLES
    pc,         \* "form", "requests" (connect() past the check) or "viewer"
    form,       \* what the login screen shows, and cert_fingerprint: a Config
    pending,    \* pending_new_fingerprint: the dialog is open
    disk,       \* config.json
    saved,      \* history: the last write of it succeeded
    cert,       \* the certificate each device has
    channels,   \* the cameras of the device
    listed,     \* history: what the device listed
    checked,    \* history: what the check of the present connection found
    accepted    \* history: the fingerprints the user accepted

appVars     == <<pc, form, pending>>
fileVars    == <<disk, saved>>
listVars    == <<channels, listed>>
historyVars == <<checked, accepted>>
vars        == <<appVars, fileVars, cert, listVars, historyVars>>

\* Config::default(), and what load() makes of the file there is.  Mutated form:
\* a missing file is not looked for.
LoadUnparsed == disk
Default == [host |-> DefaultHost, https |-> FALSE, password |-> FALSE,
            cert_fingerprint |-> NoCert]
Load == IF disk = NoFile THEN Default ELSE disk

-----------------------------------------------------------------------------
Init ==
    /\ disk = NoFile /\ saved = FALSE
    /\ pc = "form" /\ form = Default /\ pending = NoCert
    /\ cert \in [Host -> Cert]
    /\ channels = <<>> /\ listed = <<>>
    /\ checked = NoCert /\ accepted = {}

-----------------------------------------------------------------------------
\* Mutated form: the configuration is not saved.
SaveNothing(config) == saved' = TRUE /\ UNCHANGED disk

\* Config::save: the file is rewritten in place; a write that fails is logged.
Save(config) ==
    \/ disk' = config /\ saved' = TRUE
    \/ "disk" \in Faults /\ saved' = FALSE /\ UNCHANGED disk

\* The fields of the form but the language, which is saved at once.
EditForm(h, s, p) ==
    /\ pc = "form"
    /\ form' = [form EXCEPT !.host = h, !.https = s, !.password = p]
    /\ UNCHANGED <<pc, pending, fileVars, cert, listVars, historyVars>>

ChangeLanguage ==
    /\ pc = "form"
    /\ Save(form)
    /\ UNCHANGED <<appVars, cert, listVars, historyVars>>

\* connect() up to its first request, with the cert_fingerprint it finds: the
\* fields are validated, and over HTTPS the fingerprint is checked.
\* check_tls_fingerprint opens a connection of its own.
ConnectWith(fp, dialog) ==
    /\ form' = [form EXCEPT !.cert_fingerprint = fp]
    /\ \/ /\ "input" \in Faults
          /\ pc' = "form" /\ pending' = dialog
          /\ UNCHANGED checked
       \/ /\ ~form.https
          /\ pc' = "requests" /\ pending' = dialog /\ checked' = NoCert
       \/ /\ form.https /\ "check" \in Faults
          /\ pc' = "form" /\ pending' = dialog
          /\ UNCHANGED checked
       \/ /\ form.https
          /\ checked' = cert[form.host]
          /\ \/ /\ fp = checked'
                /\ pc' = "requests" /\ pending' = dialog
             \/ /\ fp # checked'
                /\ pc' = "form" /\ pending' = checked'
    /\ UNCHANGED <<fileVars, cert, listVars>>

\* Mutated form: the first certificate is pinned without asking.
ConnectTrusting ==
    /\ pc = "form"
    /\ ConnectWith(IF form.https /\ form.cert_fingerprint = NoCert
                   THEN cert[form.host] ELSE form.cert_fingerprint, pending)
    /\ UNCHANGED accepted

Connect ==
    /\ pc = "form"
    /\ ConnectWith(form.cert_fingerprint, pending)
    /\ UNCHANGED accepted

\* Mutated form: Accept goes on without checking again.
AcceptUnchecked ==
    /\ pc = "form" /\ pending # NoCert
    /\ accepted' = accepted \cup {pending}
    /\ form' = [form EXCEPT !.cert_fingerprint = pending]
    /\ pending' = NoCert /\ pc' = "requests" /\ checked' = cert[form.host]
    /\ UNCHANGED <<fileVars, cert, listVars>>

\* The dialog's Accept sets cert_fingerprint and calls connect().
Accept ==
    /\ pc = "form" /\ pending # NoCert
    /\ accepted' = accepted \cup {pending}
    /\ ConnectWith(pending, NoCert)

Reject ==
    /\ pc = "form" /\ pending # NoCert
    /\ pending' = NoCert
    /\ UNCHANGED <<pc, form, fileVars, cert, listVars, historyVars>>

\* device_info() and channels(); a device without channels leaves the user on
\* the login screen, with its configuration saved.
Requests ==
    /\ pc = "requests"
    /\ \/ /\ \E list \in Lists :
                /\ channels' = OnePerCamera(ParseChannels(ChannelDocument(list)))
                /\ listed' = IF channels' = <<>> THEN <<>> ELSE list
          /\ pc' = IF channels' = <<>> THEN "form" ELSE "viewer"
          /\ Save(form)
       \/ /\ "device" \in Faults
          /\ pc' = "form"
          /\ UNCHANGED <<fileVars, listVars>>
    /\ UNCHANGED <<form, pending, cert, historyVars>>

Disconnect ==
    /\ pc = "viewer"
    /\ pc' = "form" /\ channels' = <<>> /\ listed' = <<>>
    /\ UNCHANGED <<form, pending, fileVars, cert, historyVars>>

-----------------------------------------------------------------------------
\* The program ends, in whatever state, and is started again.  std::fs::write
\* truncates the file first: a crash within save() leaves one that does not parse.
Restart ==
    /\ \/ UNCHANGED disk
       \/ "crash" \in Faults /\ pc # "viewer" /\ disk' = NoFile
    /\ pc' = "form" /\ pending' = NoCert /\ channels' = <<>> /\ listed' = <<>>
    /\ form' = Load'
    /\ UNCHANGED <<saved, cert, historyVars>>

\* A device gets another certificate.
RenewCert(h) ==
    /\ \E c \in Cert : cert' = [cert EXCEPT ![h] = c]
    /\ UNCHANGED <<appVars, fileVars, listVars, historyVars>>

-----------------------------------------------------------------------------
User == \/ Connect \/ Accept \/ Reject \/ ChangeLanguage \/ Disconnect
        \/ \E h \in Host, s, p \in BOOLEAN : EditForm(h, s, p)

Next == User \/ Requests \/ Restart \/ \E h \in Host : RenewCert(h)

Spec == Init /\ [][Next]_vars

-----------------------------------------------------------------------------
(* Properties                                                              *)

\* Type invariant: whatever config.json held, the program has a whole Config.
TypeOK ==
    /\ pc \in {"form", "requests", "viewer"}
    /\ form \in Config /\ disk \in Config \cup {NoFile} /\ saved \in BOOLEAN
    /\ pending \in Cert \cup {NoCert}
    /\ cert \in [Host -> Cert]
    /\ checked \in Cert \cup {NoCert} /\ accepted \subseteq Cert

\* Over HTTPS nothing is requested before the device's certificate was found to
\* be the one that is pinned, and the user accepted that one, in this run of the
\* program or in an earlier one.
HttpsPinned ==
    pc \in {"requests", "viewer"} /\ form.https =>
        form.cert_fingerprint = checked /\ checked \in accepted

\* Only the user's Accept ever pins a fingerprint, in memory or on disk.
PinsAccepted ==
    /\ form.cert_fingerprint \in accepted \cup {NoCert}
    /\ disk # NoFile => disk.cert_fingerprint \in accepted \cup {NoCert}

\* A connection that succeeded is the one a restart comes back to, with its pin,
\* unless the disk refused the write.
ConnectionRemembered ==
    pc = "viewer" /\ saved =>
        \A field \in {"host", "https", "cert_fingerprint"} : Load[field] = form[field]

\* The previews are started by the number sdk_channel_for makes of the id: two
\* cells of the grid never play one camera, as long as the ids are numbers.
NumbersDistinct ==
    \A j, k \in DOMAIN channels :
        /\ j # k
        /\ {channels[j].id.number, channels[k].id.number} \cap {NoNumber} = {}
        /\ ~channels[j].id.spaced /\ ~channels[k].id.spaced
        => SdkChannelFor(channels[j].id) # SdkChannelFor(channels[k].id)

\* The entries of a list that are the first of their camera, and how many of them
\* stand before another entry.
FirstOfCamera(list) ==
    {i \in DOMAIN list : /\ list[i].id # NoText
                         /\ \A j \in 1 .. i - 1 :
                                list[j].id # NoText => CameraOf(list[j].id) # CameraOf(list[i].id)}
Before(list, i) == Cardinality({j \in FirstOfCamera(list) : j < i})

\* The user sees each camera the device lists once, in its order and with the id
\* and the name of its first entry, up to the limit; entries without an id are
\* dropped, and no name moves to another camera.
ChannelsAsListed ==
    LET cameras == Cardinality(FirstOfCamera(listed))
    IN /\ Len(channels) = IF cameras < MaxChannels THEN cameras ELSE MaxChannels
       /\ \A k \in DOMAIN channels :
            \E i \in FirstOfCamera(listed) :
                Before(listed, i) = k - 1 /\ channels[k] = Named(listed[i].id, listed[i].name)
=============================================================================
