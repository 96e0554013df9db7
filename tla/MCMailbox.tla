----------------------------- MODULE MCMailbox -----------------------------
(* Small instances of Mailbox.                                             *)
EXTENDS MailboxProperties

CONSTANTS inbox, archive

OneFolder == {inbox}
TwoFolders == {inbox, archive}
=============================================================================
