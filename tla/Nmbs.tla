-------------------------------- MODULE Nmbs --------------------------------
(***************************************************************************)
(* The nmbs_error codes of nanomodbus.h of the server and the client.      *)
(***************************************************************************)

NMBS_ERROR_NONE             == "NMBS_ERROR_NONE"
NMBS_ERROR_INVALID_REQUEST  == "NMBS_ERROR_INVALID_REQUEST"
NMBS_ERROR_INVALID_TCP_MBAP == "NMBS_ERROR_INVALID_TCP_MBAP"
NMBS_ERROR_INVALID_UNIT_ID  == "NMBS_ERROR_INVALID_UNIT_ID"
NMBS_ERROR_CRC              == "NMBS_ERROR_CRC"
NMBS_ERROR_INVALID_RESPONSE == "NMBS_ERROR_INVALID_RESPONSE"
NMBS_ERROR_INVALID_ARGUMENT == "NMBS_ERROR_INVALID_ARGUMENT"
NMBS_ERROR_TRANSPORT        == "NMBS_ERROR_TRANSPORT"
NMBS_ERROR_TIMEOUT          == "NMBS_ERROR_TIMEOUT"

NMBS_EXCEPTION_ILLEGAL_FUNCTION      == "NMBS_EXCEPTION_ILLEGAL_FUNCTION"
NMBS_EXCEPTION_ILLEGAL_DATA_ADDRESS  == "NMBS_EXCEPTION_ILLEGAL_DATA_ADDRESS"
NMBS_EXCEPTION_ILLEGAL_DATA_VALUE    == "NMBS_EXCEPTION_ILLEGAL_DATA_VALUE"
NMBS_EXCEPTION_SERVER_DEVICE_FAILURE == "NMBS_EXCEPTION_SERVER_DEVICE_FAILURE"

Exceptions == {NMBS_EXCEPTION_ILLEGAL_FUNCTION, NMBS_EXCEPTION_ILLEGAL_DATA_ADDRESS,
               NMBS_EXCEPTION_ILLEGAL_DATA_VALUE, NMBS_EXCEPTION_SERVER_DEVICE_FAILURE}

nmbs_error_is_exception(error) == error \in Exceptions
=============================================================================
